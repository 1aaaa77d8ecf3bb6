------------------------ MODULE ConcurrentBufferInv -------------------------
(***************************************************************************)
(* What holds in ConcurrentBuffer with the LRU policy: the pins and the    *)
(* latches are exactly what the threads hold, a frame is stolen by one     *)
(* thread at a time, the table and the frames agree but for the frames     *)
(* that a thread has stolen, and what is in the table is up to date.       *)
(*                                                                         *)
(* First what a step must respect, then one lemma for each action that     *)
(* leaves table, ids and contents alone; the others, and the theorems, are *)
(* in ConcurrentBufferProofs.                                              *)
(***************************************************************************)
EXTENDS ConcurrentBuffer, TLAPS

-----------------------------------------------------------------------------
(* Counting: S has n members when the numbers from 1 to n name them, each  *)
(* one once.                                                               *)
Enumerates(e, n, S) ==
  /\ e \in [1..n -> S]
  /\ \A s \in S : \E k \in 1..n : e[k] = s
  /\ \A j, k \in 1..n : e[j] = e[k] => j = k
Counts(n, S) == \E e : Enumerates(e, n, S)

(* No member, no number.                                                   *)
LEMMA CountNone ==
  ASSUME NEW n \in Nat, NEW S, Counts(n, S)
  PROVE  n = 0 <=> S = {}
BY DEF Counts, Enumerates

(* The empty set.                                                          *)
LEMMA CountEmpty == Counts(0, {})
<1>1. Enumerates([k \in 1..0 |-> 0], 0, {})
  BY DEF Enumerates
<1> QED
  BY Zenon, <1>1 DEF Counts

(* One more;                                                               *)
LEMMA CountAdd ==
  ASSUME NEW n \in Nat, NEW S, Counts(n, S), NEW t, t \notin S
  PROVE  Counts(n + 1, S \cup {t})
<1>1. PICK e : Enumerates(e, n, S)
  BY Zenon DEF Counts
<1>. DEFINE d == [k \in 1..(n + 1) |-> IF k = n + 1 THEN t ELSE e[k]]
<1>2. \A k \in 1..(n + 1) : k # n + 1 => k \in 1..n /\ d[k] = e[k] /\ d[k] \in S
  BY <1>1 DEF Enumerates
<1>3. d[n + 1] = t /\ n + 1 \in 1..(n + 1) /\ \A k \in 1..n : k \in 1..(n + 1) /\ k # n + 1
  OBVIOUS
<1>4. d \in [1..(n + 1) -> S \cup {t}]
  BY Zenon, <1>2, <1>3
<1>5. \A s \in S \cup {t} : \E k \in 1..(n + 1) : d[k] = s
  <2>1. \A s \in S : \E k \in 1..n : e[k] = s
    BY Zenon, <1>1 DEF Enumerates
  <2> QED
    BY Zenon, <1>2, <1>3, <2>1
<1>6. \A j, k \in 1..(n + 1) : d[j] = d[k] => j = k
  <2>1. \A j, k \in 1..n : e[j] = e[k] => j = k
    BY Zenon, <1>1 DEF Enumerates
  <2> QED
    BY Zenon, <1>2, <1>3, <2>1
<1>7. Enumerates(d, n + 1, S \cup {t})
  BY Zenon, <1>4, <1>5, <1>6 DEF Enumerates
<1> QED
  BY Zenon, <1>7 DEF Counts

(* and one less: the last takes the place of the one that leaves.          *)
LEMMA CountRemove ==
  ASSUME NEW n \in Nat, NEW S, Counts(n, S), NEW t \in S
  PROVE  n - 1 \in Nat /\ Counts(n - 1, S \ {t})
<1>1. PICK e : Enumerates(e, n, S)
  BY Zenon DEF Counts
<1>2. PICK m \in 1..n : e[m] = t
  BY Zenon, <1>1 DEF Enumerates
<1>3. n - 1 \in Nat /\ n \in 1..n /\ \A k \in 1..(n - 1) : k \in 1..n /\ k # n
  BY <1>2
<1>. DEFINE d == [k \in 1..(n - 1) |-> IF k = m THEN e[n] ELSE e[k]]
<1>4. \A j, k \in 1..n : e[j] = e[k] => j = k
  BY Zenon, <1>1 DEF Enumerates
<1>5. \A k \in 1..(n - 1) : d[k] = (IF k = m THEN e[n] ELSE e[k]) /\ d[k] \in S \ {t}
  <2>1. \A k \in 1..n : e[k] \in S /\ (e[k] = t => k = m)
    BY Zenon, <1>1, <1>2, <1>4 DEF Enumerates
  <2> QED
    BY Zenon, <1>2, <1>3, <2>1
<1>6. d \in [1..(n - 1) -> S \ {t}]
  BY Zenon, <1>5
<1>7. \A s \in S \ {t} : \E k \in 1..(n - 1) : d[k] = s
  <2>. SUFFICES ASSUME NEW s \in S \ {t} PROVE \E k \in 1..(n - 1) : d[k] = s
    OBVIOUS
  <2>1. PICK k \in 1..n : e[k] = s
    BY Zenon, <1>1 DEF Enumerates
  <2>2. k # m
    BY Zenon, <1>2, <2>1
  <2>3. CASE k = n
    <3>1. m \in 1..(n - 1)
      BY <1>2, <2>2, <2>3
    <3> QED
      BY Zenon, <1>5, <2>1, <2>3, <3>1
  <2>4. CASE k # n
    <3>1. k \in 1..(n - 1)
      BY <2>1, <2>4
    <3> QED
      BY Zenon, <1>5, <2>1, <2>2, <3>1
  <2> QED
    BY Zenon, <2>3, <2>4
<1>8. \A j, k \in 1..(n - 1) : d[j] = d[k] => j = k
  BY Zenon, <1>2, <1>3, <1>4, <1>5
<1>9. Enumerates(d, n - 1, S \ {t})
  BY Zenon, <1>6, <1>7, <1>8 DEF Enumerates
<1> QED
  BY Zenon, <1>3, <1>9 DEF Counts

(* A set of processes that changes by at most one process.                 *)
LEMMA CountStep ==
  ASSUME NEW A, NEW B, NEW n \in Nat, Counts(n, A), NEW t,
         \A u : u # t => (u \in A <=> u \in B)
  PROVE  /\ (t \in A <=> t \in B) => Counts(n, B)
         /\ t \notin A /\ t \in B => Counts(n + 1, B)
         /\ t \in A /\ t \notin B => Counts(n - 1, B)
<1>1. (t \in A <=> t \in B) => B = A
  OBVIOUS
<1>2. ASSUME t \notin A, t \in B PROVE Counts(n + 1, B)
  <2>1. B = A \cup {t}
    BY Zenon, <1>2
  <2> QED
    BY Zenon, <1>2, <2>1, CountAdd
<1>3. ASSUME t \in A, t \notin B PROVE Counts(n - 1, B)
  <2>1. B = A \ {t}
    BY Zenon, <1>3
  <2> QED
    BY Zenon, <1>3, <2>1, CountRemove
<1> QED
  BY Zenon, <1>1, <1>2, <1>3

-----------------------------------------------------------------------------
(* What a thread at a label has of the frame in its hand: it has stolen    *)
(* it, keeps it pinned for the caller, has it latched to write or to read. *)
StealPC == {"begin", "putback", "evict", "remove", "evicted", "latch"}
HoldPC == {"pinned", "holding", "wrong"}
WritePC == {"evict", "remove", "evicted", "read", "write"}
ReadPC == {"holding", "wrong", "release"}
FlushPC == {"idle", "flush", "flush_wait", "try", "wait", "write"}
Labels == StealPC \cup HoldPC \cup WritePC \cup ReadPC \cup FlushPC
          \cup {"populate", "lookup"}

Spares(t, f) == t \in Threads /\ tls[t] = f
Steals(t, f) == Spares(t, f) \/ (fr[t] = f /\ pc[t] \in StealPC)
Pins(t, f) == \/ Spares(t, f)
              \/ /\ fr[t] = f
                 /\ pc[t] \in StealPC \cup HoldPC \/ (pc[t] = "write" /\ sequential)
Reads(t, f) == fr[t] = f /\ pc[t] \in ReadPC
Writes(t, f) == fr[t] = f /\ pc[t] \in WritePC

Pinners(f) == {t \in Procs : Pins(t, f)}
ReadersOf(f) == {t \in Procs : Reads(t, f)}

Types ==
  /\ hash \in [Ids -> Frames \cup {NoFrame}]
  /\ lock \in [Ids -> Procs \cup {NoFrame}]
  /\ id \in [Frames -> Ids \cup {NoPage}]
  /\ pin \in [Frames -> Nat] /\ queue \in [Frames -> {0, 1}]
  /\ writer \in [Frames -> Procs \cup {NoFrame}] /\ readers \in [Frames -> Nat]
  /\ dirty \in [Frames -> BOOLEAN] /\ needsFlush \in [Frames -> BOOLEAN]
  /\ fresh \in [Frames -> BOOLEAN] /\ diskFresh \in [Pages -> BOOLEAN]
  /\ pc \in [Procs -> Labels] /\ pc[Worker] \in FlushPC
  /\ want \in [Threads -> Pages \cup {NoPage}]
  /\ key \in [Procs -> Ids \cup {NoPage}]
  /\ fr \in [Procs -> Frames \cup {NoFrame}]
  /\ tls \in [Threads -> Frames \cup {NoFrame}]
  /\ sequential \in BOOLEAN

(* pinCount is the number of those who have the frame pinned, the latch    *)
(* counts its readers and names its writer, and has not both.              *)
PinsExact == \A f \in Frames : Counts(pin[f], Pinners(f))
ReadersExact == \A f \in Frames : Counts(readers[f], ReadersOf(f))
WriterExact == \A f \in Frames : \A t \in Procs : writer[f] = t <=> Writes(t, f)
LatchExclusive == \A f \in Frames : writer[f] # NoFrame => readers[f] = 0

(* A frame is stolen by one thread.                                        *)
StealOnce == \A f \in Frames : \A t, u \in Procs : Steals(t, f) /\ Steals(u, f) => t = u

(* The table leads to a frame that has the id, or will get it from the     *)
(* thread that has put it there; and to every frame that is not stolen.    *)
Hidden(f) == \A i \in Ids : hash[i] # f
Resident(f) == id[f] # NoPage /\ hash[id[f]] = f
Named == \A i \in Ids : hash[i] # NoFrame =>
           \/ id[hash[i]] = i
           \/ \E t \in Threads : pc[t] = "latch" /\ fr[t] = hash[i] /\ want[t] = i
Placed == \A f \in Frames :
            \/ Resident(f)
            \/ \E t \in Threads : Spares(t, f) \/ (fr[t] = f /\ pc[t] \in {"evicted", "latch"})
Dummies == \A f \in Frames : id[f] \in Frames => id[f] = f

(* What a process knows of the page and the frame in its hand.             *)
HasFrame(t) ==
  /\ pc[t] \in StealPC \cup HoldPC \cup WritePC \cup ReadPC \cup {"try", "wait"} => fr[t] \in Frames
  /\ pc[t] \in {"begin", "putback", "evict", "remove", "try", "wait", "write"} => key[t] # NoPage
Victim(t) ==
  /\ pc[t] \in {"begin", "putback", "evict", "remove"} =>
       id[fr[t]] = key[t] /\ hash[key[t]] = fr[t]
  /\ pc[t] \in {"putback", "evict", "remove"} => lock[key[t]] = t
  /\ pc[t] = "remove" => ~dirty[fr[t]]
  /\ pc[t] = "evicted" => Hidden(fr[t])
Spare(t) ==
  /\ tls[t] # NoFrame => id[tls[t]] = NoPage /\ Hidden(tls[t])
  /\ pc[t] \in StealPC \cup {"populate", "read"} => tls[t] = NoFrame
Wants(t) ==
  /\ pc[t] \in StealPC \cup HoldPC \cup {"populate", "lookup", "read"} => want[t] \in Pages
  /\ pc[t] \in {"lookup", "pinned", "wrong"} => tls[t] # NoFrame
  /\ pc[t] \in {"release", "flush", "flush_wait", "try", "wait", "write"} /\ want[t] # NoPage =>
       tls[t] # NoFrame
Loads(t) ==
  /\ pc[t] = "latch" => /\ hash[want[t]] = fr[t] /\ lock[want[t]] = t
                        /\ id[fr[t]] = NoPage
  /\ pc[t] \in {"read", "holding"} => id[fr[t]] = want[t] /\ hash[want[t]] = fr[t]
  /\ pc[t] = "read" => ~dirty[fr[t]]
  /\ pc[t] \in {"latch", "read"} => diskFresh[want[t]]
  /\ pc[t] \in HoldPC => fr[t] # tls[t]
Flushes(t) == pc[t] = "write" => id[fr[t]] = key[t]

Local(t) == /\ HasFrame(t) /\ Flushes(t)
            /\ t \in Threads => Victim(t) /\ Spare(t) /\ Wants(t) /\ Loads(t)
ControlOK == \A t \in Procs : Local(t)

(* A frame in the table shows every update, but while it is being read;    *)
(* then, and when no frame has the page, the page file does.               *)
BeingRead(f) == \E t \in Threads : pc[t] = "read" /\ fr[t] = f
FramesFresh == \A f \in Frames : id[f] \in Pages /\ hash[id[f]] = f /\ ~BeingRead(f) =>
                                   fresh[f] /\ (dirty[f] \/ diskFresh[id[f]])
DiskFresh == \A p \in Pages : hash[p] = NoFrame => diskFresh[p]
DirtyPlaced == \A f \in Frames : dirty[f] => id[f] \in Pages /\ hash[id[f]] = f

(* The LRU list has unpinned frames only, and all but dirty ones.          *)
ListUnpinned == \A f \in Frames : queue[f] = 1 => pin[f] = 0
Listed == ListUnpinned /\ FramesReachable

Inv == /\ Types
       /\ PinsExact /\ ReadersExact /\ WriterExact /\ LatchExclusive
       /\ StealOnce
       /\ Named /\ Placed /\ Dummies
       /\ ControlOK
       /\ FramesFresh /\ DiskFresh /\ DirtyPlaced
       /\ Listed
-----------------------------------------------------------------------------
(* A step of t changes the control state of t only.                        *)
OnlyMoves(t) ==
  /\ \A u \in Procs : u # t => pc'[u] = pc[u] /\ fr'[u] = fr[u] /\ key'[u] = key[u]
  /\ \A u \in Threads : u # t => tls'[u] = tls[u] /\ want'[u] = want[u]
  /\ sequential' = sequential

(* How a step of t may change what it pins, reads, latches and steals: the *)
(* counters and latches follow, and only a frame that nobody had pinned is *)
(* stolen.                                                                 *)
PinMoves(t) == \A f \in Frames :
  \/ (Pins(t, f)' <=> Pins(t, f)) /\ pin'[f] = pin[f]
  \/ Pins(t, f)' /\ ~Pins(t, f) /\ pin'[f] = pin[f] + 1
  \/ ~Pins(t, f)' /\ Pins(t, f) /\ pin'[f] = pin[f] - 1
ReadMoves(t) == \A f \in Frames :
  \/ (Reads(t, f)' <=> Reads(t, f)) /\ readers'[f] = readers[f]
  \/ /\ Reads(t, f)' /\ ~Reads(t, f) /\ readers'[f] = readers[f] + 1
     /\ writer[f] = NoFrame /\ writer'[f] = NoFrame
  \/ ~Reads(t, f)' /\ Reads(t, f) /\ readers'[f] = readers[f] - 1
WriteMoves(t) == \A f \in Frames :
  \/ (Writes(t, f)' <=> Writes(t, f)) /\ writer'[f] = writer[f]
  \/ Writes(t, f)' /\ Unlatched(f) /\ writer'[f] = t /\ readers'[f] = 0
  \/ ~Writes(t, f)' /\ Writes(t, f) /\ writer'[f] = NoFrame
StealMoves(t) == \A f \in Frames : Steals(t, f)' => Steals(t, f) \/ pin[f] = 0

(* The pins stay exact when pinCount changes as t's pin does.              *)
LEMMA PinStep ==
  ASSUME Types, PinsExact, NEW t \in Procs, OnlyMoves(t), PinMoves(t)
  PROVE  PinsExact'
<1> SUFFICES ASSUME NEW f \in Frames
             PROVE  Counts(pin'[f], Pinners(f)')
  BY Zenon DEF PinsExact
<1>1. \A u \in Procs : u # t => (Pins(u, f)' <=> Pins(u, f))
  BY Zenon DEF OnlyMoves, Pins, Spares, Procs
<1>2. /\ \A u : u \in Pinners(f) <=> u \in Procs /\ Pins(u, f)
      /\ \A u : u \in Pinners(f)' <=> u \in Procs /\ Pins(u, f)'
  BY Zenon DEF Pinners
<1>3. pin[f] \in Nat /\ Counts(pin[f], Pinners(f))
  BY Zenon DEF Types, PinsExact
<1>4. \A u : u # t => (u \in Pinners(f) <=> u \in Pinners(f)')
  BY Zenon, <1>1, <1>2
<1>5. /\ (t \in Pinners(f) <=> t \in Pinners(f)') => Counts(pin[f], Pinners(f)')
      /\ t \notin Pinners(f) /\ t \in Pinners(f)' => Counts(pin[f] + 1, Pinners(f)')
      /\ t \in Pinners(f) /\ t \notin Pinners(f)' => Counts(pin[f] - 1, Pinners(f)')
  BY Zenon, <1>3, <1>4, CountStep
<1> QED
  BY Zenon, <1>2, <1>5 DEF PinMoves

(* The same for the readers of the latch.                                  *)
LEMMA ReaderStep ==
  ASSUME Types, ReadersExact, NEW t \in Procs, OnlyMoves(t), ReadMoves(t)
  PROVE  ReadersExact'
<1> SUFFICES ASSUME NEW f \in Frames
             PROVE  Counts(readers'[f], ReadersOf(f)')
  BY Zenon DEF ReadersExact
<1>1. \A u \in Procs : u # t => (Reads(u, f)' <=> Reads(u, f))
  BY Zenon DEF OnlyMoves, Reads
<1>2. /\ \A u : u \in ReadersOf(f) <=> u \in Procs /\ Reads(u, f)
      /\ \A u : u \in ReadersOf(f)' <=> u \in Procs /\ Reads(u, f)'
  BY Zenon DEF ReadersOf
<1>3. readers[f] \in Nat /\ Counts(readers[f], ReadersOf(f))
  BY Zenon DEF Types, ReadersExact
<1>4. \A u : u # t => (u \in ReadersOf(f) <=> u \in ReadersOf(f)')
  BY Zenon, <1>1, <1>2
<1>5. /\ (t \in ReadersOf(f) <=> t \in ReadersOf(f)') => Counts(readers[f], ReadersOf(f)')
      /\ t \notin ReadersOf(f) /\ t \in ReadersOf(f)' => Counts(readers[f] + 1, ReadersOf(f)')
      /\ t \in ReadersOf(f) /\ t \notin ReadersOf(f)' => Counts(readers[f] - 1, ReadersOf(f)')
  BY Zenon, <1>3, <1>4, CountStep
<1> QED
  BY Zenon, <1>2, <1>5 DEF ReadMoves

(* A frame that counts no pin or no reader has none, and conversely one    *)
(* that is pinned or read is counted.                                      *)
LEMMA NoneCounted ==
  ASSUME Types, PinsExact, ReadersExact, NEW f \in Frames, NEW t \in Procs
  PROVE  /\ pin[f] = 0 => ~Pins(t, f)
         /\ readers[f] = 0 => ~Reads(t, f)
<1>1. /\ pin[f] \in Nat /\ Counts(pin[f], Pinners(f))
      /\ readers[f] \in Nat /\ Counts(readers[f], ReadersOf(f))
  BY Zenon DEF Types, PinsExact, ReadersExact
<1>2. /\ pin[f] = 0 => Pinners(f) = {}
      /\ readers[f] = 0 => ReadersOf(f) = {}
  BY Zenon, <1>1, CountNone
<1> QED
  BY Zenon, <1>2 DEF Pinners, ReadersOf

(* A frame stays stolen by one thread: a new thief takes one that nobody   *)
(* has pinned, and so nobody has stolen.                                   *)
LEMMA StealStep ==
  ASSUME Types, PinsExact, ReadersExact, StealOnce,
         NEW t \in Procs, OnlyMoves(t), StealMoves(t)
  PROVE  StealOnce'
<1>1. \A f \in Frames : \A u \in Procs : Steals(u, f) => pin[f] # 0
  BY Zenon, NoneCounted DEF Steals, Pins
<1>2. \A f \in Frames : \A u \in Procs : u # t => (Steals(u, f)' <=> Steals(u, f))
  BY Zenon DEF OnlyMoves, Steals, Spares, Procs
<1> QED
  BY <1>1, <1>2 DEF StealOnce, StealMoves

(* The latches stay exact and exclusive.                                   *)
LEMMA LatchStep ==
  ASSUME Types, PinsExact, ReadersExact, WriterExact, LatchExclusive,
         NEW t \in Procs, OnlyMoves(t), ReadMoves(t), WriteMoves(t)
  PROVE  WriterExact' /\ LatchExclusive'
<1>1. \A f \in Frames : \A u \in Procs : u # t => (Writes(u, f)' <=> Writes(u, f))
  BY Zenon DEF OnlyMoves, Writes
<1>2. \A u \in Procs : u # NoFrame
  BY Zenon, NameAssumption
<1>3. WriterExact'
  BY Zenon, <1>1, <1>2 DEF WriterExact, WriteMoves, Unlatched
<1>4. ASSUME NEW f \in Frames, writer'[f] # NoFrame PROVE readers'[f] = 0
  <2>1. Reads(t, f) => readers[f] # 0
    BY Zenon, NoneCounted
  <2>2. writer[f] # NoFrame => readers[f] = 0
    BY Zenon DEF LatchExclusive
  <2> QED
    BY Zenon, <1>4, <2>1, <2>2 DEF ReadMoves, WriteMoves, Unlatched
<1> QED
  BY Zenon, <1>3, <1>4 DEF LatchExclusive

(* The list stays right when a frame is put back to the policy.            *)
LEMMA InsertListed ==
  ASSUME Policy = "lru", Types, Listed, NEW f \in Frames, pin[f] # 0, NEW d \in BOOLEAN,
         PolicyInsert(f, d), dirty' = [dirty EXCEPT ![f] = d], sequential' = sequential
  PROVE  Listed'
<1>1. \A g \in Frames : g # f => pin'[g] = pin[g] /\ queue'[g] = queue[g] /\ dirty'[g] = dirty[g]
  BY Zenon DEF PolicyInsert, Types
<1>2. /\ pin'[f] = pin[f] - 1 /\ pin[f] \in Nat /\ dirty'[f] = d /\ queue[f] \in {0, 1}
      /\ queue'[f] = IF pin[f] = 1 /\ ~(sequential /\ d) THEN 1 ELSE queue[f]
  BY Zenon DEF PolicyInsert, Types
<1>3. \A g \in Frames : queue[g] = 1 => pin[g] = 0
  BY Zenon DEF Listed, ListUnpinned
<1> QED
  BY <1>1, <1>2, <1>3 DEF Listed, ListUnpinned, FramesReachable

(* The same for a frame that is taken from the policy.                     *)
LEMMA RemoveListed ==
  ASSUME Policy = "lru", Types, Listed, NEW f \in Frames,
         PolicyRemove(f), dirty' = dirty, sequential' = sequential
  PROVE  Listed'
<1>1. \A g \in Frames : g # f => pin'[g] = pin[g] /\ queue'[g] = queue[g]
  BY Zenon DEF PolicyRemove, Types
<1>2. pin'[f] = pin[f] + 1 /\ pin[f] \in Nat /\ queue'[f] = 0
  BY Zenon DEF PolicyRemove, Types
<1> QED
  BY <1>1, <1>2 DEF Listed, ListUnpinned, FramesReachable


(* A step that leaves the table, the ids and the contents alone; t may     *)
(* lock a free bucket or unlock its own.                                   *)
Quiet(t) ==
  /\ hash' = hash /\ id' = id /\ dirty' = dirty /\ fresh' = fresh /\ diskFresh' = diskFresh
  /\ \A i \in Ids : lock[i] \in Procs /\ lock[i] # t => lock'[i] = lock[i]
  /\ pc[t] \notin {"latch", "evicted", "read"}
  /\ t \in Threads => tls'[t] = tls[t]

(* It disturbs nobody else.                                                *)
LEMMA QuietStep ==
  ASSUME Inv, NEW t \in Procs, OnlyMoves(t), Quiet(t), Local(t)'
  PROVE  /\ Named' /\ Placed' /\ Dummies' /\ ControlOK'
         /\ FramesFresh' /\ DiskFresh' /\ DirtyPlaced'
<1>1. Threads \subseteq Procs
  BY Zenon DEF Procs
<1>2. Named' /\ Placed' /\ Dummies'
  <2>1. \A u \in Threads : pc[u] \in {"evicted", "latch"} => u # t
    BY Zenon DEF Quiet
  <2>2. \A u \in Threads, f \in Frames : Spares(u, f) => Spares(u, f)'
    BY Zenon DEF Spares, OnlyMoves, Quiet
  <2> QED
    BY <1>1, <2>1, <2>2 DEF Inv, Named, Placed, Dummies, Resident, OnlyMoves, Quiet
<1>3. ASSUME NEW u \in Procs, u # t PROVE Local(u)'
  <2>1. HasFrame(u)' /\ Flushes(u)'
    BY Zenon, <1>3 DEF Inv, ControlOK, Local, HasFrame, Flushes, OnlyMoves, Quiet
  <2>2. ASSUME u \in Threads PROVE Victim(u)' /\ Spare(u)' /\ Wants(u)' /\ Loads(u)'
    <3>1. Victim(u) /\ Spare(u) /\ Wants(u) /\ Loads(u) /\ HasFrame(u)
      BY Zenon, <2>2 DEF Inv, ControlOK, Local
    <3>2. Spare(u)' /\ Wants(u)'
      BY Zenon, <1>3, <2>2, <3>1 DEF Spare, Hidden, Wants, OnlyMoves, Quiet
    <3>3. Victim(u)'
      BY <1>3, <2>2, <3>1 DEF Inv, Types, HasFrame, Victim, Hidden, OnlyMoves, Quiet
    <3>4. Loads(u)'
      BY Zenon, <1>3, <2>2, <3>1 DEF Inv, Types, HasFrame, Wants, Loads, OnlyMoves, Quiet, Ids, StealPC
    <3> QED
      BY Zenon, <3>2, <3>3, <3>4
  <2> QED
    BY Zenon, <2>1, <2>2 DEF Local
<1>4. ControlOK'
  BY Zenon, <1>3 DEF ControlOK
<1>5. \A f \in Frames : BeingRead(f) => BeingRead(f)'
  BY Zenon, <1>1 DEF BeingRead, OnlyMoves, Quiet
<1>6. FramesFresh' /\ DiskFresh' /\ DirtyPlaced'
  BY Zenon, <1>5 DEF Inv, FramesFresh, DiskFresh, DirtyPlaced, Quiet
<1> QED
  BY Zenon, <1>2, <1>4, <1>6

(* What remains to be shown of a step: that counters, latches and list     *)
(* follow what t does; and of a quiet one, that t knows what it has.       *)
Follows(t) ==
  /\ Types' /\ Listed' /\ OnlyMoves(t)
  /\ PinMoves(t) /\ ReadMoves(t) /\ WriteMoves(t) /\ StealMoves(t)

(* Such a step keeps the invariant when it keeps the table, the control    *)
(* and the contents right.                                                 *)
LEMMA OtherInv ==
  ASSUME Inv, NEW t \in Procs, Follows(t),
         Named', Placed', Dummies', ControlOK', FramesFresh', DiskFresh', DirtyPlaced'
  PROVE  Inv'
<1>1. PinsExact' /\ ReadersExact' /\ StealOnce'
  BY Zenon, PinStep, ReaderStep, StealStep DEF Inv, Follows
<1>2. WriterExact' /\ LatchExclusive'
  BY Zenon, LatchStep DEF Inv, Follows
<1> QED
  BY Zenon, <1>1, <1>2 DEF Inv, Follows

(* A quiet step does.                                                      *)
LEMMA QuietInv ==
  ASSUME Inv, NEW t \in Procs, Follows(t), Quiet(t), Local(t)'
  PROVE  Inv'
<1>1. /\ Named' /\ Placed' /\ Dummies' /\ ControlOK'
      /\ FramesFresh' /\ DiskFresh' /\ DirtyPlaced'
  BY Zenon, QuietStep DEF Follows
<1> QED
  BY Zenon, <1>1, OtherInv

(* A process that a step does not concern at all knows what it knew.       *)
LEMMA LocalKept ==
  ASSUME NEW u \in Procs, Local(u), pc'[u] = pc[u], fr'[u] = fr[u],
         hash' = hash, id' = id, lock' = lock, dirty' = dirty, diskFresh' = diskFresh,
         tls' = tls, want' = want, key' = key
  PROVE  Local(u)'
<1>1. HasFrame(u)' /\ Flushes(u)'
  BY Zenon DEF Local, HasFrame, Flushes
<1>2. ASSUME u \in Threads PROVE Victim(u)' /\ Spare(u)' /\ Wants(u)' /\ Loads(u)'
  <2>1. Victim(u) /\ Spare(u) /\ Wants(u) /\ Loads(u)
    BY Zenon, <1>2 DEF Local
  <2>2. Victim(u)'
    BY Zenon, <2>1 DEF Victim, Hidden
  <2>3. Spare(u)' /\ Wants(u)'
    BY Zenon, <2>1 DEF Spare, Wants, Hidden
  <2>4. Loads(u)'
    BY Zenon, <2>1 DEF Loads
  <2> QED
    BY Zenon, <2>2, <2>3, <2>4
<1> QED
  BY Zenon, <1>1, <1>2 DEF Local


(* Whoever latched a frame to write has it alone, and nobody else has      *)
(* stolen what t has stolen.                                               *)
LEMMA Alone ==
  ASSUME Inv, NEW t \in Procs, NEW u \in Procs, u # t, NEW f \in Frames
  PROVE  /\ Writes(t, f) => ~Writes(u, f) /\ ~Reads(u, f)
         /\ Reads(t, f) => ~Writes(u, f)
         /\ Steals(t, f) => ~Steals(u, f)
<1>1. Writes(t, f) => writer[f] = t /\ readers[f] = 0
  BY Zenon, NameAssumption DEF Inv, WriterExact, LatchExclusive
<1>2. Writes(u, f) => writer[f] = u /\ readers[f] = 0
  BY Zenon, NameAssumption DEF Inv, WriterExact, LatchExclusive
<1>3. /\ readers[f] = 0 => ~Reads(u, f)
      /\ readers[f] = 0 => ~Reads(t, f)
  BY Zenon, NoneCounted DEF Inv
<1> QED
  BY Zenon, <1>1, <1>2, <1>3 DEF Inv, StealOnce

-----------------------------------------------------------------------------
(* A step of the thief of a frame: t has stolen f, which has no id or is   *)
(* latched by t, and only bucket i (if any) leads to f, and to no other    *)
(* frame.                                                                  *)
Owns(t, f, i) ==
  /\ Steals(t, f) /\ (id[f] = NoPage \/ Writes(t, f))
  /\ \A j \in Ids : hash[j] = f => j = i
  /\ i \in Ids => hash[i] \in {f, NoFrame}

(* It touches that frame and that bucket only.                             *)
Touches(t, f, i) ==
  /\ \A g \in Frames : g # f => id'[g] = id[g] /\ dirty'[g] = dirty[g] /\ fresh'[g] = fresh[g]
  /\ \A j \in Ids : j # i => hash'[j] = hash[j] /\ lock'[j] = lock[j]
  /\ i \in Ids => hash'[i] \in {f, NoFrame}
  /\ diskFresh' = diskFresh
  /\ pc[t] \in {"evicted", "latch", "read"} => fr[t] = f
  /\ \A g \in Frames : g # f /\ Spares(t, g) => Spares(t, g)'

(* What must be right about the two when it is done.                       *)
Settled(f, i) ==
  /\ i \in Ids /\ hash[i] # NoFrame =>
       \/ id[hash[i]] = i
       \/ \E t \in Threads : pc[t] = "latch" /\ fr[t] = hash[i] /\ want[t] = i
  /\ i \in Pages /\ hash[i] = NoFrame => diskFresh[i]
  /\ Resident(f) \/ \E t \in Threads : Spares(t, f) \/ (fr[t] = f /\ pc[t] \in {"evicted", "latch"})
  /\ id[f] \in Frames => id[f] = f
  /\ id[f] \in Pages /\ hash[id[f]] = f /\ ~BeingRead(f) => fresh[f] /\ (dirty[f] \/ diskFresh[id[f]])
  /\ dirty[f] => id[f] \in Pages /\ hash[id[f]] = f

(* Nobody else has to do with the frame and the bucket.                    *)
LEMMA TouchOthers ==
  ASSUME Inv, NEW t \in Procs, NEW f \in Frames, NEW i,
         OnlyMoves(t), Owns(t, f, i), Touches(t, f, i), NEW u \in Procs, u # t
  PROVE  Local(u)'
<1>1. Local(u) /\ pc'[u] = pc[u] /\ fr'[u] = fr[u] /\ key'[u] = key[u]
  BY Zenon DEF Inv, ControlOK, OnlyMoves
<1>2. ~Steals(u, f) /\ (Writes(t, f) => ~Writes(u, f) /\ ~Reads(u, f))
  BY Zenon, Alone DEF Owns
<1>3. /\ \A g \in Frames : g # f => id'[g] = id[g] /\ dirty'[g] = dirty[g]
      /\ \A j \in Ids : j # i => hash'[j] = hash[j] /\ lock'[j] = lock[j]
      /\ i \in Ids => hash[i] \in {f, NoFrame} /\ hash'[i] \in {f, NoFrame}
      /\ id[f] = NoPage \/ Writes(t, f)
  BY Zenon DEF Owns, Touches
<1>4. HasFrame(u)' /\ Flushes(u)'
  <2>1. HasFrame(u) /\ Flushes(u)
    BY Zenon, <1>1 DEF Local
  <2>2. pc[u] = "write" => fr[u] \in Frames /\ fr[u] # f
    BY Zenon, <1>2, <1>3, <2>1 DEF HasFrame, Flushes, Writes, WritePC
  <2>3. HasFrame(u)'
    BY Zenon, <1>1, <2>1 DEF HasFrame
  <2> QED
    BY Zenon, <1>1, <1>3, <2>1, <2>2, <2>3 DEF Flushes
<1>5. ASSUME u \in Threads PROVE Victim(u)' /\ Spare(u)' /\ Wants(u)' /\ Loads(u)'
  <2>1. /\ HasFrame(u) /\ Victim(u) /\ Spare(u) /\ Wants(u) /\ Loads(u)
        /\ want'[u] = want[u] /\ tls'[u] = tls[u] /\ tls[u] \in Frames \cup {NoFrame}
        /\ key[u] \in Ids \cup {NoPage}
    BY Zenon, <1>1, <1>5 DEF Local, OnlyMoves, Inv, Types
  <2>2. tls[u] # f /\ (pc[u] \in StealPC => fr[u] \in Frames /\ fr[u] # f)
    BY Zenon, <1>2, <1>5, <2>1 DEF Steals, Spares, HasFrame
  <2>3. \A g \in Frames : g # f /\ Hidden(g) => Hidden(g)'
    BY Zenon, <1>3, NameAssumption DEF Hidden
  <2>4. Spare(u)' /\ Wants(u)'
    BY Zenon, <1>1, <1>3, <2>1, <2>2, <2>3 DEF Spare, Wants
  <2>5. Victim(u)'
    <3>1. pc[u] \in {"begin", "putback", "evict", "remove"} =>
            key[u] \in Ids /\ key[u] # i /\ fr[u] \in Frames /\ fr[u] # f
      <4>1. pc[u] \in {"begin", "putback", "evict", "remove"} =>
              pc[u] \in StealPC /\ key[u] # NoPage /\ hash[key[u]] = fr[u]
        BY Zenon, <2>1 DEF HasFrame, Victim, StealPC
      <4> QED
        BY <1>3, <2>1, <2>2, <4>1, NameAssumption
    <3> QED
      BY Zenon, <1>1, <1>3, <2>1, <2>2, <2>3, <3>1 DEF Victim, StealPC
  <2>6. Loads(u)'
    <3>1. pc[u] \in {"latch", "read", "holding"} => fr[u] \in Frames /\ want[u] \in Pages
      BY Zenon, <2>1 DEF HasFrame, Wants, StealPC, HoldPC, WritePC, ReadPC
    <3>2. pc[u] \in {"read", "holding"} => fr[u] # f
      <4>1. ASSUME id[f] = NoPage, pc[u] \in {"read", "holding"}, fr[u] = f PROVE FALSE
        BY Zenon, <2>1, <3>1, <4>1, NameAssumption DEF Loads, Ids
      <4>2. ASSUME Writes(t, f), pc[u] \in {"read", "holding"}, fr[u] = f PROVE FALSE
        BY Zenon, <1>2, <4>2 DEF Writes, Reads, WritePC, ReadPC
      <4> QED
        BY Zenon, <1>3, <4>1, <4>2
    <3>3. pc[u] = "latch" => fr[u] # f
      BY Zenon, <2>2 DEF StealPC
    <3>4. pc[u] \in {"latch", "read", "holding"} => want[u] \in Ids /\ want[u] # i
      BY Zenon, <1>3, <2>1, <3>1, <3>2, <3>3, NameAssumption DEF Loads, Ids
    <3> QED
      BY Zenon, <1>1, <1>3, <2>1, <3>1, <3>2, <3>3, <3>4 DEF Loads, Touches
  <2> QED
    BY Zenon, <2>4, <2>5, <2>6
<1> QED
  BY Zenon, <1>4, <1>5 DEF Local

(* The table and the frames agree again;                                   *)
LEMMA TouchTable ==
  ASSUME Inv, NEW t \in Procs, NEW f \in Frames, NEW i,
         OnlyMoves(t), Owns(t, f, i), Touches(t, f, i), Settled(f, i)'
  PROVE  Named' /\ Placed' /\ Dummies'
<1>1. /\ \A g \in Frames : g # f => id'[g] = id[g]
      /\ \A j \in Ids : j # i => hash'[j] = hash[j]
      /\ i \in Ids => hash[i] \in {f, NoFrame}
      /\ \A j \in Ids : hash[j] = f => j = i
  BY Zenon DEF Owns, Touches
<1>2. \A u \in Threads : pc[u] \in {"evicted", "latch"} /\ fr[u] # f =>
                           pc'[u] = pc[u] /\ fr'[u] = fr[u] /\ want'[u] = want[u]
  BY Zenon DEF OnlyMoves, Touches, Procs
<1>3. Named'
  <2>. SUFFICES ASSUME NEW j \in Ids, hash'[j] # NoFrame
                PROVE  \/ id'[hash'[j]] = j
                       \/ \E u \in Threads : pc'[u] = "latch" /\ fr'[u] = hash'[j] /\ want'[u] = j
    BY Zenon DEF Named
  <2>1. CASE j = i
    BY Zenon, <2>1 DEF Settled
  <2>2. CASE j # i
    <3>1. hash'[j] = hash[j] /\ hash[j] # NoFrame /\ hash[j] \in Frames /\ hash[j] # f
      BY Zenon, <1>1, <2>2 DEF Inv, Types
    <3>2. \/ id[hash[j]] = j
          \/ \E u \in Threads : pc[u] = "latch" /\ fr[u] = hash[j] /\ want[u] = j
      BY Zenon, <3>1 DEF Inv, Named
    <3> QED
      BY Zenon, <1>1, <1>2, <3>1, <3>2
  <2> QED
    BY Zenon, <2>1, <2>2
<1>4. ASSUME NEW g \in Frames, g # f
      PROVE  \/ Resident(g)'
             \/ \E u \in Threads : Spares(u, g)' \/ (fr'[u] = g /\ pc'[u] \in {"evicted", "latch"})
  <2>1. Resident(g) => Resident(g)'
    BY <1>1, <1>4, NameAssumption DEF Resident, Inv, Types
  <2>2. \A u \in Threads : Spares(u, g) => Spares(u, g)'
    BY Zenon, <1>4 DEF Spares, OnlyMoves, Touches
  <2>3. \/ Resident(g)
        \/ \E u \in Threads : Spares(u, g) \/ (fr[u] = g /\ pc[u] \in {"evicted", "latch"})
    BY Zenon DEF Inv, Placed
  <2> QED
    BY Zenon, <1>2, <1>4, <2>1, <2>2, <2>3
<1>5. Placed'
  BY Zenon, <1>4 DEF Placed, Settled
<1>6. Dummies'
  BY Zenon, <1>1 DEF Inv, Dummies, Settled
<1> QED
  BY Zenon, <1>3, <1>5, <1>6

(* and so do the contents.                                                 *)
LEMMA TouchData ==
  ASSUME Inv, NEW t \in Procs, NEW f \in Frames, NEW i,
         OnlyMoves(t), Owns(t, f, i), Touches(t, f, i), Settled(f, i)'
  PROVE  FramesFresh' /\ DiskFresh' /\ DirtyPlaced'
<1>1. /\ \A g \in Frames : g # f => id'[g] = id[g] /\ dirty'[g] = dirty[g] /\ fresh'[g] = fresh[g]
      /\ \A j \in Ids : j # i => hash'[j] = hash[j]
      /\ i \in Ids => hash[i] \in {f, NoFrame} /\ hash'[i] \in {f, NoFrame}
      /\ diskFresh' = diskFresh
  BY Zenon DEF Owns, Touches
<1>2. \A g \in Frames : g # f /\ BeingRead(g) => BeingRead(g)'
  BY Zenon DEF BeingRead, OnlyMoves, Touches, Procs
<1>3. FramesFresh'
  <2>. SUFFICES ASSUME NEW g \in Frames, id'[g] \in Pages, hash'[id'[g]] = g, ~BeingRead(g)'
                PROVE  fresh'[g] /\ (dirty'[g] \/ diskFresh'[id'[g]])
    BY Zenon DEF FramesFresh
  <2>1. CASE g = f
    BY Zenon, <2>1 DEF Settled
  <2>2. CASE g # f
    <3>3. id'[g] = id[g] /\ id[g] \in Pages /\ id[g] \in Ids /\ hash'[id[g]] = g
      BY Zenon, <1>1, <2>2 DEF Ids
    <3>4. id[g] # i
      BY Zenon, <1>1, <2>2, <3>3, NameAssumption
    <3>5. hash[id[g]] = g
      BY Zenon, <1>1, <3>3, <3>4
    <3>6. ~BeingRead(g)
      BY Zenon, <1>2, <2>2
    <3>1. id'[g] = id[g] /\ id[g] \in Pages /\ hash[id[g]] = g /\ ~BeingRead(g)
      BY Zenon, <3>3, <3>5, <3>6
    <3>2. fresh[g] /\ (dirty[g] \/ diskFresh[id[g]])
      BY Zenon, <3>1 DEF Inv, FramesFresh
    <3> QED
      BY Zenon, <1>1, <2>2, <3>1, <3>2
  <2> QED
    BY Zenon, <2>1, <2>2
<1>4. DiskFresh'
  <2>. SUFFICES ASSUME NEW q \in Pages, hash'[q] = NoFrame PROVE diskFresh'[q]
    BY Zenon DEF DiskFresh
  <2>1. CASE q = i
    BY Zenon, <2>1 DEF Settled
  <2>2. CASE q # i
    BY Zenon, <1>1, <2>2 DEF Inv, DiskFresh, Ids
  <2> QED
    BY Zenon, <2>1, <2>2
<1>5. DirtyPlaced'
  <2>. SUFFICES ASSUME NEW g \in Frames, dirty'[g] PROVE id'[g] \in Pages /\ hash'[id'[g]] = g
    BY Zenon DEF DirtyPlaced
  <2>1. CASE g = f
    BY Zenon, <2>1 DEF Settled
  <2>2. CASE g # f
    <3>1. id[g] \in Pages /\ hash[id[g]] = g /\ id'[g] = id[g]
      BY Zenon, <1>1, <2>2 DEF Inv, DirtyPlaced
    <3> QED
      BY <1>1, <2>2, <3>1, NameAssumption DEF Ids
  <2> QED
    BY Zenon, <2>1, <2>2
<1> QED
  BY Zenon, <1>3, <1>4, <1>5

(* A thief that knows what it has keeps the invariant.                     *)
LEMMA TouchInv ==
  ASSUME Inv, NEW t \in Procs, NEW f \in Frames, NEW i,
         Follows(t), Owns(t, f, i), Touches(t, f, i), Settled(f, i)', Local(t)'
  PROVE  Inv'
<1>1. OnlyMoves(t)
  BY Zenon DEF Follows
<1>2. \A u \in Procs : u # t => Local(u)'
  BY Zenon, <1>1, TouchOthers
<1>3. ControlOK'
  BY Zenon, <1>2 DEF ControlOK
<1> QED
  BY Zenon, <1>1, <1>3, TouchTable, TouchData, OtherInv


-----------------------------------------------------------------------------
(* t goes to label l with frame f and id i in its hand.                    *)
Goes(t, l, f, i) == pc'[t] = l /\ fr'[t] = f /\ key'[t] = i /\ OnlyMoves(t)
Keeps(t) == t \in Threads => tls'[t] = tls[t] /\ want'[t] = want[t]

(* getStaleAndRemove gives a frame that nobody has pinned, and so one that *)
(* is in the table.                                                        *)
LEMMA UnpinnedResident ==
  ASSUME Inv, NEW f \in Frames, pin[f] = 0
  PROVE  Resident(f) /\ \A t \in Procs : ~Pins(t, f) /\ ~Steals(t, f)
<1>1. \A t \in Procs : ~Pins(t, f)
  BY Zenon, NoneCounted DEF Inv
<1>2. \A t \in Procs : ~Steals(t, f)
  BY Zenon, <1>1 DEF Steals, Pins
<1>3. \A t \in Threads : ~(Spares(t, f) \/ (fr[t] = f /\ pc[t] \in {"evicted", "latch"}))
  BY Zenon, <1>2 DEF Steals, StealPC, Procs
<1> QED
  BY Zenon, <1>1, <1>2, <1>3 DEF Inv, Placed

(* getStaleAndRemove keeps the invariant.                                  *)
LEMMA GetStaleInv ==
  ASSUME Policy = "lru", Inv, NEW t \in Threads, GetStale(t)
  PROVE  Inv'
<1>1. PICK f \in Frames : /\ queue[f] = 1
                          /\ pin' = [pin EXCEPT ![f] = @ + 1]
                          /\ queue' = [queue EXCEPT ![f] = 0]
                          /\ fr' = [fr EXCEPT ![t] = f]
                          /\ key' = [key EXCEPT ![t] = id[f]]
  BY Zenon DEF GetStale
<1>2. /\ pc[t] = "populate" /\ pc' = [pc EXCEPT ![t] = "begin"]
      /\ hash' = hash /\ lock' = lock /\ id' = id /\ writer' = writer /\ readers' = readers
      /\ dirty' = dirty /\ needsFlush' = needsFlush /\ fresh' = fresh /\ diskFresh' = diskFresh
      /\ want' = want /\ tls' = tls /\ sequential' = sequential
  BY Zenon DEF GetStale, Go, tablev, latchv, datav
<1>3. t \in Procs /\ Types
  BY Zenon DEF Procs, Inv
<1>4. pin[f] = 0
  BY Zenon, <1>1 DEF Inv, Listed, ListUnpinned
<1>5. Resident(f) /\ \A u \in Procs : ~Pins(u, f) /\ ~Steals(u, f)
  BY Zenon, <1>4, UnpinnedResident
<1>6. Types'
  BY <1>1, <1>2, <1>3, NameAssumption DEF Types, Labels, StealPC, Procs
<1>7. Goes(t, "begin", f, id[f]) /\ Keeps(t)
  BY Zenon, <1>1, <1>2, <1>3 DEF Types, Goes, Keeps, OnlyMoves
<1>8. Local(t)
  BY Zenon, <1>3 DEF Inv, ControlOK
<1>9. \A g \in Frames : ~Spares(t, g) /\ ~Spares(t, g)'
  BY Zenon, <1>2, <1>8, NameAssumption DEF Local, Spare, Spares
<1>10. PinMoves(t) /\ StealMoves(t)
  BY Zenon, <1>1, <1>2, <1>3, <1>4, <1>5, <1>7, <1>9
     DEF Goes, PinMoves, StealMoves, Pins, Steals, StealPC, HoldPC, Types
<1>11. ReadMoves(t) /\ WriteMoves(t)
  BY Zenon, <1>2, <1>7 DEF Goes, ReadMoves, Reads, ReadPC, WriteMoves, Writes, WritePC
<1>12. Listed'
  <2>1. PolicyRemove(f)
    BY Zenon, <1>1 DEF PolicyRemove
  <2> QED
    BY Zenon, <1>2, <1>3, <2>1, RemoveListed DEF Inv
<1>13. Quiet(t)
  BY Zenon, <1>2 DEF Quiet
<1>14. Local(t)'
  BY Zenon, <1>2, <1>3, <1>5, <1>7, <1>8
     DEF Local, HasFrame, Flushes, Victim, Spare, Wants, Loads, Goes, Keeps,
     Resident, Hidden, StealPC, HoldPC, WritePC, ReadPC, Types
<1> QED
  BY Zenon, <1>3, <1>6, <1>7, <1>10, <1>11, <1>12, <1>13, <1>14, QuietInv DEF Follows, Goes

(* hashtable_remove_begin and the latch: the victim is locked in the table *)
(* and, when it can be, latched.                                           *)
LEMMA RemoveBeginInv ==
  ASSUME Inv, NEW t \in Threads, RemoveBegin(t)
  PROVE  Inv'
<1>. DEFINE i == key[t]
            f == fr[t]
<1>1. /\ pc[t] = "begin" /\ i # NoPage /\ lock[i] = NoFrame /\ Unlatched(f)
      /\ lock' = [lock EXCEPT ![i] = t] /\ writer' = [writer EXCEPT ![f] = t]
      /\ pc' = [pc EXCEPT ![t] = "evict"]
      /\ hash' = hash /\ id' = id /\ pin' = pin /\ queue' = queue /\ readers' = readers
      /\ dirty' = dirty /\ needsFlush' = needsFlush /\ fresh' = fresh /\ diskFresh' = diskFresh
      /\ want' = want /\ key' = key /\ fr' = fr /\ tls' = tls /\ sequential' = sequential
  BY Zenon DEF RemoveBegin, Go, Unlocked, policyv, datav
<1>2. t \in Procs /\ Types /\ Local(t)
  BY Zenon DEF Procs, Inv, ControlOK
<1>3. f \in Frames /\ i \in Ids
  BY Zenon, <1>1, <1>2 DEF Local, HasFrame, StealPC, Types
<1>4. Types'
  BY Zenon, <1>1, <1>2, <1>3, NameAssumption DEF Types, Labels, StealPC, Procs
<1>5. Goes(t, "evict", f, i) /\ Keeps(t)
  BY Zenon, <1>1, <1>2 DEF Types, Goes, Keeps, OnlyMoves
<1>6. PinMoves(t) /\ StealMoves(t)
  BY Zenon, <1>1, <1>5
     DEF Goes, Keeps, OnlyMoves, PinMoves, StealMoves, Pins, Steals, Spares, StealPC, HoldPC
<1>7. ReadMoves(t) /\ WriteMoves(t)
  BY Zenon, <1>1, <1>2, <1>3, <1>5
     DEF Goes, ReadMoves, Reads, ReadPC, WriteMoves, Writes, WritePC, Unlatched, Types
<1>8. Listed'
  BY Zenon, <1>1 DEF Inv, Listed, ListUnpinned, FramesReachable
<1>9. Quiet(t)
  BY Zenon, <1>1, <1>2, <1>3, NameAssumption DEF Quiet, Types
<1>10. Local(t)'
  BY Zenon, <1>1, <1>2, <1>3, <1>5 DEF Local, HasFrame, Flushes, Victim, Spare, Wants, Loads, Goes, Keeps,
     Hidden, StealPC, HoldPC, WritePC, ReadPC, Types
<1> QED
  BY Zenon, <1>2, <1>4, <1>5, <1>6, <1>7, <1>8, <1>9, <1>10, QuietInv DEF Follows, Goes

(* The same when the frame is latched by another.                          *)
LEMMA RemoveBeginBusyInv ==
  ASSUME Inv, NEW t \in Threads, RemoveBeginBusy(t)
  PROVE  Inv'
<1>. DEFINE i == key[t]
            f == fr[t]
<1>1. /\ pc[t] = "begin" /\ i # NoPage /\ lock[i] = NoFrame
      /\ lock' = [lock EXCEPT ![i] = t] /\ pc' = [pc EXCEPT ![t] = "putback"]
      /\ hash' = hash /\ id' = id /\ pin' = pin /\ queue' = queue
      /\ writer' = writer /\ readers' = readers
      /\ dirty' = dirty /\ needsFlush' = needsFlush /\ fresh' = fresh /\ diskFresh' = diskFresh
      /\ want' = want /\ key' = key /\ fr' = fr /\ tls' = tls /\ sequential' = sequential
  BY Zenon DEF RemoveBeginBusy, Go, Unlocked, policyv, latchv, datav
<1>2. t \in Procs /\ Types /\ Local(t)
  BY Zenon DEF Procs, Inv, ControlOK
<1>3. f \in Frames /\ i \in Ids
  BY Zenon, <1>1, <1>2 DEF Local, HasFrame, StealPC, Types
<1>4. Types'
  BY Zenon, <1>1, <1>2, <1>3, NameAssumption DEF Types, Labels, StealPC, Procs
<1>5. Goes(t, "putback", f, i) /\ Keeps(t)
  BY Zenon, <1>1, <1>2 DEF Types, Goes, Keeps, OnlyMoves
<1>6. PinMoves(t) /\ StealMoves(t)
  BY Zenon, <1>1, <1>5
     DEF Goes, Keeps, OnlyMoves, PinMoves, StealMoves, Pins, Steals, Spares, StealPC, HoldPC
<1>7. ReadMoves(t) /\ WriteMoves(t)
  BY Zenon, <1>1, <1>5 DEF Goes, ReadMoves, Reads, ReadPC, WriteMoves, Writes, WritePC
<1>8. Listed'
  BY Zenon, <1>1 DEF Inv, Listed, ListUnpinned, FramesReachable
<1>9. Quiet(t)
  BY Zenon, <1>1, <1>2, <1>3, NameAssumption DEF Quiet, Types
<1>10. Local(t)'
  BY Zenon, <1>1, <1>2, <1>3, <1>5 DEF Local, HasFrame, Flushes, Victim, Spare, Wants, Loads, Goes, Keeps,
     Hidden, StealPC, HoldPC, WritePC, ReadPC, Types
<1> QED
  BY Zenon, <1>2, <1>4, <1>5, <1>6, <1>7, <1>8, <1>9, <1>10, QuietInv DEF Follows, Goes

(* PutBack returns the frame to the policy and unlocks its bucket.         *)
LEMMA PutBackInv ==
  ASSUME Policy = "lru", Inv, NEW t \in Threads, PutBack(t)
  PROVE  Inv'
<1>. DEFINE i == key[t]
            f == fr[t]
<1>1. /\ pc[t] = "putback" /\ pc' = [pc EXCEPT ![t] = "populate"]
      /\ PolicyInsert(f, dirty[f]) /\ lock' = [lock EXCEPT ![i] = NoFrame]
      /\ fr' = [fr EXCEPT ![t] = NoFrame] /\ key' = [key EXCEPT ![t] = NoPage]
      /\ hash' = hash /\ id' = id /\ writer' = writer /\ readers' = readers
      /\ dirty' = dirty /\ needsFlush' = needsFlush /\ fresh' = fresh /\ diskFresh' = diskFresh
      /\ want' = want /\ tls' = tls /\ sequential' = sequential
  BY Zenon DEF PutBack, Go, latchv, datav
<1>2. t \in Procs /\ Types /\ Local(t)
  BY Zenon DEF Procs, Inv, ControlOK
<1>3. f \in Frames /\ i \in Ids /\ lock[i] = t
  BY Zenon, <1>1, <1>2 DEF Local, HasFrame, Victim, StealPC, Types
<1>4. Pins(t, f) /\ pin[f] # 0
  BY Zenon, <1>1, <1>2, <1>3, NoneCounted DEF Inv, Pins, StealPC
<1>5. Types'
  BY <1>1, <1>2, <1>3, <1>4, NameAssumption DEF Types, Labels, StealPC, Procs, PolicyInsert
<1>6. Goes(t, "populate", NoFrame, NoPage) /\ Keeps(t)
  BY Zenon, <1>1, <1>2 DEF Types, Goes, Keeps, OnlyMoves
<1>7. \A g \in Frames : ~Spares(t, g) /\ ~Spares(t, g)'
  BY Zenon, <1>1, <1>2, NameAssumption DEF Local, Spare, Spares, StealPC
<1>8. PinMoves(t) /\ StealMoves(t)
  BY Zenon, <1>1, <1>2, <1>3, <1>4, <1>6, <1>7, NameAssumption
     DEF Goes, PinMoves, StealMoves, Pins, Steals, StealPC, HoldPC, PolicyInsert, Types
<1>9. ReadMoves(t) /\ WriteMoves(t)
  BY Zenon, <1>1, <1>6 DEF Goes, ReadMoves, Reads, ReadPC, WriteMoves, Writes, WritePC
<1>10. Listed'
  <2>1. dirty[fr[t]] \in BOOLEAN /\ dirty' = [dirty EXCEPT ![fr[t]] = dirty[fr[t]]]
    BY Zenon, <1>1, <1>2, <1>3 DEF Types
  <2> QED
    BY Zenon, <1>1, <1>2, <1>3, <1>4, <2>1, InsertListed DEF Inv
<1>11. Quiet(t)
  BY Zenon, <1>1, <1>2, <1>3 DEF Quiet, Types
<1>12. Local(t)'
  BY Zenon, <1>1, <1>2, <1>6 DEF Local, HasFrame, Flushes, Victim, Spare, Wants, Loads, Goes, Keeps,
     StealPC, HoldPC, WritePC, ReadPC
<1> QED
  BY Zenon, <1>2, <1>5, <1>6, <1>8, <1>9, <1>10, <1>11, <1>12, QuietInv DEF Follows, Goes

-----------------------------------------------------------------------------
(* A hit pins a frame that is in the table, and so not t's spare one.      *)
LEMMA PinInv ==
  ASSUME Policy = "lru", Inv, NEW t \in Threads, Pin(t)
  PROVE  Inv'
<1>. DEFINE f == hash[want[t]]
<1>1. /\ pc[t] = "lookup" /\ f # NoFrame /\ pc' = [pc EXCEPT ![t] = "pinned"]
      /\ PolicyRemove(f) /\ fr' = [fr EXCEPT ![t] = f]
      /\ hash' = hash /\ lock' = lock /\ id' = id /\ writer' = writer /\ readers' = readers
      /\ dirty' = dirty /\ needsFlush' = needsFlush /\ fresh' = fresh /\ diskFresh' = diskFresh
      /\ want' = want /\ key' = key /\ tls' = tls /\ sequential' = sequential
  BY Zenon DEF Pin, Go, tablev, latchv, datav
<1>2. t \in Procs /\ Types /\ Local(t)
  BY Zenon DEF Procs, Inv, ControlOK
<1>3. want[t] \in Pages /\ tls[t] # NoFrame /\ f \in Frames /\ tls[t] # f
  BY <1>1, <1>2 DEF Local, Wants, Spare, Hidden, Types, Ids
<1>4. Types'
  BY <1>1, <1>2, <1>3, NameAssumption DEF Types, Labels, HoldPC, Procs, PolicyRemove
<1>5. Goes(t, "pinned", f, key[t]) /\ Keeps(t)
  BY Zenon, <1>1, <1>2 DEF Types, Goes, Keeps, OnlyMoves
<1>6. PinMoves(t) /\ StealMoves(t)
  BY Zenon, <1>1, <1>2, <1>3, <1>5
     DEF Goes, PinMoves, StealMoves, Pins, Steals, Spares, StealPC, HoldPC, PolicyRemove, Types
<1>7. ReadMoves(t) /\ WriteMoves(t)
  BY Zenon, <1>1, <1>5 DEF Goes, ReadMoves, Reads, ReadPC, WriteMoves, Writes, WritePC
<1>8. Listed'
  BY Zenon, <1>1, <1>2, <1>3, RemoveListed DEF Inv
<1>9. Quiet(t)
  BY Zenon, <1>1 DEF Quiet
<1>10. Local(t)'
  BY Zenon, <1>1, <1>2, <1>3, <1>5
     DEF Local, HasFrame, Flushes, Victim, Spare, Wants, Loads, Goes, Keeps,
     Hidden, StealPC, HoldPC, WritePC, ReadPC
<1> QED
  BY Zenon, <1>2, <1>4, <1>5, <1>6, <1>7, <1>8, <1>9, <1>10, QuietInv DEF Follows, Goes

(* A frame that has the page, and is not being evicted, is the one that    *)
(* the table leads to.                                                     *)
LEMMA UnlatchedResident ==
  ASSUME Inv, NEW f \in Frames, writer[f] = NoFrame, id[f] # NoPage
  PROVE  hash[id[f]] = f
<1>1. \A u \in Threads : u \in Procs /\ u # NoFrame /\ Local(u)
  BY Zenon, NameAssumption DEF Inv, ControlOK, Procs
<1>2. \A u \in Threads : ~Spares(u, f)
  BY Zenon, <1>1, NameAssumption DEF Local, Spare, Spares
<1>3. \A u \in Threads : ~(fr[u] = f /\ pc[u] = "evicted")
  BY Zenon, <1>1 DEF Inv, WriterExact, Writes, WritePC
<1>4. \A u \in Threads : ~(fr[u] = f /\ pc[u] = "latch")
  <2>1. \A u \in Threads : pc[u] = "latch" => lock[want[u]] = u /\ id[fr[u]] = NoPage
    BY Zenon, <1>1 DEF Local, Loads
  <2> QED
    BY <1>1, <2>1
<1> QED
  BY Zenon, <1>2, <1>3, <1>4 DEF Inv, Placed, Resident

(* The latch of a pinned frame shows whether it still has the page.        *)
LEMMA ReadLatchInv ==
  ASSUME Inv, NEW t \in Threads, ReadLatch(t)
  PROVE  Inv'
<1>. DEFINE f == fr[t]
            l == IF id[f] = want[t] THEN "holding" ELSE "wrong"
<1>1. /\ pc[t] = "pinned" /\ writer[f] = NoFrame /\ pc' = [pc EXCEPT ![t] = l]
      /\ readers' = [readers EXCEPT ![f] = @ + 1]
      /\ hash' = hash /\ lock' = lock /\ id' = id /\ pin' = pin /\ queue' = queue
      /\ writer' = writer
      /\ dirty' = dirty /\ needsFlush' = needsFlush /\ fresh' = fresh /\ diskFresh' = diskFresh
      /\ want' = want /\ key' = key /\ fr' = fr /\ tls' = tls /\ sequential' = sequential
  BY Zenon DEF ReadLatch, Go, tablev, policyv, datav
<1>2. t \in Procs /\ Types /\ Local(t)
  BY Zenon DEF Procs, Inv, ControlOK
<1>3. f \in Frames /\ l \in {"holding", "wrong"} /\ want[t] \in Pages /\ want[t] # NoPage
  BY Zenon, <1>1, <1>2, NameAssumption DEF Local, HasFrame, Wants, HoldPC, Ids
<1>4. l = "holding" => id[f] = want[t] /\ hash[want[t]] = f
  BY Zenon, <1>1, <1>3, UnlatchedResident
<1>. HIDE DEF l
<1>5. Types'
  BY <1>1, <1>2, <1>3, NameAssumption DEF Types, Labels, HoldPC, Procs
<1>6. Goes(t, l, f, key[t]) /\ Keeps(t)
  BY Zenon, <1>1, <1>2 DEF Types, Goes, Keeps, OnlyMoves
<1>7. PinMoves(t) /\ StealMoves(t)
  BY Zenon, <1>1, <1>3, <1>6
     DEF Goes, Keeps, OnlyMoves, PinMoves, StealMoves, Pins, Steals, Spares, StealPC, HoldPC
<1>8. ReadMoves(t) /\ WriteMoves(t)
  BY Zenon, <1>1, <1>2, <1>3, <1>6 DEF Goes, ReadMoves, Reads, ReadPC, WriteMoves, Writes, WritePC, Types
<1>9. Listed'
  BY Zenon, <1>1 DEF Inv, Listed, ListUnpinned, FramesReachable
<1>10. Quiet(t)
  BY Zenon, <1>1 DEF Quiet
<1>11. Local(t)'
  BY Zenon, <1>1, <1>2, <1>3, <1>4, <1>6
     DEF Local, HasFrame, Flushes, Victim, Spare, Wants, Loads, Goes, Keeps,
     Hidden, StealPC, HoldPC, WritePC, ReadPC
<1> QED
  BY Zenon, <1>2, <1>5, <1>6, <1>7, <1>8, <1>9, <1>10, <1>11, QuietInv DEF Follows, Goes

(* What chGetCachedPage finds under an unlocked bucket has the page.       *)
LEMMA GetCachedPageInv ==
  ASSUME Policy = "lru", Inv, NEW t \in Threads, NEW p \in Pages,
         GetCachedPage(t, p)
  PROVE  Inv'
<1>. DEFINE f == hash[p]
<1>1. /\ pc[t] = "idle" /\ lock[p] = NoFrame /\ f # NoFrame /\ writer[f] = NoFrame
      /\ pc' = [pc EXCEPT ![t] = "holding"] /\ readers' = [readers EXCEPT ![f] = @ + 1]
      /\ PolicyRemove(f) /\ want' = [want EXCEPT ![t] = p] /\ fr' = [fr EXCEPT ![t] = f]
      /\ hash' = hash /\ lock' = lock /\ id' = id /\ writer' = writer
      /\ dirty' = dirty /\ needsFlush' = needsFlush /\ fresh' = fresh /\ diskFresh' = diskFresh
      /\ key' = key /\ tls' = tls /\ sequential' = sequential
  BY Zenon DEF GetCachedPage, Go, Unlocked, tablev, datav
<1>2. t \in Procs /\ Types /\ Local(t)
  BY Zenon DEF Procs, Inv, ControlOK
<1>3. p \in Ids /\ f \in Frames /\ tls[t] # f
  BY Zenon, <1>1, <1>2 DEF Local, Spare, Hidden, Types, Ids
<1>4. id[f] = p
  <2>1. \A u \in Threads : Local(u) /\ u # NoFrame
    BY Zenon, NameAssumption DEF Inv, ControlOK, Procs
  <2>2. \A u \in Threads : ~(pc[u] = "latch" /\ want[u] = p)
    <3>1. \A u \in Threads : pc[u] = "latch" => lock[want[u]] = u
      BY Zenon, <2>1 DEF Local, Loads
    <3> QED
      BY Zenon, <1>1, <2>1, <3>1
  <2> QED
    BY Zenon, <1>1, <1>3, <2>2 DEF Inv, Named
<1>5. Types'
  BY <1>1, <1>2, <1>3, NameAssumption DEF Types, Labels, HoldPC, Procs, PolicyRemove
<1>6. Goes(t, "holding", f, key[t]) /\ want'[t] = p /\ tls'[t] = tls[t]
  BY Zenon, <1>1, <1>2 DEF Types, Goes, OnlyMoves
<1>7. PinMoves(t) /\ StealMoves(t)
  BY Zenon, <1>1, <1>2, <1>3, <1>6
     DEF Goes, PinMoves, StealMoves, Pins, Steals, Spares, StealPC, HoldPC, PolicyRemove, Types
<1>8. ReadMoves(t) /\ WriteMoves(t)
  BY Zenon, <1>1, <1>2, <1>3, <1>6 DEF Goes, ReadMoves, Reads, ReadPC, WriteMoves, Writes, WritePC, Types
<1>9. Listed'
  BY Zenon, <1>1, <1>2, <1>3, RemoveListed DEF Inv
<1>10. Quiet(t)
  BY Zenon, <1>1 DEF Quiet
<1>11. Local(t)'
  BY Zenon, <1>1, <1>2, <1>3, <1>4, <1>6
     DEF Local, HasFrame, Flushes, Victim, Spare, Wants, Loads, Goes,
     Hidden, StealPC, HoldPC, WritePC, ReadPC
<1> QED
  BY Zenon, <1>2, <1>5, <1>6, <1>7, <1>8, <1>9, <1>10, <1>11, QuietInv DEF Follows, Goes

-----------------------------------------------------------------------------
(* A load begins.                                                          *)
LEMMA LoadPageInv ==
  ASSUME Inv, NEW t \in Threads, NEW p \in Pages, LoadPage(t, p)
  PROVE  Inv'
<1>. DEFINE l == IF tls[t] = NoFrame THEN "populate" ELSE "lookup"
<1>1. /\ pc[t] = "idle" /\ pc' = [pc EXCEPT ![t] = l] /\ want' = [want EXCEPT ![t] = p]
      /\ hash' = hash /\ lock' = lock /\ id' = id /\ pin' = pin /\ queue' = queue
      /\ writer' = writer /\ readers' = readers
      /\ dirty' = dirty /\ needsFlush' = needsFlush /\ fresh' = fresh /\ diskFresh' = diskFresh
      /\ key' = key /\ fr' = fr /\ tls' = tls /\ sequential' = sequential
  BY Zenon DEF LoadPage, Go, tablev, policyv, latchv, datav
<1>2. t \in Procs /\ Types /\ Local(t)
  BY Zenon DEF Procs, Inv, ControlOK
<1>3. /\ l \in {"populate", "lookup"}
      /\ l = "populate" => tls[t] = NoFrame
      /\ l = "lookup" => tls[t] # NoFrame
  OBVIOUS
<1>. HIDE DEF l
<1>4. Types'
  BY Zenon, <1>1, <1>2, <1>3, NameAssumption DEF Types, Labels, Procs
<1>5. Goes(t, l, fr[t], key[t]) /\ want'[t] = p /\ tls'[t] = tls[t]
  BY Zenon, <1>1, <1>2 DEF Types, Goes, OnlyMoves
<1>6. PinMoves(t) /\ StealMoves(t)
  BY Zenon, <1>1, <1>3, <1>5 DEF Goes, PinMoves, StealMoves, Pins, Steals, Spares, StealPC, HoldPC
<1>7. ReadMoves(t) /\ WriteMoves(t)
  BY Zenon, <1>1, <1>3, <1>5 DEF Goes, ReadMoves, Reads, ReadPC, WriteMoves, Writes, WritePC
<1>8. Listed'
  BY Zenon, <1>1 DEF Inv, Listed, ListUnpinned, FramesReachable
<1>9. Quiet(t)
  BY Zenon, <1>1 DEF Quiet
<1>10. Local(t)'
  BY Zenon, <1>1, <1>2, <1>3, <1>5 DEF Local, HasFrame, Flushes, Victim, Spare, Wants, Loads, Goes,
     Hidden, StealPC, HoldPC, WritePC, ReadPC
<1> QED
  BY Zenon, <1>2, <1>4, <1>5, <1>6, <1>7, <1>8, <1>9, <1>10, QuietInv DEF Follows, Goes

(* chReleasePage gives up the pin,                                         *)
LEMMA ReleaseInsertInv ==
  ASSUME Policy = "lru", Inv, NEW t \in Threads, ReleaseInsert(t)
  PROVE  Inv'
<1>. DEFINE f == fr[t]
            w == IF pc[t] = "holding" THEN NoPage ELSE want[t]
<1>1. /\ pc[t] \in {"holding", "wrong"} /\ pc' = [pc EXCEPT ![t] = "release"]
      /\ PolicyInsert(f, dirty[f])
      /\ want' = IF pc[t] = "holding" THEN [want EXCEPT ![t] = NoPage] ELSE want
      /\ hash' = hash /\ lock' = lock /\ id' = id /\ writer' = writer /\ readers' = readers
      /\ dirty' = dirty /\ needsFlush' = needsFlush /\ fresh' = fresh /\ diskFresh' = diskFresh
      /\ key' = key /\ fr' = fr /\ tls' = tls /\ sequential' = sequential
  BY Zenon DEF ReleaseInsert, Go, tablev, latchv, datav
<1>2. t \in Procs /\ Types /\ Local(t)
  BY Zenon DEF Procs, Inv, ControlOK
<1>3. f \in Frames /\ f # tls[t]
  BY Zenon, <1>1, <1>2 DEF Local, HasFrame, Loads, HoldPC
<1>4. Pins(t, f) /\ pin[f] # 0
  BY Zenon, <1>1, <1>2, <1>3, NoneCounted DEF Inv, Pins, HoldPC
<1>5. Types'
  BY <1>1, <1>2, <1>3, <1>4, NameAssumption DEF Types, Labels, ReadPC, Procs, PolicyInsert
<1>6. Goes(t, "release", f, key[t]) /\ want'[t] = w /\ tls'[t] = tls[t]
  BY Zenon, <1>1, <1>2 DEF Types, Goes, OnlyMoves
<1>7. PinMoves(t) /\ StealMoves(t)
  BY Zenon, <1>1, <1>2, <1>3, <1>4, <1>6
     DEF Goes, PinMoves, StealMoves, Pins, Steals, Spares, StealPC, HoldPC, PolicyInsert, Types
<1>8. ReadMoves(t) /\ WriteMoves(t)
  BY Zenon, <1>1, <1>6 DEF Goes, ReadMoves, Reads, ReadPC, WriteMoves, Writes, WritePC
<1>9. Listed'
  <2>1. dirty[fr[t]] \in BOOLEAN /\ dirty' = [dirty EXCEPT ![fr[t]] = dirty[fr[t]]]
    BY Zenon, <1>1, <1>2, <1>3 DEF Types
  <2> QED
    BY Zenon, <1>1, <1>2, <1>3, <1>4, <2>1, InsertListed DEF Inv
<1>10. Quiet(t)
  BY Zenon, <1>1 DEF Quiet
<1>11. Local(t)'
  BY Zenon, <1>1, <1>2, <1>3, <1>6 DEF Local, HasFrame, Flushes, Victim, Spare, Wants, Loads, Goes,
     Hidden, StealPC, HoldPC, WritePC, ReadPC
<1> QED
  BY Zenon, <1>2, <1>5, <1>6, <1>7, <1>8, <1>9, <1>10, <1>11, QuietInv DEF Follows, Goes

(* A thread resumes with its lookup, when it has a page to find.           *)
LEMMA ResumeLocal ==
  ASSUME Types, NEW t \in Procs, Local(t), t \in Threads => want'[t] = want[t] /\ tls'[t] = tls[t],
         pc[t] \in {"release", "flush", "flush_wait", "try", "wait", "write"},
         pc'[t] = Resume(t), hash' = hash, id' = id
  PROVE  Local(t)' /\ Resume(t) \in {"lookup", "idle"} /\ (t = Worker => Resume(t) = "idle")
<1>1. /\ Resume(t) \in {"lookup", "idle"} /\ (t = Worker => Resume(t) = "idle")
      /\ t \in Threads /\ Resume(t) = "lookup" => want[t] # NoPage
  BY Zenon DEF Resume
<1>2. t \in Threads /\ Resume(t) = "lookup" => want[t] \in Pages /\ tls[t] # NoFrame
  BY Zenon, <1>1 DEF Types, Local, Wants
<1>. HIDE DEF Resume
<1>3. t \in Threads => Spare(t)'
  BY Zenon, <1>1 DEF Local, Spare, Hidden, StealPC
<1> QED
  BY Zenon, <1>1, <1>2, <1>3 DEF Local, HasFrame, Flushes, Victim, Wants, Loads,
     StealPC, HoldPC, WritePC, ReadPC

(* and then the latch, and may be asked to write the page back.            *)
LEMMA ReleaseUnlockInv ==
  ASSUME Inv, NEW t \in Threads, ReleaseUnlock(t)
  PROVE  Inv'
<1>. DEFINE f == fr[t]
            l == IF needsFlush[f] THEN "flush" ELSE Resume(t)
            k == IF needsFlush[f] THEN id[f] ELSE key[t]
<1>1. /\ pc[t] = "release" /\ readers' = [readers EXCEPT ![f] = @ - 1]
      /\ pc' = [pc EXCEPT ![t] = l]
      /\ key' = IF needsFlush[f] THEN [key EXCEPT ![t] = id[f]] ELSE key
      /\ fr' = [fr EXCEPT ![t] = NoFrame]
      /\ hash' = hash /\ lock' = lock /\ id' = id /\ pin' = pin /\ queue' = queue
      /\ writer' = writer
      /\ dirty' = dirty /\ needsFlush' = needsFlush /\ fresh' = fresh /\ diskFresh' = diskFresh
      /\ want' = want /\ tls' = tls /\ sequential' = sequential
  BY Zenon DEF ReleaseUnlock, Go, tablev, policyv, datav
<1>2. t \in Procs /\ t # Worker /\ Types /\ Local(t)
  BY Zenon, NameAssumption DEF Procs, Inv, ControlOK
<1>3. f \in Frames /\ l \in {"flush", "lookup", "idle"} /\ k \in Ids \cup {NoPage}
  BY Zenon, <1>1, <1>2 DEF Local, HasFrame, ReadPC, Types, Resume
<1>4. Reads(t, f) /\ readers[f] # 0
  BY Zenon, <1>1, <1>2, <1>3, NoneCounted DEF Inv, Reads, ReadPC
<1>5. pc'[t] = l /\ fr'[t] = NoFrame /\ key'[t] = k
  BY Zenon, <1>1, <1>2 DEF Types
<1>6. Local(t)'
  <2>1. CASE l = Resume(t)
    BY Zenon, <1>1, <1>2, <1>5, <2>1, ResumeLocal
  <2>2. CASE l = "flush"
    BY Zenon, <1>1, <1>2, <1>5, <2>2
       DEF Local, HasFrame, Flushes, Victim, Spare, Hidden, Wants, Loads,
       StealPC, HoldPC, WritePC, ReadPC
  <2> QED
    BY Zenon, <2>1, <2>2
<1>. HIDE DEF l, k
<1>7. Types'
  <2>1. key' \in [Procs -> Ids \cup {NoPage}]
    BY Zenon, <1>1, <1>2, <1>3 DEF Types
  <2>2. readers' \in [Frames -> Nat]
    <3>1. readers' = [readers EXCEPT ![f] = @ - 1] /\ readers \in [Frames -> Nat]
      BY Zenon, <1>1, <1>2 DEF Types
    <3>2. readers[f] \in Nat /\ readers[f] - 1 \in Nat
      BY <1>3, <1>4, <3>1
    <3> QED
      BY ONLY <1>3, <3>1, <3>2
  <2>3. pc' \in [Procs -> Labels] /\ pc'[Worker] \in FlushPC /\ fr' \in [Procs -> Frames \cup {NoFrame}]
    BY Zenon, <1>1, <1>2, <1>3 DEF Types, Labels, FlushPC, Procs
  <2> QED
    BY Zenon, <1>1, <1>2, <2>1, <2>2, <2>3 DEF Types
<1>8. OnlyMoves(t)
  BY Zenon, <1>1, <1>2 DEF Types, OnlyMoves
<1>9. PinMoves(t) /\ StealMoves(t)
  BY Zenon, <1>1, <1>3, <1>5 DEF PinMoves, StealMoves, Pins, Steals, Spares, StealPC, HoldPC
<1>10. ReadMoves(t) /\ WriteMoves(t)
  BY Zenon, <1>1, <1>2, <1>3, <1>4, <1>5, NameAssumption
     DEF ReadMoves, Reads, ReadPC, WriteMoves, Writes, WritePC, Types
<1>11. Listed'
  BY Zenon, <1>1 DEF Inv, Listed, ListUnpinned, FramesReachable
<1>12. Quiet(t)
  BY Zenon, <1>1 DEF Quiet
<1> QED
  BY Zenon, <1>2, <1>6, <1>7, <1>8, <1>9, <1>10, <1>11, <1>12, QuietInv DEF Follows
=============================================================================
