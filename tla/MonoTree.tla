------------------------------ MODULE MonoTree ------------------------------
(* libdfa/monotree.c: state machines in an array sorted by id, with binary    *)
(* search, freed machines left in place until the array is compacted. Ids are *)
(* either handed out in order by allocMachine() or chosen by the caller of    *)
(* insertMachine().                                                           *)
EXTENDS Integers, FiniteSets

CONSTANTS Keys,     \* the machine ids, 1 .. n
          Size,     \* size
          Chosen,   \* the caller chooses the ids
          None

VARIABLES obj, call, ans

vars == <<obj, call, ans>>

ULONG_MAX == 1000
Blank == [id |-> ULONG_MAX, live |-> FALSE]

Init == /\ obj = [buf |-> [i \in 0 .. Size - 1 |-> Blank], low |-> 0, high |-> 0, next |-> 1]
        /\ call = <<"create", None>>
        /\ ans = None

Answer(op, k, a) == call' = <<op, k>> /\ ans' = a

(* round_size_up(), and getMachineID(), which may be asked past the end.      *)
RoundSizeUp == CHOOSE p \in {2 ^ i : i \in 0 .. Size} : p >= Size /\ (p = 1 \/ p \div 2 < Size)
MachineID(o, i) == IF i >= Size THEN ULONG_MAX ELSE o.buf[i].id

(* getMachineIndex(): the index, or where the id would be inserted.           *)
RECURSIVE Search(_, _, _, _)
Search(o, id, start, stop) ==
  LET mid == (start + stop) \div 2 IN
  IF stop - start <= 1 THEN <<start, stop>>
  ELSE IF MachineID(o, mid) = id THEN <<mid, stop>>
  ELSE IF MachineID(o, mid) < id THEN Search(o, id, mid, stop)
  ELSE Search(o, id, start, mid)
Found(i) == [found |-> TRUE, at |-> i]
Missing(i) == [found |-> FALSE, at |-> i]
MachineIndex(o, id) ==
  LET s == Search(o, id, 0, RoundSizeUp)  start == s[1]  stop == s[2] IN
  IF MachineID(o, start) = id THEN Found(start)
  ELSE IF MachineID(o, stop) = id THEN Found(stop)
  ELSE IF id < MachineID(o, start) THEN Missing(start)
  ELSE IF id < MachineID(o, stop) THEN Missing(stop)
  ELSE Missing(stop + 1)

(* compactBuffer(): the live machines from low on move together.              *)
Compact(o) ==
  LET live == {i \in o.low .. o.high - 1 : o.buf[i].live}
      n == o.low + Cardinality(live)
      nth(j) == CHOOSE i \in live : Cardinality({x \in live : x < i}) = j
  IN IF o.high = o.low THEN o
     ELSE [o EXCEPT !.low = n, !.high = n,
                    !.buf = [i \in DOMAIN o.buf |->
                       IF i < o.low \/ i >= o.high THEN o.buf[i]
                       ELSE IF i < n THEN o.buf[nth(i - o.low)] ELSE Blank]]
Room(o) == IF o.high >= Size THEN Compact(o) ELSE o

(* A full array: the answer is a null pointer, and nothing else changes.      *)
Full(o) == obj' = o /\ UNCHANGED <<call, ans>>

AllocMachine ==
  LET o == Room(obj) IN
  /\ ~Chosen /\ obj.next \in Keys
  /\ IF o.high >= Size THEN Full(o)
     ELSE /\ obj' = [o EXCEPT !.buf[o.high] = [id |-> o.next, live |-> TRUE],
                              !.high = @ + 1, !.next = @ + 1]
          /\ Answer("add", o.next, 1)

InsertMachine(k) ==
  LET o == Room(obj)  x == MachineIndex(o, k)  new == [id |-> k, live |-> TRUE] IN
  /\ Chosen
  /\ IF o.high >= Size THEN Full(o)
     ELSE IF ~x.found
     THEN /\ obj' = [o EXCEPT !.high = @ + 1,
                       !.buf = [i \in DOMAIN o.buf |->
                          IF i = x.at THEN new
                          ELSE IF i > x.at /\ i <= o.high THEN o.buf[i - 1] ELSE o.buf[i]]]
          /\ Answer("add", k, 1)
     ELSE /\ obj' = [o EXCEPT !.buf[x.at] = new] \* a live one is left as it is
          /\ Answer("add", k, 1)

(* Faulty variant: the machine at the end keeps its id when it is freed.      *)
FreedKept(o, i) ==
  [o EXCEPT !.low = IF i < @ THEN i ELSE @,
            !.high = IF i + 1 = @ THEN @ - 1 ELSE @,
            !.buf[i].live = FALSE]

Freed(o, i) ==
  [o EXCEPT !.low = IF i < @ THEN i ELSE @,
            !.high = IF i + 1 = @ THEN @ - 1 ELSE @,
            !.buf[i] = [id |-> IF i + 1 = o.high THEN ULONG_MAX ELSE @.id, live |-> FALSE]]

(* getMachine().                                                              *)
Stored(o, k) == LET x == MachineIndex(o, k) IN
                IF x.found /\ o.buf[x.at].live THEN 1 ELSE None

(* freeMachine(), which callers apply to machines that exist.                 *)
FreeMachine(k) == /\ Stored(obj, k) # None
                  /\ obj' = Freed(obj, MachineIndex(obj, k).at)
                  /\ Answer("remove", k, 1)
GetMachine(k) == UNCHANGED obj /\ Answer("lookup", k, Stored(obj, k))

(* enumerateMachines(): compact, and count up to the high water mark.         *)
EnumerateMachines ==
  LET o == Compact(obj) IN
  /\ obj' = o
  /\ Answer("walk", None, <<o.high, {o.buf[i].id : i \in 0 .. o.high - 1}>>)

Next == \/ AllocMachine
        \/ EnumerateMachines
        \/ \E k \in Keys : InsertMachine(k) \/ FreeMachine(k) \/ GetMachine(k)

Contents == [k \in Keys |-> Stored(obj, k)]

(* The array is sorted, blank above the high water mark, and holds no freed   *)
(* machine below the low water mark, which compaction skips.                  *)
ArraySorted ==
  /\ \A i \in 0 .. Size - 1 : i >= obj.high <=> obj.buf[i].id = ULONG_MAX
  /\ \A i, j \in 0 .. obj.high - 1 : i < j => obj.buf[i].id < obj.buf[j].id
  /\ \A i \in 0 .. obj.low - 1 : obj.buf[i].live
=============================================================================
