---------------------------- MODULE RangeTracker ----------------------------
(* io/rangeTracker.c: which byte ranges of a file are pinned, kept as an      *)
(* ordered map from the positions where the number of pins changes to that    *)
(* change, and the quantized ranges that an addition or a removal newly pins  *)
(* or unpins. The non-blocking I/O layer decides with it which pages a handle *)
(* must keep. The map is the red/black tree of module RedBlack.               *)
EXTENDS Integers, FiniteSets, Sequences

CONSTANTS None,
          Quant,   \* the quantization: the size of a page
          MaxPos,  \* ranges lie in 0 .. MaxPos
          MaxHeld  \* at most this many ranges are pinned at once

VARIABLES obj,     \* the tracker, and a count of the ranges its callers hold
          call, ans

vars == <<obj, call, ans>>

Ranges == {r \in [start : 0 .. MaxPos, stop : 0 .. MaxPos] : r.start < r.stop}
Empty == {} \* the map without a transition

RoundDown(x) == (x \div Quant) * Quant
(* Faulty variant: an aligned position is rounded to the next page.           *)
RoundUpPast(x) == (x \div Quant + 1) * Quant

RoundUp(x) == ((x - 1) \div Quant + 1) * Quant

(* A tracker is a set of transitions, ordered by position.                    *)
First(t) == CHOOSE x \in t : \A y \in t : x.pos <= y.pos
Final(t) == CHOOSE x \in t : \A y \in t : x.pos >= y.pos
Above(t, p) == {x \in t : x.pos > p}
After(x) == x.pins + x.delta
Put(t, p, delta, pins) == {x \in t : x.pos # p} \cup
  (IF delta = 0 THEN {} ELSE {[pos |-> p, delta |-> delta, pins |-> pins]})

(* Faulty variant: the transitions inside the range keep their pins.          *)
DeltaEnds(t, r, d) ==
  LET before == {x \in t : x.pos <= r.start}
      prev   == Final(before)
      here   == before # {} /\ prev.pos = r.start
      pins   == IF before = {} THEN 0 ELSE IF here THEN prev.pins ELSE After(prev)
      t1 == Put(t, r.start, IF here THEN prev.delta + d ELSE d, pins)
      upto == {x \in t1 : x.pos < r.stop}
      end == {x \in t : x.pos = r.stop}
  IN IF end = {} THEN Put(t1, r.stop, -d, IF upto = {} THEN 0 ELSE After(Final(upto)))
     ELSE Put(t1, r.stop, First(end).delta - d, First(end).pins + d)

(* rangeTrackerDelta(): d more pins on [start, stop). A transition appears,   *)
(* changes or disappears at either end, and those between shift by d.         *)
Delta(t, r, d) ==
  LET before == {x \in t : x.pos <= r.start}
      prev   == Final(before)
      here   == before # {} /\ prev.pos = r.start
      pins   == IF before = {} THEN 0 ELSE IF here THEN prev.pins ELSE After(prev)
      delta  == IF here THEN prev.delta + d ELSE d
      inner  == {[x EXCEPT !.pins = @ + d] :
                   x \in {y \in t : r.start < y.pos /\ y.pos < r.stop}}
      t1 == Put({x \in t : x.pos <= r.start \/ x.pos >= r.stop} \cup inner,
                r.start, delta, pins)
      curpin == IF inner = {} THEN pins + delta ELSE After(Final(inner))
      end == {x \in t : x.pos = r.stop}
  IN IF end = {} THEN Put(t1, r.stop, -d, curpin)
     ELSE Put(t1, r.stop, First(end).delta - d, First(end).pins + d)

(* rangeTrackerToArray(): the ranges that end where the pins drop to zero.    *)
RECURSIVE ToArray(_)
ToArray(t) ==
  IF t = Empty THEN <<>>
  ELSE LET start == First(t).pos
           stop  == First({x \in Above(t, start) : After(x) = 0}).pos
       IN <<[start |-> start, stop |-> stop]>> \o ToArray(Above(t, stop))

(* The loop of pinnedRanges() from the transition after pos: s holds whether  *)
(* a range is open, whether one was met, the current range and the output.    *)
RECURSIVE Scan(_, _, _, _, _)
Scan(t, pos, ex, s, d) ==
  LET later == Above(t, pos)
      x     == First(later)
      open  == [s EXCEPT !.in = TRUE, !.have = TRUE, !.cur.start = RoundDown(x.pos)]
      first == IF x.pins = 0 THEN open
               ELSE [s EXCEPT !.have = TRUE, !.in = After(x) # 0,
                              !.cur = [start |-> ex.start, stop |-> RoundUp(x.pos)]]
      s1 == CASE s.in /\ After(x) = 0 ->
                    [s EXCEPT !.in = FALSE, !.cur.stop = RoundUp(x.pos)]
              [] s.in -> s
              [] ~s.in /\ ~s.have -> first
              [] s.cur.stop >= RoundDown(x.pos) -> [s EXCEPT !.in = TRUE]
              [] OTHER -> [open EXCEPT !.out = Delta(@, s.cur, d)]
  IN CASE later = {} -> s
       [] x.pos >= ex.stop /\ s.in -> [s EXCEPT !.in = FALSE, !.cur.stop = ex.stop]
       [] x.pos >= ex.stop /\ ~s.have /\ x.pins # 0 ->
            [s EXCEPT !.have = TRUE, !.cur = ex]
       [] x.pos >= ex.stop -> s
       [] OTHER -> Scan(t, x.pos, ex, s1, d)

(* pinnedRanges(): add d pins to out for each quantized range of t that the   *)
(* quantized request meets.                                                   *)
PinnedRanges(t, r, out, d) ==
  LET ex == [start |-> RoundDown(r.start), stop |-> RoundUp(r.stop)]
      s  == Scan(t, ex.start, ex,
                 [in |-> FALSE, have |-> FALSE, out |-> out, cur |-> ex], d)
  IN IF s.have THEN Delta(s.out, s.cur, d) ELSE s.out

RECURSIVE DeltaAll(_, _, _)
DeltaAll(t, rs, d) == IF rs = <<>> THEN t
                      ELSE DeltaAll(Delta(t, Head(rs), d), Tail(rs), d)

Init == /\ obj = [t |-> Empty, held |-> [r \in Ranges |-> 0], leaked |-> FALSE]
        /\ call = <<"create", None>>
        /\ ans = <<>>

Total == LET held == {r \in Ranges : obj.held[r] > 0} IN
         Cardinality({<<r, i>> \in held \X (1 .. MaxHeld) : i <= obj.held[r]})

(* rangeTrackerAdd(): what is pinned after, less what was pinned before. Both *)
(* scratch trackers are emptied and freed; a range left in one is a leak.     *)
Add(r) ==
  LET old    == PinnedRanges(obj.t, r, Empty, 1)
      t      == Delta(obj.t, r, 1)
      new    == DeltaAll(PinnedRanges(t, r, Empty, 1), ToArray(old), -1)
      result == ToArray(new)
  IN /\ Total < MaxHeld
     /\ call' = <<"add", r>>
     /\ ans' = result
     /\ obj' = [t |-> t, held |-> [obj.held EXCEPT ![r] = @ + 1],
                leaked |-> \/ DeltaAll(old, ToArray(old), -1) # Empty
                           \/ DeltaAll(new, result, -1) # Empty]

(* rangeTrackerRemove(): one scratch tracker, pinned before minus after.      *)
Remove(r) ==
  LET old    == PinnedRanges(obj.t, r, Empty, 1)
      t      == Delta(obj.t, r, -1)
      gone   == PinnedRanges(t, r, old, -1)
      result == ToArray(gone)
  IN /\ obj.held[r] > 0
     /\ call' = <<"remove", r>>
     /\ ans' = result
     /\ obj' = [t |-> t, held |-> [obj.held EXCEPT ![r] = @ - 1],
                leaked |-> DeltaAll(gone, result, -1) # Empty]

Next == \E r \in Ranges : Add(r) \/ Remove(r)

(* How many of the ranges held cover the byte at p, and whether a page does.  *)
Cover(p) == LET over == {r \in Ranges : r.start <= p /\ p < r.stop} IN
            Cardinality({<<r, i>> \in over \X (1 .. MaxHeld) : i <= obj.held[r]})
PinnedPages == {RoundDown(p) : p \in {q \in 0 .. MaxPos : Cover(q) > 0}}
Covered(rs) == {RoundDown(p) : p \in {q \in 0 .. MaxPos + Quant :
                   \E i \in DOMAIN rs : rs[i].start <= q /\ q < rs[i].stop}}

(* There is a transition exactly where the number of pins changes, and it     *)
(* holds the number below it and the change; no scratch tracker leaked.       *)
(* These are the assertions of rangeTrackerDelta(), for every position.       *)
TrackerExact ==
  /\ \A p \in 0 .. MaxPos :
       LET below == IF p = 0 THEN 0 ELSE Cover(p - 1) IN
       {x \in obj.t : x.pos = p} =
         IF below = Cover(p) THEN {}
         ELSE {[pos |-> p, delta |-> Cover(p) - below, pins |-> below]}
  /\ ~obj.leaked

(* An addition answers exactly the pages it newly pins, a removal exactly the *)
(* pages it frees: a caller that loads and drops pages by these answers holds *)
(* the pages under the pinned ranges and no others.                           *)
AnswersExact ==
  /\ call'[1] = "add" => Covered(ans') = PinnedPages' \ PinnedPages
  /\ call'[1] = "remove" => Covered(ans') = PinnedPages \ PinnedPages'
=============================================================================
