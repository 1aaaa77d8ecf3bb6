------------------------------ MODULE RedBlack ------------------------------
(* The red/black tree of util/redblack.c at the level of its nodes and        *)
(* pointers. The LRU lists, the allocation policy, the range tracker and the  *)
(* non-blocking I/O layer keep their ordered sets in it. Node 0 is RBNULL,    *)
(* the one sentinel every empty child points to: a black node whose up        *)
(* pointer a deletion overwrites and rebalancing then follows.                *)
EXTENDS Integers, FiniteSets, Sequences

CONSTANTS Keys, Values, None,
          MaxNodes \* nodes malloc() can hand out; one per key is enough

VARIABLES obj, call, ans

vars == <<obj, call, ans>>

RBNULL == 0
Nodes == 1 .. MaxNodes
Free == [left |-> RBNULL, right |-> RBNULL, up |-> RBNULL, colour |-> "black",
         key |-> None, val |-> None]

(* rbinit(): a tree is its root and the nodes, Free where none is allocated.  *)
RbInit == [root |-> RBNULL, n |-> [x \in 0 .. MaxNodes |-> Free]]

Opp(side) == IF side = "left" THEN "right" ELSE "left"
Colour(t, x, c) == [t EXCEPT !.n[x].colour = c]
Up(t, x) == t.n[x].up

(* p's child x becomes y; the root when x had no parent.                      *)
Replace(t, p, x, y) ==
  IF p = RBNULL THEN [t EXCEPT !.root = y]
  ELSE [t EXCEPT !.n[p][IF t.n[p].left = x THEN "left" ELSE "right"] = y]

(* rb_left_rotate() for l = "left", rb_right_rotate() for l = "right".        *)
Rotate(t, x, l) ==
  LET r  == Opp(l)
      y  == t.n[x][r]
      b  == t.n[y][l]
      t1 == [t EXCEPT !.n[x][r] = b, !.n[y].up = Up(t, x)]
      t2 == IF b # RBNULL THEN [t1 EXCEPT !.n[b].up = x] ELSE t1
      t3 == Replace(t2, Up(t, x), x, y)
  IN [t3 EXCEPT !.n[y][l] = x, !.n[x].up = y]

(* The walk down of rb_traverse(): the last node met and whether it is k's.   *)
RECURSIVE Walk(_, _, _, _)
Walk(t, k, x, y) ==
  IF x = RBNULL THEN [x |-> x, y |-> y, found |-> FALSE]
  ELSE IF k = t.n[x].key THEN [x |-> x, y |-> x, found |-> TRUE]
  ELSE Walk(t, k, t.n[x][IF k < t.n[x].key THEN "left" ELSE "right"], x)

(* The loop of rb_traverse() that repairs two reds in a row from x upward.    *)
RECURSIVE InsertFix(_, _)
InsertFix(t, x) ==
  LET p == Up(t, x)
      g == Up(t, p)
      l == IF p = t.n[g].left THEN "left" ELSE "right"
      u == t.n[g][Opp(l)]
  IN IF x = t.root \/ t.n[p].colour # "red" THEN Colour(t, t.root, "black")
     ELSE IF t.n[u].colour = "red"
     THEN InsertFix([t EXCEPT !.n[p].colour = "black", !.n[u].colour = "black",
                              !.n[g].colour = "red"], g)
     ELSE LET inner == x = t.n[p][Opp(l)]
              x1 == IF inner THEN p ELSE x
              t1 == IF inner THEN Rotate(t, x1, l) ELSE t
              p1 == Up(t1, x1)
              g1 == Up(t1, p1)
              t2 == [t1 EXCEPT !.n[p1].colour = "black", !.n[g1].colour = "red"]
          IN InsertFix(Rotate(t2, g1, Opp(l)), x1)

(* rb_traverse() when the key is not found: a red leaf below y, and the fix.  *)
AddNode(t, z, k, v, y) ==
  LET t1 == [t EXCEPT !.n[z] = [Free EXCEPT !.up = y, !.colour = "red",
                                            !.key = k, !.val = v]]
      t2 == IF y = RBNULL THEN [t1 EXCEPT !.root = z]
            ELSE [t1 EXCEPT !.n[y][IF k < t.n[y].key THEN "left" ELSE "right"] = z]
  IN InsertFix(t2, z)

RECURSIVE Far(_, _, _)
Far(t, x, l) == IF t.n[x][l] = RBNULL THEN x ELSE Far(t, t.n[x][l], l)

RECURSIVE Climb(_, _, _, _)
Climb(t, x, y, r) == IF y # RBNULL /\ x = t.n[y][r] THEN Climb(t, y, Up(t, y), r)
                     ELSE y

(* rb_successor() for r = "right", rb_predecessor() for r = "left".           *)
Beside(t, x, r) == IF t.n[x][r] # RBNULL THEN Far(t, t.n[x][r], Opp(r))
                   ELSE Climb(t, x, Up(t, x), r)

(* rb_delete_fix(): x carries one black too few; move it up or rotate it away.*)
RECURSIVE DeleteFix(_, _)
DeleteFix(t, x) ==
  LET p  == Up(t, x)
      l  == IF x = t.n[p].left THEN "left" ELSE "right"
      r  == Opp(l)
      w0 == t.n[p][r]
      t1 == IF t.n[w0].colour = "red"
            THEN Rotate([t EXCEPT !.n[w0].colour = "black", !.n[p].colour = "red"],
                        p, l)
            ELSE t
      w1 == t1.n[Up(t1, x)][r]
      near == t1.n[w1][l]
      far  == t1.n[w1][r]
      t2 == IF t1.n[far].colour = "black"
            THEN Rotate([t1 EXCEPT !.n[near].colour = "black", !.n[w1].colour = "red"],
                        w1, r)
            ELSE t1
      q  == Up(t2, x)
      w2 == t2.n[q][r]
      t3 == [t2 EXCEPT !.n[w2].colour = t2.n[q].colour, !.n[q].colour = "black",
                       !.n[t2.n[w2][r]].colour = "black"]
      t4 == Rotate(t3, q, l)
  IN IF x = t.root \/ t.n[x].colour # "black" THEN Colour(t, x, "black")
     ELSE IF t1.n[near].colour = "black" /\ t1.n[far].colour = "black"
     THEN DeleteFix(Colour(t1, w1, "red"), Up(t1, x))
     ELSE DeleteFix(t4, t4.root)


(* rb_delete(): z itself leaves, or its successor y does and gives z its key. *)
(* The sentinel's up pointer is set too when y has no child.                  *)
DeleteNode(t, z) ==
  LET y  == IF t.n[z].left = RBNULL \/ t.n[z].right = RBNULL THEN z
            ELSE Beside(t, z, "right")
      x  == IF t.n[y].left # RBNULL THEN t.n[y].left ELSE t.n[y].right
      t1 == Replace([t EXCEPT !.n[x].up = Up(t, y)], Up(t, y), y, x)
      t2 == IF y = z THEN t1
            ELSE [t1 EXCEPT !.n[z].key = t.n[y].key, !.n[z].val = t.n[y].val]
      t3 == IF t.n[y].colour = "black" THEN DeleteFix(t2, x) ELSE t2
  IN [t3 EXCEPT !.n[y] = Free]

(* rb_lookup(): the node for each mode.                                       *)
LookupNode(t, mode, k) ==
  LET w == Walk(t, k, t.root, RBNULL)
      right == w.y # RBNULL /\ ~w.found /\ k > t.n[w.y].key
      left  == w.y # RBNULL /\ ~w.found /\ k < t.n[w.y].key
  IN CASE mode = "first" -> IF t.root = RBNULL THEN RBNULL ELSE Far(t, t.root, "left")
       [] mode = "last"  -> IF t.root = RBNULL THEN RBNULL ELSE Far(t, t.root, "right")
       [] w.found /\ mode \in {"equal", "gteq", "lteq"} -> w.x
       [] ~w.found /\ mode \in {"equal", "next", "prev"} -> RBNULL
       [] ~w.found /\ mode \in {"gteq", "great"} ->
            IF right THEN Beside(t, w.y, "right") ELSE w.y
       [] ~w.found /\ mode \in {"lteq", "less"} ->
            IF left THEN Beside(t, w.y, "left") ELSE w.y
       [] mode \in {"next", "great"} -> Beside(t, w.x, "right")
       [] mode \in {"prev", "less"} -> Beside(t, w.x, "left")

Init == obj = RbInit /\ call = <<"create", None>> /\ ans = None

(* rbsearch(): find the entry or insert it; answer the entry in the tree.     *)
RbSearch(k, v) ==
  LET w == Walk(obj, k, obj.root, RBNULL)
      z == CHOOSE x \in Nodes : obj.n[x].key = None
  IN /\ call' = <<"add", k>>
     /\ ans' = IF w.found THEN obj.n[w.x].val ELSE v
     /\ obj' = IF w.found THEN obj ELSE AddNode(obj, z, k, v, w.y)

RbFind(k) == LET w == Walk(obj, k, obj.root, RBNULL) IN
             /\ call' = <<"lookup", k>>
             /\ ans' = obj.n[w.x].val
             /\ UNCHANGED obj

RbDelete(k) == LET w == Walk(obj, k, obj.root, RBNULL) IN
               /\ call' = <<"remove", k>>
               /\ ans' = obj.n[w.x].val
               /\ obj' = IF w.found THEN DeleteNode(obj, w.x) ELSE obj

Modes == {"equal", "gteq", "lteq", "great", "less", "next", "prev", "first",
          "last"}

RbLookup(mode, k) == /\ call' = <<mode, k>>
                     /\ ans' = obj.n[LookupNode(obj, mode, k)].key
                     /\ UNCHANGED obj

(* rb_openlist() and rb_readlist(): the entries from the leftmost on.         *)
RECURSIVE ReadFrom(_, _)
ReadFrom(t, x) == IF x = RBNULL THEN <<>>
                  ELSE <<t.n[x].key>> \o ReadFrom(t, Beside(t, x, "right"))
ReadList(t) == IF t.root = RBNULL THEN <<>> ELSE ReadFrom(t, Far(t, t.root, "left"))

RbWalk == LET list == ReadList(obj) IN
          /\ call' = <<"walk", None>>
          /\ ans' = <<Len(list), {list[i] : i \in DOMAIN list}>>
          /\ UNCHANGED obj

(* rbdestroy() with rb_free(): every node below the root, children first.     *)
RECURSIVE Below(_, _)
Below(t, x) == IF x = RBNULL THEN {}
               ELSE {x} \cup Below(t, t.n[x].left) \cup Below(t, t.n[x].right)

RbDestroy == /\ call' = <<"destroy", None>>
             /\ ans' = None
             /\ obj' = [root |-> RBNULL, n |-> [x \in 0 .. MaxNodes |->
                           IF x \in Below(obj, obj.root) THEN Free ELSE obj.n[x]]]

Next == \/ \E k \in Keys, v \in Values : RbSearch(k, v)
        \/ \E k \in Keys : RbFind(k) \/ RbDelete(k)
        \/ \E k \in Keys, mode \in Modes : RbLookup(mode, k)
        \/ RbWalk
        \/ RbDestroy

(* The map the tree stands for: the entries of the nodes in use.              *)
Contents == [k \in Keys |->
  LET at == {x \in Nodes : obj.n[x].key = k} IN
  IF at = {} THEN None ELSE obj.n[CHOOSE x \in at : TRUE].val]

RECURSIVE BlackHeight(_, _)
BlackHeight(t, x) ==
  IF x = RBNULL THEN 1
  ELSE LET h == BlackHeight(t, t.n[x].left)
           d == IF t.n[x].colour = "black" THEN 1 ELSE 0
       IN IF h = BlackHeight(t, t.n[x].right) /\ h >= 0 THEN h + d ELSE -1

(* The tree without the addresses malloc() happened to give its nodes.        *)
RECURSIVE Shape(_, _)
Shape(t, x) == IF x = RBNULL THEN <<>>
               ELSE <<t.n[x].key, t.n[x].val, t.n[x].colour,
                      Shape(t, t.n[x].left), Shape(t, t.n[x].right)>>

(* The four properties redblack.c lists in its header comment, and the links: *)
(* the sentinel stays black and childless, a red node has black children,     *)
(* every path holds as many black nodes, up is the inverse of the children,   *)
(* and reading the tree from the left gives every key once, in order.         *)
TreeSound ==
  LET t == obj
      list == ReadList(t)
      used == {x \in Nodes : t.n[x].key # None}
  IN /\ t.n[RBNULL] = [Free EXCEPT !.up = t.n[RBNULL].up]
     /\ t.root # RBNULL => t.n[t.root].colour = "black" /\ Up(t, t.root) = RBNULL
     /\ \A x \in used, side \in {"left", "right"} :
          LET c == t.n[x][side] IN
          /\ c # RBNULL => Up(t, c) = x
          /\ t.n[x].colour = "red" => t.n[c].colour = "black"
     /\ BlackHeight(t, t.root) > 0
     /\ {list[i] : i \in DOMAIN list} = {t.n[x].key : x \in used}
     /\ \A i, j \in DOMAIN list : i < j => list[i] < list[j]
=============================================================================
