----------------------------- MODULE Dictionary -----------------------------
(* What a search structure of stasis promises its callers: a partial map from *)
(* keys to values, and an answer to every call that is the map's answer. The  *)
(* hash tables, the trees and the record lists are shown to implement it.     *)
(* Transactional tables also promise that an abort puts the map back to what  *)
(* it was when the transaction began.                                         *)
EXTENDS Integers, FiniteSets

CONSTANTS Keys,   \* the keys, integers: the trees compare them
          Values, \* what is stored under a key
          None    \* "not found", and the answer when there is none

VARIABLES dict,   \* the map; None where there is no entry
          saved,  \* the map as it was when the running transaction began
          call,   \* the last call: operation and key
          ans     \* and what it answered

vars == <<dict, saved, call, ans>>

Empty == [k \in Keys |-> None]
Present == {k \in Keys : dict[k] # None}

Least(S) == IF S = {} THEN None ELSE CHOOSE x \in S : \A y \in S : x <= y
Greatest(S) == IF S = {} THEN None ELSE CHOOSE x \in S : \A y \in S : x >= y

(* The key that each mode of an ordered lookup stands for.                    *)
Sought(mode, k) ==
  CASE mode = "equal" -> Least(Present \cap {k})
    [] mode = "gteq"  -> Least({x \in Present : x >= k})
    [] mode = "lteq"  -> Greatest({x \in Present : x <= k})
    [] mode = "great" -> Least({x \in Present : x > k})
    [] mode = "less"  -> Greatest({x \in Present : x < k})
    [] mode = "next"  -> IF k \in Present THEN Least({x \in Present : x > k})
                                          ELSE None
    [] mode = "prev"  -> IF k \in Present THEN Greatest({x \in Present : x < k})
                                          ELSE None
    [] mode = "first" -> Least(Present)
    [] mode = "last"  -> Greatest(Present)

Modes == {"equal", "gteq", "lteq", "great", "less", "next", "prev", "first",
          "last"}

Init == /\ dict = Empty
        /\ saved = Empty
        /\ call = <<"create", None>>
        /\ ans = None

(* Store v under k and answer what was there.                                 *)
Insert(k, v) == /\ call' = <<"insert", k>>
                /\ ans' = dict[k]
                /\ dict' = [dict EXCEPT ![k] = v]
                /\ UNCHANGED saved

(* Store v under k unless something is there; answer what is there then.      *)
Add(k, v) == /\ call' = <<"add", k>>
             /\ ans' = IF dict[k] = None THEN v ELSE dict[k]
             /\ dict' = [dict EXCEPT ![k] = ans']
             /\ UNCHANGED saved

Remove(k) == /\ call' = <<"remove", k>>
             /\ ans' = dict[k]
             /\ dict' = [dict EXCEPT ![k] = None]
             /\ UNCHANGED saved

Lookup(k) == /\ call' = <<"lookup", k>>
             /\ ans' = dict[k]
             /\ UNCHANGED <<dict, saved>>

Seek(mode, k) == /\ call' = <<mode, k>>
                 /\ ans' = Sought(mode, k)
                 /\ UNCHANGED <<dict, saved>>

(* Read the map from one end to the other: how many entries, and which.       *)
Walk == /\ call' = <<"walk", None>>
        /\ ans' = <<Cardinality(Present), Present>>
        /\ UNCHANGED <<dict, saved>>

Destroy == /\ call' = <<"destroy", None>>
           /\ ans' = None
           /\ dict' = Empty
           /\ UNCHANGED saved

Commit == /\ call' = <<"commit", None>>
          /\ ans' = None
          /\ saved' = dict
          /\ UNCHANGED dict

Abort == /\ call' = <<"abort", None>>
         /\ ans' = None
         /\ dict' = saved
         /\ UNCHANGED saved

Next == \/ \E k \in Keys \cap {call'[2]} :
             \/ \E v \in Values : Insert(k, v) \/ Add(k, v)
             \/ Remove(k) \/ Lookup(k)
             \/ \E mode \in Modes : Seek(mode, k)
        \/ call'[2] = None /\ (Walk \/ Destroy \/ Commit \/ Abort)

Spec == Init /\ [][Next]_vars
=============================================================================
