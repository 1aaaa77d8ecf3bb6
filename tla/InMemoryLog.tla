----------------------------- MODULE InMemoryLog -----------------------------
(* logger/inMemoryLog.c: a log in an array of entries, which is moved down    *)
(* when it is truncated. Both locks are taken by reserve and released by      *)
(* write_entry. A thread is a transaction that appends, reads its own entries *)
(* back, and ends. Whoever truncates the log chooses an LSN that no active    *)
(* transaction needs and applies it later.                                    *)
EXTENDS Integers, Sequences, FiniteSets

CONSTANTS Threads,
          Len0, MaxLen,  \* bufferLen at first, maxLen
          MaxLsn,        \* bound: entries that are appended
          MaxBlocks,     \* how often a full log is truncated before the program gives up
          None

VARIABLES obj, call, ans

vars == <<obj, call, ans>>

FREE == 0
NONE == -1
Idle == [pc |-> "idle", rec |-> NONE, held |-> NONE, trunc |-> NONE, blocks |-> 0]

Init == /\ obj = [buffer |-> [i \in 0 .. Len0 - 1 |-> NONE], len |-> Len0, off |-> 0, next |-> 0,
                  lock |-> FREE, dead |-> FALSE,
                  freed |-> {},
                  t |-> [t \in Threads |-> Idle]]
        /\ call = <<"init", None>>
        /\ ans = <<"none">>

Silent == call' = <<"step", None>> /\ ans' = <<"none">>
At(t, pc) == obj.t[t].pc = pc
Go(o, t, pc) == [o EXCEPT !.t[t].pc = pc]

(* An entry is allocated (calloc) with its LSN.                               *)
Entry(lsn) == lsn

(* stasis_log_impl_in_memory_reserve_entry(): room, growth or truncation.     *)
Reserve(t) ==
  LET slot == obj.next - obj.off IN
  /\ obj.t[t].pc \in {"idle", "retry"} /\ obj.t[t].held = NONE /\ obj.lock = FREE /\ obj.next < MaxLsn
  /\ obj' = IF slot < obj.len
            THEN [Go(obj, t, "reserved") EXCEPT !.lock = t, !.buffer[slot] = Entry(obj.next), !.next = @ + 1,
                                                !.t[t].blocks = 0]
            ELSE IF 2 * obj.len > MaxLen
            THEN IF obj.t[t].blocks + 1 = MaxBlocks THEN [Go(obj, t, "abort") EXCEPT !.dead = TRUE]
                 ELSE [Go(obj, t, "choose") EXCEPT !.t[t].blocks = @ + 1]
            ELSE [Go(obj, t, "retry") EXCEPT
                    !.len = 2 * @, !.buffer = [i \in 0 .. 2 * obj.len - 1 |-> IF i < obj.len THEN @[i] ELSE NONE]]
  /\ Silent

(* stasis_log_impl_in_memory_write_entry().                                   *)
WriteEntry(t) ==
  /\ At(t, "reserved")
  /\ obj' = [Go(obj, t, "idle") EXCEPT
               !.lock = FREE, !.t[t].rec = IF @ = NONE THEN obj.next - 1 ELSE @]
  /\ Silent

(* The transaction ends, and needs its entries no more.                       *)
End(t) ==
  /\ At(t, "idle") /\ obj.t[t].rec # NONE /\ obj.t[t].held = NONE
  /\ obj' = [obj EXCEPT !.t[t].rec = NONE]
  /\ Silent

(* A caller of truncate, with an LSN below every active transaction's first.  *)
Choose(t) ==
  LET recs == {obj.t[u].rec : u \in Threads} \ {NONE} IN
  /\ At(t, "idle") /\ obj.t[t].held = NONE /\ obj.lock = FREE
  /\ \E lsn \in obj.off .. obj.next :
       /\ \A r \in recs : lsn <= r
       /\ obj' = [Go(obj, t, "trunc") EXCEPT !.t[t].trunc = lsn]
  /\ Silent

(* The call of stasis_truncation_truncate() from a full log. No entry below   *)
(* first_pending_lsn() may go, and this log answers INVALID_LSN to that.      *)
FirstPendingLsn == -1
ChooseFull(t) ==
  LET recs == {obj.t[u].rec : u \in Threads} \ {NONE}
      ends == recs \cup {obj.next, FirstPendingLsn}
  IN /\ At(t, "choose")
     /\ obj' = [Go(obj, t, "truncRetry") EXCEPT !.t[t].trunc = CHOOSE x \in ends : \A y \in ends : x <= y]
     /\ Silent

(* Faulty variant: the first entry that is kept is freed as well.             *)
TruncatePast(t) ==
  LET lsn == obj.t[t].trunc
      n == lsn - obj.off
      pc == IF At(t, "trunc") THEN "idle" ELSE "retry"
  IN /\ obj.t[t].pc \in {"trunc", "truncRetry"} /\ obj.lock = FREE
     /\ obj' = IF n > 0
               THEN [Go(obj, t, pc) EXCEPT
                       !.freed = @ \cup {obj.buffer[i] : i \in (0 .. n) \cap DOMAIN obj.buffer},
                       !.buffer = [i \in DOMAIN @ |-> IF i < obj.next - lsn THEN @[i + n] ELSE @[i]],
                       !.off = lsn, !.t[t].trunc = NONE]
               ELSE [Go(obj, t, pc) EXCEPT !.t[t].trunc = NONE]
     /\ Silent

(* Faulty variant: one entry too few is moved down.                           *)
TruncateShort(t) ==
  LET lsn == obj.t[t].trunc
      n == lsn - obj.off
      pc == IF At(t, "trunc") THEN "idle" ELSE "retry"
  IN /\ obj.t[t].pc \in {"trunc", "truncRetry"} /\ obj.lock = FREE
     /\ obj' = IF n > 0
               THEN [Go(obj, t, pc) EXCEPT
                       !.freed = @ \cup {obj.buffer[i] : i \in 0 .. n - 1},
                       !.buffer = [i \in DOMAIN @ |-> IF i < (obj.next - lsn) - 1 THEN @[i + n] ELSE @[i]],
                       !.off = lsn, !.t[t].trunc = NONE]
               ELSE [Go(obj, t, pc) EXCEPT !.t[t].trunc = NONE]
     /\ Silent

(* stasis_log_impl_in_memory_truncate(): free, and move the rest down.        *)
Truncate(t) ==
  LET lsn == obj.t[t].trunc
      n == lsn - obj.off
      pc == IF At(t, "trunc") THEN "idle" ELSE "retry"
  IN /\ obj.t[t].pc \in {"trunc", "truncRetry"} /\ obj.lock = FREE
     /\ obj' = IF n > 0
               THEN [Go(obj, t, pc) EXCEPT
                       !.freed = @ \cup {obj.buffer[i] : i \in 0 .. n - 1},
                       !.buffer = [i \in DOMAIN @ |-> IF i < obj.next - lsn THEN @[i + n] ELSE @[i]],
                       !.off = lsn, !.t[t].trunc = NONE]
               ELSE [Go(obj, t, pc) EXCEPT !.t[t].trunc = NONE]
     /\ Silent

(* stasis_log_impl_in_memory_read_entry(). The pointer is used after the lock *)
(* is released, of entries of the reader's own transaction.                   *)
ReadEntry(t, lsn) ==
  LET found == lsn < obj.next /\ lsn - obj.off >= 0 /\ lsn - obj.off < obj.len
      mine == found /\ obj.t[t].rec # NONE /\ lsn >= obj.t[t].rec
  IN /\ At(t, "idle") /\ obj.lock = FREE /\ obj.t[t].held = NONE
     /\ obj' = IF mine THEN [obj EXCEPT !.t[t].held = lsn] ELSE obj
     /\ call' = <<"read", lsn>>
     /\ ans' = IF found THEN <<"entry", obj.buffer[lsn - obj.off]>> ELSE <<"none">>

ReadDone(t) ==
  /\ obj.t[t].held # NONE
  /\ obj' = [obj EXCEPT !.t[t].held = NONE]
  /\ Silent

(* stasis_log_impl_in_memory_close(), which frees and checks every entry.     *)
Close ==
  /\ \A t \in Threads : At(t, "idle") /\ obj.t[t].rec = NONE /\ obj.t[t].held = NONE
  /\ obj' = [obj EXCEPT !.dead = TRUE]
  /\ call' = <<"close", None>>
  /\ ans' = <<"entries", [i \in 0 .. (obj.next - obj.off) - 1 |-> obj.buffer[i]]>>

Next == /\ ~obj.dead
        /\ \/ \E t \in Threads : \/ Reserve(t) \/ WriteEntry(t) \/ End(t) \/ Choose(t) \/ ChooseFull(t) \/ Truncate(t)
                                 \/ ReadDone(t) \/ \E lsn \in 0 .. MaxLsn : ReadEntry(t, lsn)
           \/ Close
-----------------------------------------------------------------------------
(* An LSN reads as its own entry while the log holds it and as nothing before *)
(* and after, and close finds every entry in its place.                       *)
LsnsExact ==
  /\ call'[1] = "read" =>
       ans' = IF obj.off <= call'[2] /\ call'[2] < obj.next THEN <<"entry", Entry(call'[2])>> ELSE <<"none">>
  /\ call'[1] = "close" => \A i \in DOMAIN ans'[2] : ans'[2][i] = Entry(i + obj.off)

(* An entry that a transaction has read and still uses is not freed under it. *)
EntryLives == \A t \in DOMAIN obj.t : obj.t[t].held # NONE => Entry(obj.t[t].held) \notin obj.freed

(* A full log makes room by truncation: the program does not give up when the *)
(* transaction that appends is the only one and has appended nothing yet.     *)
(* Refuted by TLC: the code does not ensure it. No run checks this.           *)
BoundedRuns == \A t \in DOMAIN obj.t : At(t, "abort") => \E u \in DOMAIN obj.t : obj.t[u].rec # NONE
=============================================================================
