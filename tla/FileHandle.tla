----------------------------- MODULE FileHandle -----------------------------
(* io/file.c and io/pfile.c: reads and writes of a file through system calls  *)
(* that transfer fewer bytes than asked, are interrupted, or fail. file.c     *)
(* moves the descriptor's offset and therefore holds the handle's mutex       *)
(* across lseek(), read() and write(), and keeps a copy of the file's end;    *)
(* pfile.c names the offset in every call and has neither. Handles made by    *)
(* dup() have a descriptor and an end of their own.                           *)
EXTENDS Integers, Sequences, FiniteSets

CONSTANTS Threads,
          HandleOf, \* the handle each thread uses
          Positioned, \* TRUE for pfile.c
          Blocks,   \* 0 .. n, the regions that are read and written
          Size,     \* bytes of a region
          Values,
          None

VARIABLES obj, call, ans

vars == <<obj, call, ans>>

Undef == -1 \* after a write that failed
Handles == {HandleOf[t] : t \in Threads}
Idle == [pc |-> "idle", op |-> None, b |-> 0, v |-> None, n |-> 0, buf |-> <<>>]

Init == /\ obj = [disk |-> <<>>,                    \* the bytes of the file
                  pos |-> [h \in Handles |-> 0],    \* the descriptor's offset
                  end |-> [h \in Handles |-> 0],    \* end_pos
                  mut |-> [h \in Handles |-> 0],
                  last |-> [b \in Blocks |-> None], \* a value, None or Undef
                  t |-> [t \in Threads |-> Idle]]
        /\ call = <<"init", None>>
        /\ ans = None

Silent == call' = <<"step", None>> /\ ans' = None
Off(b) == b * Size
Max2(x, y) == IF x > y THEN x ELSE y
Min2(x, y) == IF x < y THEN x ELSE y
At(t, pc) == obj.t[t].pc = pc

(* Callers do not access a region that another thread is writing.             *)
Free(t, b, ops) == \A u \in Threads \ {t} : obj.t[u].b = b => obj.t[u].op \notin ops

(* A call returns: the error or success, and what was read.                        *)
Return(t, err) ==
  LET c == obj.t[t]  h == HandleOf[t] IN
  /\ obj' = [obj EXCEPT !.t[t] = Idle, !.mut[h] = IF @ = t THEN 0 ELSE @,
               !.last[c.b] = IF c.op = "read" THEN @ ELSE IF err = "ok" THEN c.v ELSE Undef]
  /\ call' = <<c.op, c.b, err>>
  /\ ans' = c.buf

(* file_read() and pfile_read().                                              *)
Read(t, b) ==
  /\ At(t, "idle") /\ Free(t, b, {"write", "buffer"})
  /\ obj' = [obj EXCEPT !.t[t] = [Idle EXCEPT !.op = "read", !.b = b,
                                    !.pc = IF Positioned THEN "pread" ELSE "lock"]]
  /\ Silent

(* file_write() and file_write_buffer(), and those of pfile.c.                *)
Write(t, b, v) ==
  /\ At(t, "idle") /\ Free(t, b, {"read", "write", "buffer"})
  /\ obj' = [obj EXCEPT !.t[t] = [Idle EXCEPT !.op = "write", !.b = b, !.v = v,
                                    !.pc = IF Positioned THEN "pwrite" ELSE "lock"]]
  /\ Silent

WriteBuffer(t, b, v) ==
  LET h == HandleOf[t] IN
  /\ At(t, "idle") /\ Free(t, b, {"read", "write", "buffer"})
  /\ Positioned \/ obj.mut[h] = 0
  /\ obj' = [obj EXCEPT !.end[h] = IF Positioned THEN @ ELSE Max2(@, Off(b) + Size),
               !.t[t] = [Idle EXCEPT !.op = "buffer", !.b = b, !.v = v, !.pc = "filled"]]
  /\ Silent

(* file_release_write_buffer(), pfile_release_write_buffer().                 *)
ReleaseWriteBuffer(t) ==
  /\ At(t, "filled")
  /\ obj' = [obj EXCEPT !.t[t].pc = IF Positioned THEN "pwrite" ELSE "lock"]
  /\ Silent


(* Faulty variant: a read trusts the handle's own end of the file.            *)
LockStale(t) ==
  LET h == HandleOf[t]  c == obj.t[t]  stop == Off(c.b) + Size
      beyond == c.op = "read" /\ stop > obj.end[h]
  IN /\ At(t, "lock") /\ obj.mut[h] = 0
     /\ obj' = [obj EXCEPT !.mut[h] = t, !.t[t].pc = IF beyond THEN "EDOM" ELSE "seek",
                           !.end[h] = IF c.op = "read" THEN @ ELSE Max2(@, stop)]
     /\ Silent

(* Under the mutex: a write moves the end; a read beyond it looks up the      *)
(* file's real end with lseek() and fails with EDOM if that is before it.     *)
Lock(t) ==
  LET h == HandleOf[t]  c == obj.t[t]  stop == Off(c.b) + Size
      beyond == c.op = "read" /\ stop > obj.end[h]
  IN /\ At(t, "lock") /\ obj.mut[h] = 0
     /\ obj' = [obj EXCEPT !.mut[h] = t, !.t[t].pc = IF beyond THEN "eof" ELSE "seek",
                           !.end[h] = IF c.op = "read" THEN @ ELSE Max2(@, stop)]
     /\ Silent

UpdateEOF(t) ==
  LET h == HandleOf[t]  c == obj.t[t] IN
  /\ At(t, "eof")
  /\ obj' = [obj EXCEPT !.end[h] = Len(obj.disk), !.pos[h] = Len(obj.disk),
               !.t[t].pc = IF Off(c.b) + Size > Len(obj.disk) THEN "EDOM" ELSE "seek"]
  /\ Silent

Edom(t) == At(t, "EDOM") /\ Return(t, "EDOM")

(* lseek(), at first and after every interrupted call.                        *)
Seek(t) ==
  /\ At(t, "seek")
  /\ obj' = [obj EXCEPT !.pos[HandleOf[t]] = Off(obj.t[t].b) + obj.t[t].n, !.t[t].pc = "io"]
  /\ Silent

(* n bytes at position p of the file, a hole before them read as zeros.       *)
Put(disk, p, n, v) ==
  [i \in 1 .. Max2(Len(disk), p + n) |-> IF i > p /\ i <= p + n THEN v
                                         ELSE IF i <= Len(disk) THEN disk[i] ELSE 0]
Moved(t, p, n) ==
  LET c == obj.t[t]
      o == IF c.op = "read" THEN [obj EXCEPT !.t[t].buf = @ \o SubSeq(obj.disk, p + 1, p + n)]
           ELSE [obj EXCEPT !.disk = Put(@, p, n, c.v)]
  IN [o EXCEPT !.t[t].n = @ + n]

(* read() and write() at the descriptor's offset. At the end of the file a    *)
(* read of file.c fails with EINVAL.                                          *)
Transfer(t) ==
  LET h == HandleOf[t]  c == obj.t[t]  p == obj.pos[h]
      most == IF c.op = "read" THEN Min2(Size - c.n, Len(obj.disk) - p) ELSE Size - c.n
  IN /\ At(t, "io") /\ c.n < Size
     /\ \/ \E n \in 1 .. most : obj' = [Moved(t, p, n) EXCEPT !.pos[h] = p + n] /\ Silent
        \/ obj' = [obj EXCEPT !.t[t].pc = "seek"] /\ Silent
        \/ c.op = "read" /\ most <= 0 /\ Return(t, "EINVAL")

(* pread() and pwrite(): an interrupted call is simply made again. At the end *)
(* of the file a read of pfile.c fails with EDOM.                             *)
PTransfer(t) ==
  LET c == obj.t[t]  p == Off(c.b) + c.n
      most == IF c.op = "read" THEN Min2(Size - c.n, Len(obj.disk) - p) ELSE Size - c.n
  IN /\ obj.t[t].pc \in {"pread", "pwrite"} /\ c.n < Size
     /\ \/ \E n \in 1 .. most : obj' = Moved(t, p, n) /\ Silent
        \/ c.op = "read" /\ most <= 0 /\ Return(t, "EDOM")

(* Any system call can fail for good: the call gives up where it is.          *)
Fail(t) == obj.t[t].pc \in {"eof", "seek", "io", "pread", "pwrite"} /\ Return(t, "EIO")

Done(t) == obj.t[t].pc \in {"io", "pread", "pwrite"} /\ obj.t[t].n = Size /\ Return(t, "ok")

(* file_end_position(), pfile_end_position().                                 *)
EndPosition(t) ==
  LET h == HandleOf[t] IN
  /\ At(t, "idle") /\ (Positioned \/ obj.mut[h] = 0)
  /\ obj' = [obj EXCEPT !.end[h] = IF Positioned THEN @ ELSE Len(obj.disk), !.pos[h] = Len(obj.disk)]
  /\ call' = <<"end", None>> /\ ans' = <<Len(obj.disk)>>

Next == \E t \in Threads :
          \/ \E b \in Blocks : Read(t, b) \/ \E v \in Values : Write(t, b, v) \/ WriteBuffer(t, b, v)
          \/ ReleaseWriteBuffer(t) \/ Lock(t) \/ UpdateEOF(t) \/ Edom(t) \/ Seek(t) \/ Transfer(t)
          \/ PTransfer(t) \/ Fail(t) \/ Done(t) \/ EndPosition(t)

(* States that differ in which value a region holds are the same.             *)
Shape ==
  LET Same(b, v) == IF b \in Blocks /\ obj.last[b] \in Values THEN v = obj.last[b] ELSE TRUE
      Known(b) == IF obj.last[b] \in Values THEN 1 ELSE obj.last[b]
      Cursor(c) == <<c.pc, c.op, c.b, Same(c.b, c.v), c.n, [i \in DOMAIN c.buf |-> Same(c.b, c.buf[i])]>>
  IN <<[i \in DOMAIN obj.disk |-> Same((i - 1) \div Size, obj.disk[i])],
       [b \in Blocks |-> Known(b)], obj.pos, obj.end, obj.mut,
       [t \in Threads |-> Cursor(obj.t[t])]>>
-----------------------------------------------------------------------------
(* A read that succeeds returns the whole region as the last write left it,   *)
(* however the calls of other threads are interleaved with its own.           *)
WholeReads ==
  call'[1] = "read" /\ call'[3] = "ok" =>
    /\ Len(ans') = Size
    /\ obj.last[call'[2]] \in Values => \A i \in 1 .. Size : ans'[i] = obj.last[call'[2]]

(* A region that was written is found: no end of file is met in it, although  *)
(* every handle has its own idea of the end and writes may fail half way.     *)
WrittenFound ==
  call'[1] = "read" /\ call'[3] \in {"EDOM", "EINVAL"} => obj.last[call'[2]] \in {None, Undef}
=============================================================================
