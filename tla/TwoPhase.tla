------------------------------- MODULE TwoPhase -------------------------------
(* Two-phase commit: the automata of 2pc.c, the main loop and the workers of  *)
(* libdfa.c with the machine table smash.c, the datagrams of messages.c, and  *)
(* the cluster hash table of apps/cht as the application. Each process keeps  *)
(* its machines by id; a worker for each machine sends the machine's message  *)
(* again and again, and the main loop makes one transition for a message.     *)
(* A channel keeps the order of datagrams and may lose them. The commit group *)
(* is all of Subs. Restarts are left out: dfa_initialize_new() makes a new    *)
(* machine table each time, so recover() never finds a machine.               *)
EXTENDS Integers, Sequences, FiniteSets

CONSTANTS Subs,     \* subordinates
          Script,   \* the client's requests in turn: [rt |-> ..., op |-> ...]
          Lossy,    \* datagrams may be lost
          Cap,      \* bound on the datagrams of a channel
          MaxSends, \* bound on how often the client sends a request
          None

VARIABLES obj, call, ans

vars == <<obj, call, ans>>

Nodes == {"client", "coord"} \cup Subs
(* The id of the client's machine, and the transaction's: NULL_MACHINE, whose *)
(* upper half htonl() cuts off, so that it names a machine like any other.    *)
Ids == {"own", "x"}

Tr(remote, pre, post, fn) == [remote |-> remote, pre |-> pre, post |-> post, fn |-> fn]
Transitions2pc ==
  {Tr("XACT_ACK_RESULT", "NULL", "RUNNING", "init"),
   Tr("XACT_ACK_RESULT", "ACTIVE", "RUNNING", "continue"),
   Tr("XACT_COMMIT", "ACTIVE", "START", "continue"),
   Tr("XACT_SUBORDINATE_ACK", "RUNNING", "ACTIVE", "tally"),
   Tr("AWAIT_ARRIVAL", "NULL", "START", "init"),
   Tr("AWAIT_COMMIT_POINT", "NULL", "START", "init"),
   Tr("AWAIT_RESULT", "NULL", "START", "init"),
   Tr("VETO", "START", "ABORTING", "check_veto"),
   Tr("PREPARED", "START", "COMMITTING", "tally"),
   Tr("ACKING", "ABORTING", "NULL", "tally"),
   Tr("ACKING", "COMMITTING", "NULL", "tally"),
   Tr("RUNNING", "NULL", "ACTIVE", "eval_action"),
   Tr("RUNNING", "ACTIVE", "ACTIVE", "eval_action"),
   Tr("START", "NULL", "OVERRIDDEN", "veto_or_prepare"),
   Tr("START", "ACTIVE", "OVERRIDDEN", "veto_or_prepare"),
   Tr("ABORTING", "PREPARED", "NULL", "abort"),
   Tr("COMMITTING", "PREPARED", "NULL", "commit"),
   Tr("ABORTING", "VETO", "NULL", "none"),
   Tr("COMMITTING", "NULL", "OVERRIDDEN", "send_ack"),
   Tr("ABORTING", "NULL", "OVERRIDDEN", "send_ack"),
   Tr("COMMITTING", "ACTIVE", "OVERRIDDEN", "send_ack"),
   Tr("ABORTING", "ACTIVE", "OVERRIDDEN", "send_ack")}
ClientTransitions2pc ==
  {Tr("START", "AWAIT_ARRIVAL", "NULL", "none"),
   Tr("COMMITTING", "AWAIT_COMMIT_POINT", "NULL", "none"),
   Tr("ABORTING", "AWAIT_COMMIT_POINT", "NULL", "none"),
   Tr("ACKING", "AWAIT_RESULT", "NULL", "none"),
   Tr("ACTIVE", "XACT_ACK_RESULT", "NULL", "none"),
   Tr("COMMITTING", "XACT_COMMIT", "NULL", "none")}
TransitionsOf(n) == IF n = "client" THEN ClientTransitions2pc ELSE Transitions2pc

(* A message: its type, the machines it is for and from, the client's request *)
(* it carries, and the round of the coordinator it belongs to, which only the *)
(* properties read.                                                           *)
Msg(type, to, from, req, inc) ==
  [type |-> type, to |-> to, from |-> from, req |-> req, inc |-> inc]
Rt(m) == Script[m.req].rt
Op(m) == Script[m.req].op

(* eval_action_cht() asserts that the work succeeds.                          *)
Explicit == \E k \in DOMAIN Script : Script[k].rt = "XACT_ACK_RESULT"

Init == \E has \in [Subs -> BOOLEAN] :
  /\ Explicit => \A s \in Subs : has[s]
  /\ obj = [mach |-> [n \in Nodes |-> [i \in Ids |-> None]],  \* memHash
            net |-> [n \in Nodes |-> [k \in Nodes |-> <<>>]],
            next |-> 1, sends |-> 0,
            inc |-> 0,                          \* rounds begun
            decided |-> <<>>,                   \* the decision of each round
            has |-> has,                        \* the hash table exists there
            xact |-> [s \in Subs |-> None],     \* xid_ht: operations not yet committed
            table |-> [s \in Subs |-> {}],      \* operations committed
            log |-> [s \in Subs |-> <<>>]]      \* outcomes of rounds, in order
  /\ call = <<"init", None>>
  /\ ans = None

Silent == call' = <<"step", None>> /\ ans' = None

(* send_message(): a datagram for each receiver; "bc" is the commit group.    *)
Receivers(rcp) == IF rcp = "bc" THEN Subs ELSE {rcp}
Send(o, n, rcp, m) ==
  [o EXCEPT !.net[n] = [k \in Nodes |->
     IF k \in Receivers(rcp) /\ Len(@[k]) < Cap THEN Append(@[k], m) ELSE @[k]]]

(* respond_once(): the machine ids of the message are swapped.                *)
RespondOnce(o, n, type, m, rcp) == Send(o, n, rcp, Msg(type, m.from, m.to, m.req, m.inc))
RespondInitiator(o, n, type, m) == RespondOnce(o, n, type, [m EXCEPT !.from = "own"], "client")

(* A callback yields what it returns, the processes it changed, the message   *)
(* as it leaves it, the recipient and the machine's votes.                    *)
Done(ret, o, m, rcp, votes) == [ret |-> ret, o |-> o, m |-> m, rcp |-> rcp, votes |-> votes]

(* coordinator_init_xact_2pc() with init_xact_cht(). Only AWAIT_ARRIVAL is    *)
(* answered at once.                                                          *)
CoordinatorInit(o, n, mc, m, from) ==
  LET m1 == [m EXCEPT !.from = "x", !.inc = o.inc + 1]
      o1 == [o EXCEPT !.inc = @ + 1, !.decided = Append(@, None)]
      o2 == IF m.type = "AWAIT_ARRIVAL" THEN RespondInitiator(o1, n, "START", m1) ELSE o1
  IN IF n # "coord" THEN Done(0, o, m, from, {}) ELSE Done(1, o2, m1, "bc", {})

(* coordinator_continue_xact_2pc(): the votes are cleared for the next tally. *)
CoordinatorContinue(o, n, mc, m, from) ==
  Done(1, o, [m EXCEPT !.from = "x", !.inc = mc.inc], "bc", {})

(* tally_2pc(): a vote for each member of the group. Once all have voted the  *)
(* votes are cleared and the client is told, at the commit point and when an  *)
(* abort has been acknowledged alike.                                         *)
TallyResult(o, n, mc, m, all, votes) ==
  LET m1 == [m EXCEPT !.inc = mc.inc]
      point == Rt(m) \in {"AWAIT_COMMIT_POINT", "XACT_COMMIT"} /\ mc.st \in {"START", "ABORTING"}
      result == Rt(m) = "XACT_ACK_RESULT" /\ mc.st = "RUNNING"
      o1 == IF all /\ mc.st = "START" /\ m.type = "PREPARED"
            THEN [o EXCEPT !.decided[mc.inc] = "commit"] ELSE o
      o2 == IF all /\ point THEN RespondInitiator(o1, n, "COMMITTING", m1)
            ELSE IF all /\ result THEN RespondInitiator(o1, n, "ACTIVE", m1) ELSE o1
  IN Done(IF all THEN 1 ELSE 0, o2, m1, "bc", votes)


(* Faulty variant: the votes are not cleared.                                 *)
TallyKept(o, n, mc, m, from, old) ==
  LET new == old \cup {from} IN TallyResult(o, n, mc, m, new = Subs, new)

Tally(o, n, mc, m, from, old) ==
  LET new == old \cup {from}  all == new = Subs
  IN TallyResult(o, n, mc, m, all, IF all THEN {} ELSE new)

(* check_veto_2pc(): the veto counts as the first acknowledgement. The client *)
(* is sent a commit message, under the machine id of the transaction.         *)
CheckVeto(o, n, mc, m, from) ==
  LET o1 == RespondOnce([o EXCEPT !.decided[mc.inc] = "abort"], n, "COMMITTING", m, "client")
  IN [Tally(o1, n, mc, m, from, {}) EXCEPT !.ret = 1]

(* do_work(): fails when the hash table is not there, and for ABORT.          *)
Works(o, n, op) == op # "abort" /\ (o.has[n] \/ op \in {"getxid", "commit"})
Worked(o, n, op) ==
  IF op \in {"getxid", "commit"} THEN o ELSE [o EXCEPT !.xact[n] = @ \cup {op}]
Begun(o, n) == IF o.xact[n] = None THEN [o EXCEPT !.xact[n] = {}] ELSE o

(* eval_action_cht(): begins a local transaction if there is none.            *)
EvalActionCht(o, n, op) == Worked(Begun(o, n), n, op)

(* eval_action_2pc(): the work is done for every copy of the message.         *)
EvalAction(o, n, mc, m, from) ==
  Done(IF mc.st = "ACTIVE" THEN 0 ELSE 1,
       RespondOnce(EvalActionCht(o, n, Op(m)), n, "XACT_SUBORDINATE_ACK", m, from), m, from, {})

AbortCht(o, n, inc) == [o EXCEPT !.xact[n] = None, !.log[n] = Append(@, <<"abort", inc>>)]
CommitCht(o, n, inc) == [o EXCEPT !.table[n] = @ \cup o.xact[n], !.xact[n] = None,
                                  !.log[n] = Append(@, <<"commit", inc>>)]

(* Faulty variant: a veto leaves the local transaction open.                  *)
VetoOrPrepareOpen(o, n, op, inc) ==
  IF Works(o, n, op) THEN <<"PREPARED", Worked(Begun(o, n), n, op)>> ELSE <<"VETO", Begun(o, n)>>

(* veto_or_prepare_cht() does the work, and aborts on a veto.                 *)
VetoOrPrepareCht(o, n, op, inc) ==
  IF Works(o, n, op) THEN <<"PREPARED", Worked(Begun(o, n), n, op)>>
  ELSE <<"VETO", AbortCht(Begun(o, n), n, inc)>>
VetoOrPrepare(o, n, mc, m, from) ==
  LET r == VetoOrPrepareCht(o, n, Op(m), m.inc) IN Done(r[1], r[2], m, from, {})

SendAck(o, n, m, from) == RespondOnce(o, n, "ACKING", m, from)
Abort2pc(o, n, mc, m, from) ==
  LET o1 == AbortCht(SendAck(o, n, m, from), n, m.inc) IN
  Done(1, IF Rt(m) \in {"AWAIT_COMMIT_POINT", "AWAIT_RESULT"}
          THEN RespondInitiator(o1, n, "VETO", m) ELSE o1, m, from, {})
Commit2pc(o, n, mc, m, from) ==
  LET o1 == CommitCht(SendAck(o, n, m, from), n, m.inc) IN
  Done(1, IF Rt(m) = "AWAIT_RESULT" THEN RespondOnce(o1, n, "ACKING", m, "client") ELSE o1,
       m, from, {})

Callback(fn, o, n, mc, m, from) ==
  CASE fn = "none" -> Done(1, o, m, from, mc.votes)
    [] fn = "init" -> CoordinatorInit(o, n, mc, m, from)
    [] fn = "continue" -> CoordinatorContinue(o, n, mc, m, from)
    [] fn = "tally" -> Tally(o, n, mc, m, from, mc.votes)
    [] fn = "check_veto" -> CheckVeto(o, n, mc, m, from)
    [] fn = "eval_action" -> EvalAction(o, n, mc, m, from)
    [] fn = "veto_or_prepare" -> VetoOrPrepare(o, n, mc, m, from)
    [] fn = "abort" -> Abort2pc(o, n, mc, m, from)
    [] fn = "commit" -> Commit2pc(o, n, mc, m, from)
    [] fn = "send_ack" -> Done("OVERRIDDEN", SendAck(o, n, m, from), m, from, {})

(* The machine table: a new machine is in START_STATE and has no worker.      *)
Fresh == [st |-> "NONE", msg |-> None, rcp |-> None, votes |-> {}, inc |-> 0]

GetSmash(o, n, i) == o.mach[n][i]
SetSmash(o, n, i, mc) == [o EXCEPT !.mach[n][i] = mc]
FreeSmash(o, n, i) == [o EXCEPT !.mach[n][i] = None]

(* The state after a callback: NULL ends the machine, by way of a tombstone   *)
(* if it has a worker.                                                        *)
NewState(tr, ret, cur) ==
  LET new == IF tr.post = "OVERRIDDEN" THEN (IF ret = "OVERRIDDEN" THEN cur ELSE ret)
             ELSE IF ret = 0 THEN cur ELSE tr.post
  IN IF new = "NULL" /\ cur # "NULL" THEN "TOMBSTONE" ELSE new

(* receive_message() takes the oldest datagram.                               *)
Received(src, n) == [obj EXCEPT !.net[src][n] = Tail(@)]

(* One turn of main_loop(): a message for which there is no transition leaves *)
(* the machine that was made for it behind.                                   *)
MainLoop(src, n) ==
  /\ obj.net[src][n] # <<>>
  /\ \E m \in {Head(obj.net[src][n])} : \E old \in {GetSmash(obj, n, m.to)} :
     LET o == Received(src, n)
         mc == IF old = None THEN Fresh ELSE old
         cur == IF old = None THEN "NULL" ELSE old.st
         trs == {tr \in TransitionsOf(n) : tr.remote = m.type /\ tr.pre = cur}
     IN IF trs = {} THEN obj' = SetSmash(o, n, m.to, mc)
        ELSE \E tr \in {CHOOSE x \in trs : TRUE} : \E r \in {Callback(tr.fn, o, n, mc, m, src)} :
             LET new == NewState(tr, r.ret, cur)
             IN obj' = IF new = "NULL" THEN FreeSmash(r.o, n, m.to)
                       ELSE SetSmash(r.o, n, m.to,
                         IF new = cur THEN [mc EXCEPT !.votes = r.votes]
                         ELSE [st |-> new, rcp |-> r.rcp, votes |-> r.votes, inc |-> r.m.inc,
                               msg |-> Msg(new, r.m.from, m.to, m.req, r.m.inc)])
  /\ Silent

(* A worker's turn: XACT_ACTIVE's retry function never sends.                 *)
Worker(n, i) ==
  /\ obj.mach[n][i] # None
  /\ LET mc == obj.mach[n][i] IN
     /\ mc.st \notin {"NONE", "TOMBSTONE", "ACTIVE"}
     /\ \A k \in Receivers(mc.rcp) : Len(obj.net[n][k]) < Cap
     /\ n = "client" => obj.sends < MaxSends
     /\ obj' = [Send(obj, n, mc.rcp, mc.msg) EXCEPT !.sends = IF n = "client" THEN @ + 1 ELSE @]
  /\ Silent

(* worker_loop() frees the machine; request() returns to the client.          *)
WorkerEnds(n, i) ==
  /\ obj.mach[n][i] # None /\ obj.mach[n][i].st = "TOMBSTONE"
  /\ obj' = [FreeSmash(obj, n, i) EXCEPT
                        !.next = IF n = "client" THEN @ + 1 ELSE @,
                        !.sends = IF n = "client" THEN 0 ELSE @]
  /\ Silent

(* The message that _chtEval() makes of the client's k-th call.               *)
ChtEval(k) == Msg(Script[k].rt, "x", "own", k, 0)

(* request(): the client's next call.                                         *)
Request ==
  /\ obj.next <= Len(Script) /\ GetSmash(obj, "client", "own") = None
  /\ obj' = SetSmash(obj, "client", "own",
       [Fresh EXCEPT !.st = Script[obj.next].rt, !.rcp = "coord", !.msg = ChtEval(obj.next)])
  /\ Silent

Lose(src, n) == /\ Lossy /\ obj.net[src][n] # <<>>
                /\ obj' = Received(src, n)
                /\ Silent

Next == \/ Request
        \/ \E n \in Nodes, i \in Ids : Worker(n, i) \/ WorkerEnds(n, i)
        \/ \E n, k \in Nodes : MainLoop(n, k) \/ Lose(n, k)

Spec == Init /\ [][Next]_vars

(* What tells states apart up to a renaming of the subordinates. Nothing that *)
(* subordinates send to the client makes it take a transition.                *)
Shape ==
  LET c == obj.mach["coord"]["x"] IN
  <<obj.next, obj.sends, obj.inc, obj.decided, obj.mach["client"]["own"],
    IF c = None THEN c ELSE [c EXCEPT !.votes = {}],
    obj.net["client"], obj.net["coord"]["client"],
    {<<obj.has[s], obj.xact[s], obj.table[s], obj.log[s], obj.mach[s]["x"], c # None /\ s \in c.votes,
       obj.net["coord"][s], obj.net[s]["coord"]>> : s \in Subs}>>

-------------------------------------------------------------------------------
Committed(s, i) == \E k \in DOMAIN obj.log[s] : obj.log[s][k] = <<"commit", i>>
Aborted(s, i) == \E k \in DOMAIN obj.log[s] : obj.log[s][k] = <<"abort", i>>
State(n) == IF obj.mach[n]["x"] = None THEN "NULL" ELSE obj.mach[n]["x"].st


(* The asserts of cht_server.c: a subordinate has a local transaction exactly *)
(* while its machine is active or prepared.                                   *)
XidsMatch == \A s \in Subs : (obj.xact[s] # None) <=> State(s) \in {"ACTIVE", "PREPARED"}

(* Replicas agree: while no transaction is open they hold the same data.      *)
ReplicasAgree ==
  (\A n \in Nodes \ {"client"} : State(n) \in {"NULL", "NONE"})
    => \A s, t \in Subs : obj.table[s] = obj.table[t]

(* Exactly-once: a request of the client is run in one round only.            *)
(* Refuted by TLC: the code does not ensure it. No run checks this.           *)
ExactlyOnce == obj.inc <= Len(Script)
===============================================================================
