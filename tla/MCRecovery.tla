----------------------------- MODULE MCRecovery -----------------------------
(* Instances of Recovery for TLC.  A behaviour runs on one of the two logs.  *)
EXTENDS Recovery, TLC

CONSTANTS x1, x2, p1, p2

VARIABLE logType  \* the log in use

OnFilePool == INSTANCE Recovery WITH LogType <- "file_pool", UseSoftCommit <- FALSE,
                                    MaxCrashes <- 1

Symmetry == Permutations(Xids) \cup Permutations(Pages)

(* One log: the one that the constants name.                               *)
InitOne == Init /\ logType = LogType
NextOne == Next /\ UNCHANGED logType
OneSpec == InitOne /\ [][NextOne]_<<vars, logType>>
FairOneSpec == OneSpec /\ Fairness

(* Both logs, soft commits only on the first: on a file pool they are not  *)
(* atomic, and neither are transactions.                                   *)
InitLogs == \/ InitOne
            \/ OnFilePool!Init /\ logType = "file_pool"
NextLogs == \/ logType # "file_pool" /\ NextOne
            \/ logType = "file_pool" /\ OnFilePool!Next /\ UNCHANGED logType
LogsSpec == InitLogs /\ [][NextLogs]_<<vars, logType>>

(* On the safe-writes log, whatever crashes interrupt: a transaction that  *)
(* committed keeps its updates and one that aborted keeps none, restart    *)
(* undoes an update once, and neither restart nor a rollback reads a       *)
(* record that truncation removed.                                         *)
SafeWritesAtomic == logType = "safe_writes" => Atomicity /\ UndoneOnce /\ ReadsKeptLog
=============================================================================
