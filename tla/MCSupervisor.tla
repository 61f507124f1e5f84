---------------------------- MODULE MCSupervisor ----------------------------
(* Instances of Supervisor for TLC. *)
EXTENDS SupervisorProperties, TLC

CONSTANTS t1, t2

OneTask  == {t1}
TwoTasks == {t1, t2}
TaskSymmetry == Permutations(TwoTasks)

CrashOnly == {"on_crash"}
=============================================================================
