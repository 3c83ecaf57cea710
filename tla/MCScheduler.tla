---------------------------- MODULE MCScheduler -----------------------------
(* Two urgent tasks and one that is not, on three or four containers.  *)
EXTENDS Scheduler, TLC

CONSTANTS rxTask, txTask, udpTask

MCTask == {rxTask, txTask, udpTask}
MCPrio == rxTask :> 1 @@ txTask :> 2 @@ udpTask :> 2
=============================================================================
