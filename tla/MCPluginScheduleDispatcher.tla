--------------------- MODULE MCPluginScheduleDispatcher ---------------------
(* Two jobs with different policies and two replicas, of which one runs      *)
(* ahead of the other by less than the interval of a job.                   *)
EXTENDS PluginScheduleDispatcher, TLC

CONSTANTS j1, j2, k1, k2, r1, r2

MCSkewed == [r \in Replicas |-> IF r = r2 THEN 1 ELSE 0]
MCInterval == [j \in Jobs |-> 2]
MCMaxAttempts == [j \in Jobs |-> IF j = j1 THEN 2 ELSE 1]
=============================================================================
