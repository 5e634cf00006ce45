-------------------------- MODULE MCFailoverBench --------------------------
(* FailoverBench with the constants of the code, in units of 50ms: a       *)
(* request to c1 takes 200 to 500ms, one to c2 100 to 300ms, a backoff 50  *)
(* to 100ms.                                                               *)
EXTENDS FailoverBench

CONSTANT main

MCClients      == {main}
MCLists        == {<<Broken, Healthy>>}
MCBrokenTimes  == {4, 7, 10}
MCHealthyTimes == {2, 6}
MCBackoffs     == {1, 2}

(* The durations of the code fit the breaker's window and cooldown.        *)
ASSUME BenchAssumption == BenchConstants /\ RecoveryFits
=============================================================================
