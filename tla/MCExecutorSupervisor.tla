------------------------ MODULE MCExecutorSupervisor ------------------------
(* The supervisor against a hostile child: every message at every moment.  *)
EXTENDS ExecutorSupervisor
=============================================================================
