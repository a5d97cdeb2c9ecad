---------------------------- MODULE MCExecutorRun ----------------------------
(* One execution with the shipped runner, every crash, abort and loss.      *)
EXTENDS ExecutorRun

AnyCrash == {ExitBy(0, NoSignal), ExitBy(1, NoSignal), ExitBy(NoCode, "SIGSEGV")}
BothBackends == {"cpu", "gpu"}
OneBackend == {"cpu"}
SilentCrash == {ExitBy(0, NoSignal)}
=============================================================================
