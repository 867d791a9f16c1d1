--------------------------- MODULE MCReplayWorker ---------------------------
(* Instances of ReplayWorker for TLC.                                        *)
EXTENDS ReplayWorkerProps

\* Every result the runner interface allows; the ones the wired checkout pack
\* and in-process runner give in practice.
AllResults == ExecResults
TypicalResults == {"matched", "unmatched", "runtimeError"}
=============================================================================
