--------------------------- MODULE MCTargetWorker ---------------------------
(* The worker as TLC runs it; all constants are given in the .cfg file.    *)
EXTENDS TargetWorkerProperties
=============================================================================
