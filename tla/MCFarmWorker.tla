---------------------------- MODULE MCFarmWorker ----------------------------
(***************************************************************************)
(* A small farm around one worker process.  The plans, engines and delays   *)
(* are those of MCFarmQueue.                                               *)
(***************************************************************************)
EXTENDS FarmWorker, MCFarmQueue
=============================================================================
