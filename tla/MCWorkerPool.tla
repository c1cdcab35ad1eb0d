---------------------------- MODULE MCWorkerPool ----------------------------
(***************************************************************************)
(* Model-checking instance of WorkerPool.  Two workers and one channel     *)
(* slot each fill both channels with four jobs; the cap of one request and *)
(* three attempts make two refusals, by one worker or by both.             *)
(***************************************************************************)
EXTENDS WorkerPool
=============================================================================
