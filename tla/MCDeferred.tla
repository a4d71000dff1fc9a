----------------------------- MODULE MCDeferred -----------------------------
(***************************************************************************)
(* A process that reads a file whose read ends with kfree and may be       *)
(* signalled, and one that reads the file of time/workqueue.c.             *)
(***************************************************************************)
EXTENDS DeferredProc, TLC

CONSTANTS a, b

Endings == (a :> "kfree") @@ (b :> "destroy")
=============================================================================
