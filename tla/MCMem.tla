-------------------------------- MODULE MCMem --------------------------------
(***************************************************************************)
(* Instances of the memory device: two programs, one of which keeps        *)
(* opening the device for writing.                                         *)
(***************************************************************************)
EXTENDS ScullMem, TLC

CONSTANTS a, b

MemUses == (a :> {"open", "write", "signal"}) @@ (b :> {"seek", "read", "write", "signal"})
=============================================================================
