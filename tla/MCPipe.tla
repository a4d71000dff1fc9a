------------------------------- MODULE MCPipe -------------------------------
(***************************************************************************)
(* Instances of the pipe driver.  Who does what is part of the instance:   *)
(* two readers that race for what one writer sends, the stream from one    *)
(* writer to one reader, and programs that use every operation.            *)
(***************************************************************************)
EXTENDS ScullPipe, TLC

CONSTANTS a, b, c

StreamUses == (a :> {"read"}) @@ (b :> {"write"})
TwoReaders == (a :> {"read"}) @@ (b :> {"read"}) @@ (c :> {"write"})
EveryUse   == [p \in Procs |-> {"read", "write", "poll", "fasync", "signal"}]
=============================================================================
