-------------------------------- MODULE MCFin --------------------------------
(***************************************************************************)
(* Instances of the blocking ring: one reader and two writers, and two     *)
(* readers and a writer.                                                   *)
(***************************************************************************)
EXTENDS FinRing, TLC

CONSTANTS a, b, c

OneReader  == (a :> {"read", "signal"}) @@ (b :> {"write", "signal"}) @@ (c :> {"write"})
TwoReaders == (a :> {"read"}) @@ (b :> {"read"}) @@ (c :> {"write"})
=============================================================================
