------------------------------- MODULE MCDisk -------------------------------
(* Two submitters and a disk of three blocks. *)
EXTENDS RamDisk

CONSTANTS a, b
=============================================================================
