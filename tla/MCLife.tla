------------------------------- MODULE MCLife -------------------------------
(* Two programs that use the module while it is loaded and unloaded. *)
EXTENDS ModuleLife

CONSTANTS a, b
=============================================================================
