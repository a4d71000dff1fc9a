-------------------------------- MODULE MCRw --------------------------------
(***************************************************************************)
(* The smallest ring in which a read goes round the end and finds bytes on *)
(* both sides of it; 9 is more than twice its size.                        *)
(***************************************************************************)
EXTENDS RwBlock
=============================================================================
