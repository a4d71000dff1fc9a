------------------------------ MODULE MCAccess ------------------------------
(***************************************************************************)
(* Three programs: a reader of user 1 that asks for SIGIO, a writer of     *)
(* user 2 that runs set-uid to user 1, and a program of user 3 that has    *)
(* the capability and only opens and closes the device.  To the counter    *)
(* they are three programs of any user.                                    *)
(***************************************************************************)
EXTENDS ScullAccess, TLC

CONSTANTS a, b, c

Users     == (a :> 1) @@ (b :> 2) @@ (c :> 3)
Effective == (a :> 1) @@ (b :> 1) @@ (c :> 3)
Roles     == (a :> {"read", "fasync"}) @@ (b :> {"write"}) @@ (c :> {})
=============================================================================
