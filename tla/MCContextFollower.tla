-------------------------- MODULE MCContextFollower --------------------------
(***************************************************************************)
(* Instances of ContextFollower: a session with a few tabs.                *)
(***************************************************************************)
EXTENDS ContextFollower

CONSTANTS t1, t2, t3
=============================================================================
