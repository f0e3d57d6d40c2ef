------------------------------ MODULE MCWidget ------------------------------
(***************************************************************************)
(* The widgets over eight days, from Sunday 4 January 1970.                *)
(***************************************************************************)
EXTENDS Widget
=============================================================================
