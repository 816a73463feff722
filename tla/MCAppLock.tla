----------------------------- MODULE MCAppLock -----------------------------
(***************************************************************************)
(* A small instance of AppLock, with room for the grace to run out: a stay *)
(* of two ticks is too long, and the clock has one more.                   *)
(***************************************************************************)
EXTENDS AppLock
=============================================================================
