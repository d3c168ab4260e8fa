----------------------------- MODULE MCLockOrder -----------------------------
(***************************************************************************)
(* LockOrder for chosen sets of goroutines.                                *)
(***************************************************************************)
EXTENDS LockOrder
==============================================================================
