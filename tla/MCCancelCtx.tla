---------------------------- MODULE MCCancelCtx ----------------------------
(***************************************************************************)
(* CancelCtx for TLC, with the assumption of the specification it          *)
(* implements.                                                             *)
(***************************************************************************)
EXTENDS CancelCtx
=============================================================================
