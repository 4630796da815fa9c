----------------------------- MODULE MCSimEngine ----------------------------
(***************************************************************************)
(* Instance of SimEngine for TLC.                                          *)
(***************************************************************************)
EXTENDS SimEngine
=============================================================================
