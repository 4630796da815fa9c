--------------------------- MODULE MCEventBridge ----------------------------
(***************************************************************************)
(* Instance of EventBridge for TLC.                                        *)
(***************************************************************************)
EXTENDS EventBridge
=============================================================================
