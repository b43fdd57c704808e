---------------------------- MODULE MCSocketChat ----------------------------
(***************************************************************************)
(* The instance of SocketChat that TLC checks.                             *)
(***************************************************************************)
EXTENDS SocketChat
=============================================================================
