---------------------------- MODULE MCControlClient ----------------------------
(* Instances of ControlClient for TLC.                                       *)
EXTENDS ControlClient
=============================================================================
