---------------------------- MODULE MCExecProxy ----------------------------
(* Instances of ExecProxy for TLC.                                         *)
EXTENDS ExecProxy
=============================================================================
