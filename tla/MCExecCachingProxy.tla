------------------------- MODULE MCExecCachingProxy -------------------------
(* Instances of ExecCachingProxy for TLC.                                  *)
EXTENDS ExecCachingProxy
=============================================================================
