-------------------------- MODULE MCRewriteMetrics --------------------------
(* Instances of RewriteMetrics for TLC.                                    *)
EXTENDS RewriteMetrics
=============================================================================
