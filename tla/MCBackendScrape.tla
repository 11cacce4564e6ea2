-------------------------- MODULE MCBackendScrape --------------------------
(* Instances of BackendScrape for TLC.                                     *)
EXTENDS BackendScrape
=============================================================================
