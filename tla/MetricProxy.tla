---------------------------- MODULE MetricProxy ----------------------------
(***************************************************************************)
(* What interface.go promises of every exporter: `a context-cancellable    *)
(* scrape of a backend proxy', whose results are metrics and an error.     *)
(* Seen from one caller, with nothing of how the metrics are come by: a    *)
(* call has one answer, metrics that are all there are or an error, and a  *)
(* call whose context is done returns.  Endpoint counts on this;           *)
(* BackendScrape (http and file exporters) and ExecCachingProxy are shown  *)
(* to implement it.                                                        *)
(***************************************************************************)
VARIABLES call,      \* "idle", "scraping", or "metrics" or "error" when it returns
          done       \* is the context of the call done?

callVars == <<call, done>>

CallInit == call = "idle" /\ done = FALSE

Begin == call = "idle" /\ call' = "scraping" /\ done' = FALSE

ContextEnds == call # "idle" /\ ~done /\ done' = TRUE /\ UNCHANGED call

Answer == call = "scraping" /\ call' \in {"metrics", "error"} /\ UNCHANGED done

End == call \in {"metrics", "error"} /\ call' = "idle" /\ UNCHANGED done

CallNext == Begin \/ ContextEnds \/ Answer \/ End

CallSpec == CallInit /\ [][CallNext]_callVars

\* The cancellable part of the promise.
Prompt == (call # "idle" /\ done) ~> call = "idle"
=============================================================================
