---------------------------- MODULE ScrapeBatch ----------------------------
(***************************************************************************)
(* What an exec exporter promises its scrapers, with no lock, channel or   *)
(* subprocess in sight: the scrapes that are waiting share one run of the  *)
(* script, one run happens at a time, an answer is the outcome of a run    *)
(* that was not over when its scrape began to wait, and a run is not over  *)
(* before every scrape then waiting has its answer.  So a scrape that      *)
(* comes when a run has finished, but its outcome has not been handed out  *)
(* yet, is given that outcome too.                                         *)
(* ExecProxy is shown to implement this module.                            *)
(***************************************************************************)
CONSTANTS Scrapers,     \* the scrapes that may be waiting at the same time
          Outcomes,     \* what a run of the script may come to
          NoAnswer      \* not one of Outcomes

VARIABLES joined,       \* the scrapes waiting for a run to finish
          answer,       \* the outcome each waiting scrape was given
          run,          \* "idle", "running" or "finished"
          outcome       \* what the run that is "finished" came to

batchVars == <<joined, answer, run, outcome>>

BatchInit == /\ joined = {}
             /\ answer = [s \in Scrapers |-> NoAnswer]
             /\ run = "idle"
             /\ outcome = NoAnswer

Join(s) == /\ s \notin joined
           /\ joined' = joined \union {s}
           /\ UNCHANGED <<answer, run, outcome>>

\* A scrape leaves with its answer, or without one when it gave up.
Leave(s) == /\ s \in joined
            /\ joined' = joined \ {s}
            /\ answer' = [answer EXCEPT ![s] = NoAnswer]
            /\ UNCHANGED <<run, outcome>>

StartRun == /\ run = "idle"
            /\ joined # {}
            /\ run' = "running"
            /\ UNCHANGED <<joined, answer, outcome>>

FinishRun == /\ run = "running"
             /\ run' = "finished"
             /\ outcome' \in Outcomes
             /\ UNCHANGED <<joined, answer>>

\* The first answer a scrape gets is the one it keeps.
Answer(s) == /\ run = "finished"
             /\ s \in joined
             /\ answer[s] = NoAnswer
             /\ answer' = [answer EXCEPT ![s] = outcome]
             /\ UNCHANGED <<joined, run, outcome>>

EndRun == /\ run = "finished"
          /\ \A s \in joined : answer[s] # NoAnswer
          /\ run' = "idle"
          /\ outcome' = NoAnswer
          /\ UNCHANGED <<joined, answer>>

BatchNext == \/ StartRun \/ FinishRun \/ EndRun
             \/ \E s \in Scrapers : Join(s) \/ Leave(s) \/ Answer(s)

BatchSpec == BatchInit /\ [][BatchNext]_batchVars
=============================================================================
