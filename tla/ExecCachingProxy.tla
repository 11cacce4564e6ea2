-------------------------- MODULE ExecCachingProxy --------------------------
(***************************************************************************)
(* execCachingProxy (src/pkg/metricproxy/exec_proxy.go): one `exec_cached' *)
(* exporter.  The execer goroutine runs the script every execInterval and  *)
(* caches the metrics of each run that decodes; a Scrape waits until there *)
(* are any and returns the cached ones.                                    *)
(*                                                                         *)
(* Time is counted in units that pass only when the execer has nothing to  *)
(* do: its own steps take no time, a run takes up to MaxRunTime, or for    *)
(* ever when the script hangs: the code sets no limit.  MaxRunTime and the *)
(* MaxFailures in a row are assumptions about the script.                  *)
(*                                                                         *)
(* A subprocess is killed when its output has been decoded, and nothing is *)
(* asked of it: not whether the signal could be sent, not when it dies,    *)
(* not how it exited.  A `whole' result is one that decoded to its end.    *)
(***************************************************************************)
EXTENDS Naturals

CONSTANTS Scrapers,       \* request goroutines that may be in Scrape at once
          Interval,       \* execInterval
          MaxRunTime,     \* the longest the script's output takes to end
          MaxFailures     \* runs in a row that may fail

ASSUME IntervalAssumption == Interval \in Nat
ASSUME ScriptAssumption == MaxRunTime \in Nat /\ MaxFailures \in Nat

VARIABLES
    execPc,      \* where the execer is
    elapsed,     \* time since lastExec
    proc,        \* the last subprocess: "none", "running", sent the signal and
                 \* "killed", "spared" when that failed, or "dead"
    derr,        \* did decoding its output fail?
    failures,    \* runs in a row that failed
    hung,        \* does the last run never end?
    lastResult,  \* what is cached: "placeholder", "partial" or "whole"
    age,         \* time since the run that lastResult is from was started
    ready,       \* is resultReadyCh closed?
    rdyCh,       \* is the execer's rdyCh not yet nil?
    lastResultMtx, \* does the execer hold the write lock?
    scrapePc,    \* where each request goroutine is in Scrape
    ctxDone,     \* is its context done?
    retMetrics   \* what it read from the cache: "none" when it gave up

execVars == <<execPc, elapsed, proc, derr, failures, hung>>
cacheVars == <<lastResult, age, ready, rdyCh, lastResultMtx>>
scrapeVars == <<scrapePc, ctxDone, retMetrics>>
vars == <<execVars, cacheVars, scrapeVars>>

\* The longest time from one start of the script to the next.
Period == IF Interval < MaxRunTime THEN MaxRunTime ELSE Interval

\* The oldest that cached metrics get: the run after them fails MaxFailures
\* times and then takes its time.
MaxAge == (MaxFailures + 1) * Period + MaxRunTime

\* lastExec is the zero time at first, an interval or more ago.
Init ==
    /\ execPc = "timer"
    /\ elapsed = Period
    /\ proc = "none"
    /\ derr = FALSE
    /\ failures = 0
    /\ hung = FALSE
    /\ lastResult = "placeholder"
    /\ age = 0
    /\ ready = FALSE
    /\ rdyCh = TRUE
    /\ lastResultMtx = FALSE
    /\ scrapePc = [s \in Scrapers |-> "idle"]
    /\ ctxDone = [s \in Scrapers |-> FALSE]
    /\ retMetrics = [s \in Scrapers |-> "none"]

-----------------------------------------------------------------------------
(* Time and the script.                                                    *)

Tick ==
    /\ \/ execPc = "timer" /\ elapsed < Interval
       \/ execPc = "decode" /\ elapsed < MaxRunTime /\ ~hung
    /\ elapsed' = elapsed + 1
    /\ age' = IF ready THEN age + 1 ELSE age
    /\ UNCHANGED <<hung, execPc, proc, derr, failures, lastResult, ready, rdyCh,
                   lastResultMtx, scrapeVars>>

\* The output of a run stops without ending.
ScriptHangs ==
    /\ execPc = "decode" /\ ~hung
    /\ hung' = TRUE
    /\ UNCHANGED <<execPc, elapsed, proc, derr, failures, cacheVars, scrapeVars>>

\* Bound: the age of metrics that are not replaced any more is counted no
\* further than to where they are too old.
StaleTick ==
    /\ hung /\ ready /\ age <= MaxAge
    /\ age' = age + 1
    /\ UNCHANGED <<lastResult, ready, rdyCh, lastResultMtx, execVars, scrapeVars>>

\* The script ends by itself, or a signal that was sent takes effect.
ScriptExit ==
    /\ proc \in {"running", "killed", "spared"}
    /\ proc' = "dead"
    /\ UNCHANGED <<hung, execPc, elapsed, derr, failures, cacheVars, scrapeVars>>

-----------------------------------------------------------------------------
(* execer.                                                                 *)

ExecGoto(from, to) == execPc = from /\ execPc' = to

\* No pipe or no subprocess: try again an interval after this attempt.
StartFails ==
    /\ execPc = "timer"
    /\ elapsed >= Interval
    /\ failures < MaxFailures
    /\ elapsed' = 0
    /\ failures' = failures + 1
    /\ UNCHANGED <<hung, execPc, proc, derr, cacheVars, scrapeVars>>

Start ==
    /\ ExecGoto("timer", "decode")
    /\ elapsed >= Interval
    /\ elapsed' = 0
    /\ proc' = "running"
    /\ UNCHANGED <<hung, derr, failures, cacheVars, scrapeVars>>

\* The output ends or stops to parse; how the script exits is never asked.
DecodeEnds ==
    /\ ExecGoto("decode", "kill")
    /\ ~hung
    /\ derr' \in IF failures < MaxFailures THEN BOOLEAN ELSE {FALSE}
    /\ UNCHANGED <<hung, elapsed, proc, failures, cacheVars, scrapeVars>>

\* SIGKILL is sent and not waited for; that it cannot be sent is only logged.
AfterSignal == IF proc = "running" THEN {"killed", "spared"} ELSE {proc}

\* Mutant: the metrics before the decoding error are published too.
KillKeepsPartial ==
    /\ ExecGoto("kill", "lock")
    /\ proc' \in AfterSignal
    /\ UNCHANGED <<hung, elapsed, derr, failures, cacheVars, scrapeVars>>

\* Mutant: a decoding error returns to the timer before the kill.
KillAfterCheck ==
    /\ execPc = "kill"
    /\ execPc' = IF derr THEN "timer" ELSE "lock"
    /\ IF derr THEN UNCHANGED proc ELSE proc' \in AfterSignal
    /\ failures' = IF derr THEN failures + 1 ELSE failures
    /\ UNCHANGED <<hung, elapsed, derr, cacheVars, scrapeVars>>

Kill ==
    /\ execPc = "kill"
    /\ execPc' = IF derr THEN "timer" ELSE "lock"
    /\ proc' \in AfterSignal
    /\ failures' = IF derr THEN failures + 1 ELSE failures
    /\ UNCHANGED <<hung, elapsed, derr, cacheVars, scrapeVars>>

Store ==
    /\ ExecGoto("lock", "publish")
    /\ lastResultMtx' = TRUE
    /\ lastResult' = IF derr THEN "partial" ELSE "whole"
    /\ age' = elapsed
    /\ failures' = 0
    /\ UNCHANGED <<hung, elapsed, proc, derr, ready, rdyCh, scrapeVars>>

\* Closing a closed channel panics.
CloseReady == IF rdyCh /\ ready THEN ExecGoto("publish", "panicked")
                                ELSE ExecGoto("publish", "timer")

\* Mutant: rdyCh is closed but not set to nil.
PublishAgain ==
    /\ CloseReady
    /\ ready' = TRUE
    /\ lastResultMtx' = FALSE
    /\ UNCHANGED <<hung, elapsed, proc, derr, failures, lastResult, age, rdyCh,
                   scrapeVars>>

\* Mutant: lastExec is the time the run ended.
PublishResetsTimer ==
    /\ CloseReady
    /\ ready' = (ready \/ rdyCh)
    /\ rdyCh' = FALSE
    /\ lastResultMtx' = FALSE
    /\ elapsed' = 0
    /\ UNCHANGED <<hung, proc, derr, failures, lastResult, age, scrapeVars>>

\* Mutant: nobody is told that the first result is there.
PublishSilently ==
    /\ ExecGoto("publish", "timer")
    /\ rdyCh' = FALSE
    /\ lastResultMtx' = FALSE
    /\ UNCHANGED <<hung, elapsed, proc, derr, failures, lastResult, age, ready,
                   scrapeVars>>

Publish ==
    /\ CloseReady
    /\ ready' = (ready \/ rdyCh)
    /\ rdyCh' = FALSE
    /\ lastResultMtx' = FALSE
    /\ UNCHANGED <<hung, elapsed, proc, derr, failures, lastResult, age,
                   scrapeVars>>

-----------------------------------------------------------------------------
(* Scrape.                                                                 *)

ScrapeGoto(s, from, to) ==
    /\ scrapePc[s] = from
    /\ scrapePc' = [scrapePc EXCEPT ![s] = to]

Arrive(s) ==
    /\ ScrapeGoto(s, "idle", "select")
    /\ ctxDone' = [ctxDone EXCEPT ![s] = FALSE]
    /\ UNCHANGED <<retMetrics, execVars, cacheVars>>

Cancel(s) ==
    /\ scrapePc[s] # "idle"
    /\ ~ctxDone[s]
    /\ ctxDone' = [ctxDone EXCEPT ![s] = TRUE]
    /\ UNCHANGED <<scrapePc, retMetrics, execVars, cacheVars>>

\* When both arms of the select are ready, either may be taken.
SeeReady(s) ==
    /\ ScrapeGoto(s, "select", "rlock")
    /\ ready
    /\ UNCHANGED <<ctxDone, retMetrics, execVars, cacheVars>>

\* Mutant: the select waits for the results first.
GiveUpLate(s) ==
    /\ ScrapeGoto(s, "select", "return")
    /\ ready /\ ctxDone[s]
    /\ UNCHANGED <<ctxDone, retMetrics, execVars, cacheVars>>

GiveUp(s) ==
    /\ ScrapeGoto(s, "select", "return")
    /\ ctxDone[s]
    /\ UNCHANGED <<ctxDone, retMetrics, execVars, cacheVars>>

ReadCache(s) ==
    /\ ScrapeGoto(s, "rlock", "return")
    /\ ~lastResultMtx
    /\ retMetrics' = [retMetrics EXCEPT ![s] = lastResult]
    /\ UNCHANGED <<ctxDone, execVars, cacheVars>>

Return(s) ==
    /\ ScrapeGoto(s, "return", "idle")
    /\ retMetrics' = [retMetrics EXCEPT ![s] = "none"]
    /\ UNCHANGED <<ctxDone, execVars, cacheVars>>

-----------------------------------------------------------------------------

ExecerRuns ==
    StartFails \/ Start \/ DecodeEnds \/ Kill \/ Store \/ Publish

ScrapeRuns(s) == SeeReady(s) \/ GiveUp(s) \/ ReadCache(s) \/ Return(s)

Next ==
    \/ Tick \/ StaleTick
    \/ ScriptHangs \/ ScriptExit
    \/ ExecerRuns
    \/ \E s \in Scrapers : Arrive(s) \/ Cancel(s) \/ ScrapeRuns(s)

Spec == Init /\ [][Next]_vars

\* Goroutines that can run do, time passes, and a reader gets the read lock,
\* which the execer holds for two assignments.  Clients owe nothing.
Fairness ==
    /\ WF_vars(Tick)
    /\ WF_vars(ExecerRuns)
    /\ \A s \in Scrapers : SF_vars(ScrapeRuns(s))

FairSpec == Spec /\ Fairness

-----------------------------------------------------------------------------

\* Every variable keeps its type; the execer has not closed rdyCh twice, which
\* would be a panic.
TypeOK ==
    /\ execPc \in {"timer", "decode", "kill", "lock", "publish"}
    /\ elapsed \in 0..Period
    /\ proc \in {"none", "running", "killed", "spared", "dead"}
    /\ derr \in BOOLEAN
    /\ failures \in 0..MaxFailures
    /\ hung \in BOOLEAN
    /\ lastResult \in {"placeholder", "partial", "whole"}
    /\ age \in Nat
    /\ ready \in BOOLEAN
    /\ rdyCh \in BOOLEAN
    /\ lastResultMtx \in BOOLEAN
    /\ scrapePc \in [Scrapers -> {"idle", "select", "rlock", "return"}]
    /\ ctxDone \in [Scrapers -> BOOLEAN]
    /\ retMetrics \in [Scrapers -> {"none", "placeholder", "partial", "whole"}]

\* A scrape never returns the empty list the cache starts with, nor what was
\* decoded before an error: it waits for, and sees, the first whole result.
\* (Whole as far as decoding can tell: how the script exited is never asked.)
WholeResultsOnly ==
    \A s \in Scrapers : retMetrics[s] \notin {"placeholder", "partial"}

\* `Hard kill the script once metric decoding finishes': whatever a run came to,
\* the next one starts no script before this one's has ended or been sent the
\* signal.  It need not be gone by then, as nothing waits for it, so two may
\* run for a moment, but none is left behind that nobody tried to stop.
KilledFirst == [][execPc = "timer" /\ execPc' = "decode" => proc # "running"]_vars

\* Cached metrics are never older than the script's failures and slowness make
\* them: the interval is counted from start to start, also over failed runs.
\* Only a script that hangs makes them older, and then nothing replaces them.
CacheFresh == ready => age <= MaxAge \/ hung

\* A scrape that comes before there is any result gets one, when its client is
\* patient and the script neither hangs nor fails for ever.
FirstScrapeServed ==
    \A s \in Scrapers :
        scrapePc[s] = "select" ~> (scrapePc[s] = "rlock" \/ ctxDone[s] \/ hung)

\* Each scrape keeps the promise of MetricProxy; in particular it returns once
\* its context is done, also while there is no result yet and there never will
\* be one as the script hangs, and what it returns as metrics is whole.
Promise(s) == INSTANCE MetricProxy WITH
    call <- CASE scrapePc[s] = "idle" -> "idle"
              [] scrapePc[s] = "return" ->
                   CASE retMetrics[s] = "whole" -> "metrics"
                     [] retMetrics[s] = "none" -> "error"
                     [] OTHER -> retMetrics[s]
              [] OTHER -> "scraping",
    done <- ctxDone[s]

CallsAnswered ==
    /\ \A s \in Scrapers : Promise(s)!CallInit
    /\ [][\A s \in Scrapers : [Promise(s)!CallNext]_(Promise(s)!callVars)]_vars

ImplementsMetricProxy ==
    /\ CallsAnswered
    /\ \A s \in Scrapers : Promise(s)!Prompt

-----------------------------------------------------------------------------
(* What holds up the execer and the scrapes.                               *)

\* A script whose output stops without ending stops the refresh for good: no
\* step of any goroutine takes the execer on or puts anything else into the
\* cache, and no run follows (exec_proxy.go:282-331, which sets no limit to a
\* run).
HungForGood ==
    [][hung => hung' /\ UNCHANGED <<execPc, lastResult, ready, failures>>]_vars

\* What is cached once is never taken back: every scrape that comes later is
\* answered, with whole metrics, and without waiting for a run.
ReadyForGood == [][ready => ready' /\ lastResult' = "whole"]_vars

ExecerCanMove ==
    CASE execPc = "timer" -> elapsed >= Interval
      [] execPc = "decode" -> ~hung
      [] OTHER -> TRUE

ScrapeCanMove(s) ==
    CASE scrapePc[s] = "select" -> ready \/ ctxDone[s]
      [] scrapePc[s] = "rlock" -> ~lastResultMtx
      [] OTHER -> scrapePc[s] # "idle"

\* A scrape under way waits for one of two things only: for the first result,
\* with its client still there, or for the execer to let go of the cache, and
\* then the execer can.  No scrape waits for another, and the execer for none
\* of them (exec_proxy.go:321-354).
NobodyWaitsInVain ==
    /\ \A s \in Scrapers :
            scrapePc[s] # "idle" /\ ~ScrapeCanMove(s) =>
                \/ scrapePc[s] = "select" /\ ~ready /\ ~ctxDone[s]
                \/ scrapePc[s] = "rlock" /\ execPc = "publish" /\ ExecerCanMove
    /\ ~ExecerCanMove => hung \/ (execPc = "timer" /\ elapsed < Interval)

-----------------------------------------------------------------------------
(* The inductive invariant behind the safety properties.                   *)

\* How far the execer is tells what it holds and what the script may be doing.
ExecerKnows ==
    /\ lastResultMtx <=> execPc = "publish"
    /\ execPc \in {"timer", "lock", "publish"} => proc # "running"
    /\ execPc = "kill" /\ derr => failures < MaxFailures
    /\ execPc = "lock" => ~derr
    /\ execPc \in {"decode", "kill", "lock", "publish"} => elapsed <= MaxRunTime
    /\ hung => execPc = "decode"

\* Nobody looks at the cache before it holds a whole result.
ReadyMeansWhole ==
    /\ ready <=> ~rdyCh
    /\ ready \/ execPc = "publish" => lastResult = "whole"
    /\ \A s \in Scrapers : scrapePc[s] = "rlock" => ready

\* Each failed run since the cached one has added a period to its age.
CacheAged ==
    /\ ready /\ execPc = "timer" => age <= failures * Period + elapsed
    /\ ready /\ execPc \in {"decode", "kill", "lock"} /\ ~hung =>
         age <= (failures + 1) * Period + elapsed
    /\ execPc = "publish" => age = elapsed /\ failures = 0

IInv ==
    /\ TypeOK
    /\ ExecerKnows
    /\ ReadyMeansWhole
    /\ WholeResultsOnly
    /\ CacheAged
=============================================================================
