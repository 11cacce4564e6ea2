----------------------------- MODULE ExecProxy -----------------------------
(***************************************************************************)
(* execProxy (src/pkg/metricproxy/exec_proxy.go): the goroutines that      *)
(* serve one `exec' exporter.                                              *)
(*                                                                         *)
(*   - any number of HTTP request goroutines run Scrape: they register a   *)
(*     one-slot channel in waitingScrapes and wait for a result or for     *)
(*     their context;                                                      *)
(*   - the execer goroutine runs the script for whoever is waiting and     *)
(*     sends every registered channel the result;                          *)
(*   - each round of the execer has a watcher goroutine that cancels the   *)
(*     run's context when nobody is waiting any more, and a watchdog       *)
(*     goroutine that kills the script when that context is cancelled.     *)
(*                                                                         *)
(* Two mutexes order them: drainMtx, and L, the mutex of the condition     *)
(* variable scrapeEventCond (condMtx here).  A critical section of L that  *)
(* cannot block is one action whose guard is that condMtx is free; only    *)
(* the execer keeps L from one action to the next.  Releasing a lock can   *)
(* never be what another goroutine has to come before, so an Unlock is     *)
(* part of the action it follows.                                          *)
(***************************************************************************)
EXTENDS Naturals

CONSTANT Scrapers        \* request goroutines that may be in Scrape at once

Free   == "free"         \* no goroutine holds the mutex
Execer == "execer"       \* the execer holds the mutex
None   == "none"         \* an empty channel, no result, no subprocess
Watcher == "watcher"     \* the watcher of the execer's round

ASSUME ScrapersAssumption == {Free, Execer, None, Watcher} \intersect Scrapers = {}

\* What a run hands to its scrapers: metrics, an error of the script (start,
\* exit status or decoding), or the error of a script the watchdog killed.
Results == {"ok", "failed", "killed"}

VARIABLES
    scrapePc,        \* where each request goroutine is in Scrape
    ctxDone,         \* is the context of the request done?
    waitCh,          \* the content of the one slot of each request's channel
    reply,           \* the result a request received, until it returns
    waitingScrapes,  \* the requests whose channel is in the map
    condMtx,         \* holder of scrapeEventCond.L between two actions
    drainMtx,        \* holder of drainMtx
    execPc,          \* where the execer is
    results,         \* the execer's local variable, None outside dispatch
    toSend,          \* the map entries its dispatch loop has yet to visit
    sending,         \* the request whose channel it is sending to
    done,            \* *done of the current round
    cancelled,       \* was the round's cancelFn called?
    watcherPc,       \* where the round's watcher is
    watchdog,        \* is the run's kill goroutine waiting for its context?
    proc,            \* the subprocess
    pipeOpen,        \* does anything still hold the write end of its stdout?
    derr             \* did decoding fail?

scrapeVars == <<scrapePc, ctxDone, waitCh, reply, waitingScrapes>>
lockVars   == <<condMtx, drainMtx>>
execVars   == <<execPc, results, toSend, sending>>
roundVars  == <<done, cancelled, watcherPc>>
scriptVars == <<watchdog, proc, pipeOpen, derr>>
vars == <<scrapeVars, lockVars, execVars, roundVars, scriptVars>>

ScrapePcs == {"idle", "lockDrain", "register", "notify", "select", "delete",
              "signal"}
ExecPcs == {"acquire", "asleep", "exec", "reading", "waiting", "emitLock",
            "emit", "drain", "await"}
Live    == {"running", "stalled"}    \* stalled: blocked writing to its stdout
Exited  == {"ok", "failed", "killed"}

-----------------------------------------------------------------------------

Init ==
    /\ scrapePc = [s \in Scrapers |-> "idle"]
    /\ ctxDone = [s \in Scrapers |-> FALSE]
    /\ waitCh = [s \in Scrapers |-> None]
    /\ reply = [s \in Scrapers |-> None]
    /\ waitingScrapes = {}
    /\ condMtx = Free
    /\ drainMtx = Free
    /\ execPc = "acquire"
    /\ results = None
    /\ toSend = {}
    /\ sending = None
    /\ done = FALSE
    /\ cancelled = FALSE
    /\ watcherPc = "exited"
    /\ watchdog = FALSE
    /\ proc = None
    /\ pipeOpen = FALSE
    /\ derr = FALSE

\* scrapeEventCond.Broadcast: whoever sleeps in Wait goes on to lock L again.
Broadcast ==
    /\ execPc' = IF execPc = "asleep" THEN "acquire" ELSE execPc
    /\ watcherPc' = IF watcherPc = "asleep" THEN "acquire" ELSE watcherPc

-----------------------------------------------------------------------------
(* Scrape, newScrapeRequest and delScrapeRequest.                          *)

ScrapeGoto(s, from, to) ==
    /\ scrapePc[s] = from
    /\ scrapePc' = [scrapePc EXCEPT ![s] = to]

\* A request reaches the exporter with a context of its own.
Arrive(s) ==
    /\ ScrapeGoto(s, "idle", "lockDrain")
    /\ ctxDone' = [ctxDone EXCEPT ![s] = FALSE]
    /\ UNCHANGED <<waitCh, reply, waitingScrapes, lockVars, execVars,
                   roundVars, scriptVars>>

\* The client disconnects, or the server ends the request.
Cancel(s) ==
    /\ scrapePc[s] # "idle"
    /\ ~ctxDone[s]
    /\ ctxDone' = [ctxDone EXCEPT ![s] = TRUE]
    /\ UNCHANGED <<scrapePc, waitCh, reply, waitingScrapes, lockVars,
                   execVars, roundVars, scriptVars>>

LockDrain(s) ==
    /\ ScrapeGoto(s, "lockDrain", "register")
    /\ drainMtx = Free
    /\ drainMtx' = s
    /\ UNCHANGED <<ctxDone, waitCh, reply, waitingScrapes, condMtx, execVars,
                   roundVars, scriptVars>>

\* Mutant: the map is written without L.
RegisterUnlocked(s) ==
    /\ ScrapeGoto(s, "register", "notify")
    /\ waitCh' = [waitCh EXCEPT ![s] = None]
    /\ waitingScrapes' = waitingScrapes \union {s}
    /\ UNCHANGED <<ctxDone, reply, lockVars, execVars, roundVars, scriptVars>>

Register(s) ==
    /\ ScrapeGoto(s, "register", "notify")
    /\ condMtx = Free
    /\ waitCh' = [waitCh EXCEPT ![s] = None]
    /\ waitingScrapes' = waitingScrapes \union {s}
    /\ UNCHANGED <<ctxDone, reply, lockVars, execVars, roundVars, scriptVars>>

Notify(s) ==
    /\ ScrapeGoto(s, "notify", "select")
    /\ Broadcast
    /\ drainMtx' = Free
    /\ UNCHANGED <<ctxDone, waitCh, reply, waitingScrapes, condMtx, results,
                   toSend, sending, done, cancelled, scriptVars>>

\* The select of Scrape: when both arms are ready either may be taken.
Receive(s) ==
    /\ ScrapeGoto(s, "select", "delete")
    /\ waitCh[s] # None
    /\ reply' = [reply EXCEPT ![s] = waitCh[s]]
    /\ waitCh' = [waitCh EXCEPT ![s] = None]
    /\ UNCHANGED <<ctxDone, waitingScrapes, lockVars, execVars, roundVars,
                   scriptVars>>

GiveUp(s) ==
    /\ ScrapeGoto(s, "select", "delete")
    /\ ctxDone[s]
    /\ UNCHANGED <<ctxDone, waitCh, reply, waitingScrapes, lockVars, execVars,
                   roundVars, scriptVars>>

Delete(s) ==
    /\ ScrapeGoto(s, "delete", "signal")
    /\ condMtx = Free
    /\ waitingScrapes' = waitingScrapes \ {s}
    /\ waitCh' = [waitCh EXCEPT ![s] = None]     \* the channel is garbage now
    /\ UNCHANGED <<ctxDone, reply, lockVars, execVars, roundVars, scriptVars>>

\* Mutant: a request that leaves wakes nobody.
SignalNobody(s) ==
    /\ ScrapeGoto(s, "signal", "idle")
    /\ reply' = [reply EXCEPT ![s] = None]
    /\ UNCHANGED <<ctxDone, waitCh, waitingScrapes, lockVars, execVars,
                   roundVars, scriptVars>>

Signal(s) ==
    /\ ScrapeGoto(s, "signal", "idle")
    /\ Broadcast
    /\ reply' = [reply EXCEPT ![s] = None]
    /\ UNCHANGED <<ctxDone, waitCh, waitingScrapes, lockVars, results, toSend,
                   sending, done, cancelled, scriptVars>>

-----------------------------------------------------------------------------
(* execer, up to the script.                                               *)

ExecGoto(from, to) == execPc = from /\ execPc' = to

ExecerSleep ==
    /\ ExecGoto("acquire", "asleep")
    /\ condMtx = Free
    /\ waitingScrapes = {}
    /\ UNCHANGED <<scrapeVars, lockVars, results, toSend, sending, roundVars,
                   scriptVars>>

\* A round: a fresh context, *done and watcher; the watcher first needs L.
StartRound ==
    /\ ExecGoto("acquire", "exec")
    /\ condMtx = Free
    /\ waitingScrapes # {}
    /\ done' = FALSE
    /\ cancelled' = FALSE
    /\ watcherPc' = "acquire"
    /\ UNCHANGED <<scrapeVars, lockVars, results, toSend, sending, scriptVars>>

(* doExec.                                                                 *)

\* The stdout pipe or the subprocess cannot be made.
StartFails ==
    /\ ExecGoto("exec", "emitLock")
    /\ results' = "failed"
    /\ UNCHANGED <<scrapeVars, lockVars, toSend, sending, roundVars,
                   scriptVars>>

Start ==
    /\ ExecGoto("exec", "reading")
    /\ proc' = "running"
    /\ pipeOpen' = TRUE
    /\ watchdog' = TRUE
    /\ UNCHANGED <<scrapeVars, lockVars, results, toSend, sending, roundVars,
                   derr>>

\* decodeMetrics reads to the end of the output, whose text may not parse...
ReadToEnd ==
    /\ ExecGoto("reading", "waiting")
    /\ ~pipeOpen
    /\ derr' \in BOOLEAN
    /\ UNCHANGED <<scrapeVars, lockVars, results, toSend, sending, roundVars,
                   watchdog, proc, pipeOpen>>

\* ... or stops at the first error, with output still to come.
ReadGarbage ==
    /\ ExecGoto("reading", "waiting")
    /\ pipeOpen
    /\ derr' = TRUE
    /\ UNCHANGED <<scrapeVars, lockVars, results, toSend, sending, roundVars,
                   watchdog, proc, pipeOpen>>

\* Mutant: doExec returns without waiting for the subprocess.
ReturnUnwaited ==
    /\ ExecGoto("waiting", "emitLock")
    /\ results' = IF derr THEN "failed" ELSE "ok"
    /\ derr' = FALSE
    /\ UNCHANGED <<scrapeVars, lockVars, toSend, sending, roundVars, watchdog,
                   proc, pipeOpen>>

\* cmd.Wait reaps the subprocess and closes the pipe, finished ends the
\* watchdog; the error of Wait comes before the error of decoding.
WaitExit ==
    /\ ExecGoto("waiting", "emitLock")
    /\ proc \in Exited
    /\ results' = IF proc = "ok" /\ derr THEN "failed" ELSE proc
    /\ watchdog' = FALSE
    /\ proc' = None
    /\ pipeOpen' = FALSE
    /\ derr' = FALSE
    /\ UNCHANGED <<scrapeVars, lockVars, toSend, sending, roundVars>>

-----------------------------------------------------------------------------
(* execer, dispatching the results.                                        *)

EmitLock ==
    /\ ExecGoto("emitLock", "emit")
    /\ condMtx = Free
    /\ condMtx' = Execer
    /\ toSend' = waitingScrapes
    /\ UNCHANGED <<scrapeVars, drainMtx, results, sending, roundVars,
                   scriptVars>>

\* The loop visits the map in any order ...
EmitNext(s) ==
    /\ execPc = "emit"
    /\ sending = None
    /\ s \in toSend
    /\ sending' = s
    /\ toSend' = toSend \ {s}
    /\ UNCHANGED <<scrapeVars, lockVars, execPc, results, roundVars,
                   scriptVars>>

\* ... and a send to a channel whose slot is taken blocks.
EmitSend ==
    /\ execPc = "emit"
    /\ sending # None
    /\ waitCh[sending] = None
    /\ waitCh' = [waitCh EXCEPT ![sending] = results]
    /\ sending' = None
    /\ UNCHANGED <<scrapePc, ctxDone, reply, waitingScrapes, lockVars, execPc,
                   results, toSend, roundVars, scriptVars>>

\* Mutant: the dispatch loop may be left before its last entry.
EmitDoneEarly ==
    /\ ExecGoto("emit", "drain")
    /\ sending = None
    /\ toSend' = {}
    /\ done' = TRUE
    /\ UNCHANGED <<scrapeVars, lockVars, results, sending, cancelled,
                   watcherPc, scriptVars>>

\* Mutant: L is released before drainMtx is taken.
EmitDoneUnlocks ==
    /\ ExecGoto("emit", "drain")
    /\ sending = None
    /\ toSend = {}
    /\ done' = TRUE
    /\ condMtx' = Free
    /\ UNCHANGED <<scrapeVars, drainMtx, results, toSend, sending, cancelled,
                   watcherPc, scriptVars>>

EmitDone ==
    /\ ExecGoto("emit", "drain")
    /\ sending = None
    /\ toSend = {}
    /\ done' = TRUE
    /\ UNCHANGED <<scrapeVars, lockVars, results, toSend, sending, cancelled,
                   watcherPc, scriptVars>>

\* Taken while L is still held ("Order is important here").
DrainLock ==
    /\ ExecGoto("drain", "await")
    /\ drainMtx = Free
    /\ drainMtx' = Execer
    /\ condMtx' = Free
    /\ results' = None
    /\ UNCHANGED <<scrapeVars, toSend, sending, roundVars, scriptVars>>

\* <-finishedCh: the watcher closes it as its last step.
AwaitWatcher ==
    /\ ExecGoto("await", "acquire")
    /\ watcherPc = "exited"
    /\ drainMtx' = Free
    /\ UNCHANGED <<scrapeVars, condMtx, results, toSend, sending, roundVars,
                   scriptVars>>

-----------------------------------------------------------------------------
(* The round's watcher and the run's watchdog.                             *)

WatcherSleep ==
    /\ watcherPc = "acquire"
    /\ condMtx = Free
    /\ waitingScrapes # {}
    /\ ~done
    /\ watcherPc' = "asleep"
    /\ UNCHANGED <<scrapeVars, lockVars, execVars, done, cancelled, scriptVars>>

WatcherExit ==
    /\ watcherPc = "acquire"
    /\ condMtx = Free
    /\ waitingScrapes = {} \/ done
    /\ cancelled' = TRUE
    /\ watcherPc' = "exited"
    /\ UNCHANGED <<scrapeVars, lockVars, execVars, done, scriptVars>>

\* Mutant: the watchdog is gone before the script can be killed.
KillNothing ==
    /\ watchdog
    /\ cancelled
    /\ watchdog' = FALSE
    /\ UNCHANGED <<scrapeVars, lockVars, execVars, roundVars, proc, pipeOpen,
                   derr>>

\* What is left of the pipe when the subprocess is gone: a child of the script
\* may hold a copy of its write end.
PipeAfterExit == {FALSE, pipeOpen}

\* Process.Kill does nothing to a process that has already exited.
Kill ==
    /\ watchdog
    /\ cancelled
    /\ watchdog' = FALSE
    /\ \/ /\ proc \in Live
          /\ proc' = "killed"
          /\ pipeOpen' \in PipeAfterExit
       \/ /\ proc \notin Live
          /\ UNCHANGED <<proc, pipeOpen>>
    /\ UNCHANGED <<scrapeVars, lockVars, execVars, roundVars, derr>>

-----------------------------------------------------------------------------
(* The script: a process of its own, free to do any of this at any time.   *)

ScriptExit ==
    /\ proc = "running"
    /\ proc' \in {"ok", "failed"}
    /\ pipeOpen' \in PipeAfterExit
    /\ UNCHANGED <<scrapeVars, lockVars, execVars, roundVars, watchdog, derr>>

\* It writes more than the pipe holds after the decoder stopped reading.
ScriptStall ==
    /\ proc = "running"
    /\ execPc = "waiting"
    /\ pipeOpen
    /\ proc' = "stalled"
    /\ UNCHANGED <<scrapeVars, lockVars, execVars, roundVars, watchdog,
                   pipeOpen, derr>>

\* The last copy of its stdout is closed.
ClosePipe ==
    /\ pipeOpen
    /\ proc # "stalled"
    /\ pipeOpen' = FALSE
    /\ UNCHANGED <<scrapeVars, lockVars, execVars, roundVars, watchdog, proc,
                   derr>>

-----------------------------------------------------------------------------

\* The steps a goroutine takes of its own accord.
ScrapeRuns(s) ==
    \/ LockDrain(s) \/ Register(s) \/ Notify(s)
    \/ Receive(s) \/ GiveUp(s) \/ Delete(s) \/ Signal(s)

ExecerRuns ==
    \/ ExecerSleep \/ StartRound \/ StartFails \/ Start \/ ReadToEnd
    \/ WaitExit \/ EmitLock \/ EmitSend \/ EmitDone \/ DrainLock
    \/ AwaitWatcher
    \/ \E s \in Scrapers : EmitNext(s)

WatcherStep == WatcherSleep \/ WatcherExit

ScriptStep == ScriptExit \/ ScriptStall \/ ClosePipe

Next ==
    \/ \E s \in Scrapers : Arrive(s) \/ Cancel(s) \/ ScrapeRuns(s)
    \/ ExecerRuns
    \/ ReadGarbage
    \/ WatcherStep
    \/ Kill
    \/ ScriptStep

Spec == Init /\ [][Next]_vars

\* The Go scheduler runs every goroutine that can run, and a sync.Mutex in
\* starvation mode is handed to whoever waits longest: a request that needs a
\* lock which is free again and again gets it.  A goroutine is at one place at
\* a time, so fairness for the disjunction of its actions is fairness for each.
\* Nothing is assumed of the clients (Arrive, Cancel), of the script
\* (ScriptStep) or of what it writes (ReadGarbage).
Fairness ==
    /\ \A s \in Scrapers : SF_vars(ScrapeRuns(s))
    /\ WF_vars(ExecerRuns)
    /\ WF_vars(WatcherStep)
    /\ WF_vars(Kill)

FairSpec == Spec /\ Fairness

-----------------------------------------------------------------------------
(* Safety.                                                                 *)

\* Every variable keeps its type; a result on its way is never nil.
TypeOK ==
    /\ scrapePc \in [Scrapers -> ScrapePcs]
    /\ ctxDone \in [Scrapers -> BOOLEAN]
    /\ waitCh \in [Scrapers -> Results \union {None}]
    /\ reply \in [Scrapers -> Results \union {None}]
    /\ waitingScrapes \in SUBSET Scrapers
    /\ condMtx \in {Free, Execer}
    /\ drainMtx \in Scrapers \union {Free, Execer}
    /\ execPc \in ExecPcs
    /\ results \in Results \union {None}
    /\ toSend \in SUBSET Scrapers
    /\ sending \in Scrapers \union {None}
    /\ done \in BOOLEAN
    /\ cancelled \in BOOLEAN
    /\ watcherPc \in {"acquire", "asleep", "exited"}
    /\ watchdog \in BOOLEAN
    /\ proc \in Live \union Exited \union {None}
    /\ pipeOpen \in BOOLEAN
    /\ derr \in BOOLEAN

\* No wakeup is lost although Broadcast is called after L is released: when the
\* execer sleeps, whoever is in the map has its Broadcast still to come, and
\* when the watcher sleeps, somebody is in the map or the last one to leave has
\* its Broadcast still to come.
NoLostWakeup ==
    /\ execPc = "asleep" =>
         \A s \in waitingScrapes : scrapePc[s] = "notify"
    /\ watcherPc = "asleep" =>
         waitingScrapes # {} \/ \E s \in Scrapers : scrapePc[s] = "signal"

\* drainMtx does what its comment says: while the execer waits for the scrapes
\* it served to drain, the map holds nobody who came too late for the results.
Served(s) == waitCh[s] # None \/ reply[s] # None
DrainServed == execPc = "await" => \A s \in waitingScrapes : Served(s)

\* No subprocess, kill goroutine or open pipe outlives the doExec it belongs
\* to, so that a new round never starts a second instance of the script.
NoStrayProcess ==
    execPc \notin {"reading", "waiting"} =>
        proc = None /\ ~watchdog /\ ~pipeOpen

\* Two ways to get stuck.  The execer takes drainMtx while it holds L, a new
\* scrape takes L while it holds drainMtx ...
LockInversion ==
    execPc = "drain" /\ \E s \in Scrapers : drainMtx = s /\ scrapePc[s] = "register"
\* ... and a channel that was filled in an earlier round is sent to again,
\* with L held, when its reader has already decided to leave.
SendStuck ==
    execPc = "emit" /\ \E s \in Scrapers :
        sending = s /\ waitCh[s] # None /\ scrapePc[s] = "delete"
Wedged == LockInversion \/ SendStuck

\* Neither can be recovered from: nobody times out, and no client that
\* disconnects, script that ends or new scrape helps.
WedgedForever == [][Wedged => Wedged']_vars

\* What each goroutine that is about to do something can do at once: take a lock
\* that is free, send to or receive from a channel that is ready.
ScrapeCanMove(s) ==
    \/ scrapePc[s] \in {"notify", "signal"}
    \/ scrapePc[s] = "lockDrain" /\ drainMtx = Free
    \/ scrapePc[s] \in {"register", "delete"} /\ condMtx = Free
    \/ scrapePc[s] = "select" /\ (waitCh[s] # None \/ ctxDone[s])

ExecerCanMove ==
    \/ execPc \in {"acquire", "emitLock"} /\ condMtx = Free
    \/ execPc = "exec"
    \/ execPc = "reading" /\ ~pipeOpen
    \/ execPc = "waiting" /\ proc \in Exited
    \/ execPc = "emit" /\ (sending = None \/ waitCh[sending] = None)
    \/ execPc = "drain" /\ drainMtx = Free
    \/ execPc = "await" /\ watcherPc = "exited"

WatcherCanMove == watcherPc = "acquire" /\ condMtx = Free

\* Those that wait for another goroutine.  In doExec the execer waits for the
\* script, and while the map is empty it sleeps because there is nothing to do.
BlockedScrapes == {s \in Scrapers : scrapePc[s] # "idle" /\ ~ScrapeCanMove(s)}
ExecerBlocked ==
    /\ ~ExecerCanMove
    /\ execPc \notin {"reading", "waiting"}
    /\ execPc = "asleep" => waitingScrapes # {}
WatcherBlocked == watcherPc # "exited" /\ ~WatcherCanMove

\* Whom they wait for: the holder of the lock, the other end of the channel, or
\* those with a Broadcast to come; of several, one is enough.
Signalling == {s \in Scrapers : scrapePc[s] \in {"notify", "signal"}}
ScrapeWaitsFor(s) == IF scrapePc[s] = "lockDrain" THEN {drainMtx} ELSE {Execer}
ExecerWaitsFor ==
    CASE execPc = "asleep" -> Signalling
      [] execPc = "emit" -> {sending}
      [] execPc = "drain" -> {drainMtx}
      [] execPc = "await" -> {Watcher}
      [] OTHER -> {condMtx}
WatcherWaitsFor ==
    IF watcherPc = "acquire" THEN {condMtx} ELSE waitingScrapes \union Signalling

\* Goroutines that wait for nobody but each other.
Deadlocked(D) ==
    /\ D # {}
    /\ D \intersect Scrapers \subseteq BlockedScrapes
    /\ \A s \in D \intersect Scrapers : ScrapeWaitsFor(s) \subseteq D
    /\ Execer \in D => ExecerBlocked /\ ExecerWaitsFor \subseteq D
    /\ Watcher \in D => WatcherBlocked /\ WatcherWaitsFor \subseteq D

\* The two wedges are the deadlocks of the exporter: no other goroutines ever
\* wait for nobody but each other.
DeadlocksAreWedges ==
    Wedged <=> \E D \in SUBSET (Scrapers \union {Execer, Watcher}) : Deadlocked(D)

\* A script nobody waits for any more has its end coming: it can be killed, or
\* whoever has to see that it is abandoned is awake or about to be woken.
KillComes ==
    proc \in Live /\ waitingScrapes = {} =>
        watchdog /\ (cancelled \/ WatcherCanMove \/ Signalling # {})

\* A doExec whose context is cancelled can go on, or kill its script and then
\* go on; unless a process the script left behind keeps its stdout open.
OrphanHoldsPipe == execPc = "reading" /\ proc \in Exited /\ pipeOpen
DoExecGoesOn ==
    execPc \in {"exec", "reading", "waiting"} /\ cancelled =>
        ExecerCanMove \/ (watchdog /\ proc \in Live) \/ OrphanHoldsPipe

\* The promise of ScrapeBatch.  A run is from the round's start to the result
\* of doExec, its dispatch lasts until drainMtx is taken; the answer of a scrape
\* is the result it received, or the one in its channel.
Batch == INSTANCE ScrapeBatch WITH
    Outcomes <- Results,
    NoAnswer <- None,
    joined   <- waitingScrapes,
    answer   <- [s \in Scrapers |->
                   IF s \notin waitingScrapes THEN None
                   ELSE IF reply[s] # None THEN reply[s] ELSE waitCh[s]],
    run      <- IF execPc \in {"exec", "reading", "waiting"} THEN "running"
                ELSE IF execPc \in {"emitLock", "emit", "drain"} THEN "finished"
                ELSE "idle",
    outcome  <- results

ImplementsScrapeBatch == Batch!BatchSpec

-----------------------------------------------------------------------------
(* The inductive invariant behind the safety properties.                   *)

\* Each lock is held by whoever is between its Lock and its Unlock.
LocksHeld ==
    /\ condMtx = Execer <=> execPc \in {"emit", "drain"}
    /\ drainMtx = Execer <=> execPc = "await"
    /\ \A s \in Scrapers :
         drainMtx = s <=> scrapePc[s] \in {"register", "notify"}

\* The map holds exactly the requests between Register and Delete; only their
\* channels hold anything, and only a request on its way out has a reply.
MapMembers ==
    \A s \in Scrapers :
        /\ s \in waitingScrapes <=> scrapePc[s] \in {"notify", "select", "delete"}
        /\ waitCh[s] # None => s \in waitingScrapes
        /\ reply[s] # None => scrapePc[s] \in {"delete", "signal"}

\* From the moment L is taken, whoever is in the map is still to be visited,
\* is being sent to, or is served.
Dispatching ==
    /\ execPc # "emit" => toSend = {} /\ sending = None
    /\ toSend \subseteq waitingScrapes
    /\ sending # None => sending \in waitingScrapes
    /\ execPc \in {"emit", "drain", "await"} =>
         \A s \in waitingScrapes : s \in toSend \/ s = sending \/ Served(s)

\* The result of doExec exists from its return to the end of the dispatch.
ResultLives == results # None <=> execPc \in {"emitLock", "emit", "drain"}

\* A round has one watcher, which exits when it cancels the context; a run has
\* its subprocess, and its kill goroutine until that is dead.
RoundState ==
    /\ execPc \in {"acquire", "asleep"} => watcherPc = "exited"
    /\ execPc \notin {"acquire", "asleep"} => (watcherPc = "exited" <=> cancelled)
    /\ execPc \in {"reading", "waiting"} => proc # None
    /\ proc \in Live => watchdog

IInv ==
    /\ TypeOK
    /\ LocksHeld
    /\ MapMembers
    /\ Dispatching
    /\ ResultLives
    /\ NoLostWakeup
    /\ NoStrayProcess
    /\ RoundState

-----------------------------------------------------------------------------
(* Liveness, under FairSpec.                                               *)

\* A scrape whose context is done returns, whatever the script does, unless
\* the exporter is wedged.
CancelledReturnsOrWedged ==
    \A s \in Scrapers :
        (scrapePc[s] # "idle" /\ ctxDone[s]) ~> (scrapePc[s] = "idle" \/ Wedged)

\* A script everybody gave up on is killed, unless somebody new comes first.
AbandonedRunKilled ==
    (proc \in Live /\ waitingScrapes = {}) ~> (proc \notin Live \/ waitingScrapes # {})

\* Dispatch and drain come to an end: the execer waits for its watcher, which
\* waits for a scrape to leave, which may wait for the execer.
RoundEnds == (execPc = "emit") ~> (execPc = "acquire" \/ Wedged)

\* doExec returns once its context is cancelled, unless a process the script
\* left behind keeps its stdout open.
DoExecReturnsOrOrphan ==
    (execPc \in {"reading", "waiting"} /\ cancelled)
        ~> (execPc \notin {"reading", "waiting"} \/ OrphanHoldsPipe)

-----------------------------------------------------------------------------
(* What comments and tests say of the code, and its runs refute.           *)

\* interface.go: a MetricProxy is a `context-cancellable scrape'.
CancelledReturns ==
    \A s \in Scrapers :
        (scrapePc[s] # "idle" /\ ctxDone[s]) ~> (scrapePc[s] = "idle")

\* newScrapeRequest: `use buffered channel to avoid blocking when scrapers
\* would like to exit'.
NeverSendStuck == ~SendStuck

\* TestExecProxyQueuesCorrectly: a scrape that is alive sees no error because
\* others were cancelled; only a scrape that gave up may be told of a kill.
KillSparesTheLiving == \A s \in Scrapers : reply[s] = "killed" => ctxDone[s]
=============================================================================
