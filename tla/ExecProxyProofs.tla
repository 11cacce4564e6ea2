-------------------------- MODULE ExecProxyProofs --------------------------
(***************************************************************************)
(* Proofs about ExecProxy for any set of scrapers: its safety invariants,  *)
(* that a wedged exporter stays wedged, and that it implements ScrapeBatch.*)
(***************************************************************************)
EXTENDS ExecProxy, TLAPS

LEMMA InitIInv == Init => IInv
BY ScrapersAssumption
   DEF Init, IInv, TypeOK, LocksHeld, MapMembers, Dispatching, ResultLives,
       NoLostWakeup, NoStrayProcess, RoundState, ScrapePcs, ExecPcs, Live, Exited,
       Results, Free, Execer, None

(* Every step keeps IInv: one step of the proof per action.                *)

LEMMA ScrapeIInv ==
    ASSUME IInv, NEW s \in Scrapers, Arrive(s) \/ Cancel(s) \/ ScrapeRuns(s)
    PROVE  IInv'
<1> USE ScrapersAssumption
    DEF IInv, TypeOK, LocksHeld, MapMembers, Dispatching, ResultLives,
        NoLostWakeup, NoStrayProcess, RoundState, ScrapePcs, ExecPcs, Live, Exited,
        Results, Free, Execer, None, Watcher, Served, ScrapeGoto, Broadcast, scrapeVars, lockVars,
        execVars, roundVars, scriptVars
<1>1. CASE Arrive(s)    BY <1>1 DEF Arrive
<1>2. CASE Cancel(s)    BY <1>2 DEF Cancel
<1>3. CASE LockDrain(s) BY <1>3 DEF LockDrain
<1>4. CASE Register(s)  BY <1>4 DEF Register
<1>5. CASE Notify(s)    BY <1>5 DEF Notify
<1>6. CASE Receive(s)   BY <1>6 DEF Receive
<1>7. CASE GiveUp(s)    BY <1>7 DEF GiveUp
<1>8. CASE Delete(s)    BY <1>8 DEF Delete
<1>9. CASE Signal(s)    BY <1>9 DEF Signal
<1> QED BY <1>1, <1>2, <1>3, <1>4, <1>5, <1>6, <1>7, <1>8, <1>9 DEF ScrapeRuns

LEMMA ExecerIInv ==
    ASSUME IInv, ExecerRuns \/ ReadGarbage
    PROVE  IInv'
<1> USE ScrapersAssumption
    DEF IInv, TypeOK, LocksHeld, MapMembers, Dispatching, ResultLives,
        NoLostWakeup, NoStrayProcess, RoundState, ScrapePcs, ExecPcs, Live, Exited,
        Results, Free, Execer, None, Watcher, Served, ExecGoto, scrapeVars, lockVars, execVars,
        roundVars, scriptVars
<1>1. CASE ExecerSleep  BY <1>1 DEF ExecerSleep
<1>2. CASE StartRound   BY <1>2 DEF StartRound
<1>3. CASE StartFails   BY <1>3 DEF StartFails
<1>4. CASE Start        BY <1>4 DEF Start
<1>5. CASE ReadToEnd    BY <1>5 DEF ReadToEnd
<1>6. CASE ReadGarbage  BY <1>6 DEF ReadGarbage
<1>7. CASE WaitExit     BY <1>7 DEF WaitExit
<1>8. CASE EmitLock     BY <1>8 DEF EmitLock
<1>9. ASSUME NEW s \in Scrapers, EmitNext(s) PROVE IInv'
  BY <1>9 DEF EmitNext
<1>10. CASE EmitSend    BY <1>10 DEF EmitSend
<1>11. CASE EmitDone    BY <1>11 DEF EmitDone
<1>12. CASE DrainLock   BY <1>12 DEF DrainLock
<1>13. CASE AwaitWatcher BY <1>13 DEF AwaitWatcher
<1> QED BY <1>1, <1>2, <1>3, <1>4, <1>5, <1>6, <1>7, <1>8, <1>9, <1>10, <1>11,
           <1>12, <1>13 DEF ExecerRuns

\* The watcher, the watchdog and the script disturb only their own part of the
\* state: the types, the watcher's half of NoLostWakeup and NoStrayProcess.
LEMMA HelperIInv ==
    ASSUME IInv, WatcherStep \/ Kill \/ ScriptStep
    PROVE  IInv'
<1> USE DEF IInv, TypeOK, NoLostWakeup, NoStrayProcess, RoundState, Live, Exited, None
<1>1. UNCHANGED <<scrapeVars, lockVars, execVars>>
  BY DEF WatcherStep, WatcherSleep, WatcherExit, Kill, ScriptStep, ScriptExit,
         ScriptStall, ClosePipe, execVars
<1>2. (LocksHeld /\ MapMembers /\ Dispatching /\ ResultLives)'
  BY <1>1 DEF LocksHeld, MapMembers, Dispatching, ResultLives, Served,
              scrapeVars, lockVars, execVars
<1>3. CASE WatcherSleep
  BY <1>2, <1>3 DEF WatcherSleep, scrapeVars, lockVars, execVars, scriptVars
<1>4. CASE WatcherExit
  BY <1>2, <1>4 DEF WatcherExit, scrapeVars, lockVars, execVars, scriptVars
<1>5. CASE Kill \/ ScriptExit \/ ScriptStall \/ ClosePipe
  <2> USE <1>5 DEF Kill, ScriptExit, ScriptStall, ClosePipe, PipeAfterExit,
                   scrapeVars, lockVars, execVars, roundVars
  <2>1. TypeOK'
    <3>1. CASE Kill       BY <1>1, <3>1
    <3>2. CASE ScriptExit BY <1>1, <3>2
    <3>3. CASE ScriptStall BY <1>1, <3>3
    <3>4. CASE ClosePipe
      <4>1. pipeOpen' \in BOOLEAN /\ UNCHANGED <<proc, watchdog, derr>>
        BY <3>4
      <4> QED BY <1>1, <3>4, <4>1
    <3> QED BY <3>1, <3>2, <3>3, <3>4
  <2>2. NoLostWakeup'
    OBVIOUS
  <2>3. NoStrayProcess'
    OBVIOUS
  <2>4. RoundState'
    <3>1. UNCHANGED <<execPc, watcherPc, cancelled>>
      BY <1>1 DEF execVars
    <3>2. proc = None <=> proc' = None
      OBVIOUS
    <3>3. proc' \in Live => proc \in Live /\ watchdog' = watchdog
      OBVIOUS
    <3> QED BY <3>1, <3>2, <3>3
  <2> QED BY <1>2, <2>1, <2>2, <2>3, <2>4
<1> QED BY <1>3, <1>4, <1>5 DEF WatcherStep, ScriptStep

LEMMA StutterIInv == IInv /\ UNCHANGED vars => IInv'
BY DEF IInv, TypeOK, LocksHeld, MapMembers, Dispatching, ResultLives,
       NoLostWakeup, NoStrayProcess, RoundState, Served, vars, scrapeVars, lockVars,
       execVars, roundVars, scriptVars

LEMMA NextIInv == IInv /\ [Next]_vars => IInv'
<1> SUFFICES ASSUME IInv, [Next]_vars PROVE IInv'
  OBVIOUS
<1>1. ASSUME NEW s \in Scrapers, Arrive(s) \/ Cancel(s) \/ ScrapeRuns(s)
      PROVE  IInv'
  BY <1>1, ScrapeIInv
<1>2. CASE ExecerRuns \/ ReadGarbage BY <1>2, ExecerIInv
<1>3. CASE WatcherStep \/ Kill \/ ScriptStep BY <1>3, HelperIInv
<1>4. CASE UNCHANGED vars BY <1>4, StutterIInv
<1> QED BY <1>1, <1>2, <1>3, <1>4 DEF Next

\* The inductive invariant holds in every reachable state of the exporter: who
\* holds which lock, who is in the map and how far the dispatch is agree.
THEOREM Invariant == Spec => []IInv
BY InitIInv, NextIInv, PTL DEF Spec

-----------------------------------------------------------------------------
(* The safety invariants of the runs.                                      *)

\* Every variable keeps its type, and doExec never returns a nil result.
THEOREM TypeCorrect == Spec => []TypeOK
<1>1. IInv => TypeOK BY DEF IInv
<1> QED BY <1>1, Invariant, PTL

\* Broadcasting after L is released loses no wakeup, neither of the execer
\* waiting for scrapes nor of the watcher waiting for them to leave.
THEOREM WakeupsKept == Spec => []NoLostWakeup
<1>1. IInv => NoLostWakeup BY DEF IInv
<1> QED BY <1>1, Invariant, PTL

\* When the execer waits for its scrapes to drain, each scrape in the map has a
\* result in its channel or is leaving.
THEOREM DrainHoldsServedOnly == Spec => []DrainServed
<1>1. IInv => DrainServed
  BY ScrapersAssumption DEF IInv, Dispatching, DrainServed, None, TypeOK
<1> QED BY <1>1, Invariant, PTL

\* Outside doExec there is no subprocess, kill goroutine or open pipe, so that
\* there is never a second instance of the script.
THEOREM SingleInstance == Spec => []NoStrayProcess
<1>1. IInv => NoStrayProcess BY DEF IInv
<1> QED BY <1>1, Invariant, PTL

-----------------------------------------------------------------------------
(* The two ways to get stuck for good.                                     *)

\* The execer waits for drainMtx with L held, and the scrape that holds it
\* waits for L: neither can move, and nobody else can release either lock.
LEMMA InversionForever == IInv /\ LockInversion /\ [Next]_vars => LockInversion'
<1> SUFFICES ASSUME IInv, [Next]_vars, execPc = "drain",
                    NEW s \in Scrapers, drainMtx = s, scrapePc[s] = "register"
             PROVE  LockInversion'
  BY DEF LockInversion
<1> USE ScrapersAssumption DEF Free, Execer, None
<1>1. condMtx = Execer /\ drainMtx # Free
  BY DEF IInv, LocksHeld
<1>2. \A t \in Scrapers : scrapePc[t] = "notify" => t = s
  BY DEF IInv, LocksHeld
<1>3. scrapePc \in [Scrapers -> ScrapePcs]
  BY DEF IInv, TypeOK
<1>4. UNCHANGED <<execPc, drainMtx>> /\ scrapePc'[s] = scrapePc[s]
  <2>1. ASSUME NEW t \in Scrapers, Arrive(t) \/ Cancel(t) \/ ScrapeRuns(t)
        PROVE  UNCHANGED <<execPc, drainMtx>> /\ scrapePc'[s] = scrapePc[s]
    BY <1>1, <1>2, <1>3, <2>1
       DEF Arrive, Cancel, ScrapeRuns, LockDrain, Register, Notify, Receive,
           GiveUp, Delete, Signal, ScrapeGoto, Broadcast, lockVars, execVars
  <2>2. ~ExecerRuns /\ ~ReadGarbage /\ ~WatcherStep
    BY <1>1 DEF ExecerRuns, ReadGarbage, WatcherStep, ExecGoto, ExecerSleep,
        StartRound, StartFails, Start, ReadToEnd, WaitExit, EmitLock, EmitNext,
        EmitSend, EmitDone, DrainLock, AwaitWatcher, WatcherSleep, WatcherExit
  <2>3. CASE Kill \/ ScriptStep
    BY <2>3 DEF Kill, ScriptStep, ScriptExit, ScriptStall, ClosePipe,
                scrapeVars, lockVars, execVars
  <2>4. CASE UNCHANGED vars
    BY <2>4 DEF vars, scrapeVars, lockVars, execVars
  <2> QED BY <2>1, <2>2, <2>3, <2>4 DEF Next
<1> QED BY <1>4 DEF LockInversion

\* The execer waits, with L held, for room in a channel whose reader waits for L
\* to remove it from the map.
LEMMA SendStuckForever == IInv /\ SendStuck /\ [Next]_vars => SendStuck'
<1> SUFFICES ASSUME IInv, [Next]_vars, execPc = "emit", NEW s \in Scrapers,
                    sending = s, waitCh[s] # None, scrapePc[s] = "delete"
             PROVE  SendStuck'
  BY DEF SendStuck
<1> USE ScrapersAssumption DEF Free, Execer, None
<1>1. condMtx = Execer
  BY DEF IInv, LocksHeld
<1>2. scrapePc \in [Scrapers -> ScrapePcs] /\ waitCh \in [Scrapers -> Results \union {None}]
  BY DEF IInv, TypeOK
<1>3. UNCHANGED <<execPc, sending>> /\ scrapePc'[s] = scrapePc[s] /\ waitCh'[s] = waitCh[s]
  <2>1. ASSUME NEW t \in Scrapers, Arrive(t) \/ Cancel(t) \/ ScrapeRuns(t)
        PROVE  /\ UNCHANGED <<execPc, sending>>
               /\ scrapePc'[s] = scrapePc[s] /\ waitCh'[s] = waitCh[s]
    BY <1>1, <1>2, <2>1
       DEF Arrive, Cancel, ScrapeRuns, LockDrain, Register, Notify, Receive,
           GiveUp, Delete, Signal, ScrapeGoto, Broadcast, lockVars, execVars
  <2>2. ~ExecerRuns /\ ~ReadGarbage /\ ~WatcherStep
    BY <1>1 DEF ExecerRuns, ReadGarbage, WatcherStep, ExecGoto, ExecerSleep,
        StartRound, StartFails, Start, ReadToEnd, WaitExit, EmitLock, EmitNext,
        EmitSend, EmitDone, DrainLock, AwaitWatcher, WatcherSleep, WatcherExit
  <2>3. CASE Kill \/ ScriptStep
    BY <2>3 DEF Kill, ScriptStep, ScriptExit, ScriptStall, ClosePipe,
                scrapeVars, lockVars, execVars
  <2>4. CASE UNCHANGED vars
    BY <2>4 DEF vars, scrapeVars, lockVars, execVars
  <2> QED BY <2>1, <2>2, <2>3, <2>4 DEF Next
<1> QED BY <1>3 DEF SendStuck

\* An exporter that reached a lock inversion or a stuck send never leaves it:
\* no timeout, no client and no script can.
THEOREM NoRecovery == Spec => WedgedForever
<1>1. IInv /\ [Next]_vars => [Wedged => Wedged']_vars
  BY InversionForever, SendStuckForever DEF Wedged
<1> QED BY <1>1, Invariant, PTL DEF Spec, WedgedForever

-----------------------------------------------------------------------------
(* There is no other.                                                      *)

\* Each wedge is a deadlock of the execer and one scrape.
LEMMA WedgeDeadlocks ==
    ASSUME IInv, Wedged
    PROVE  \E D \in SUBSET (Scrapers \union {Execer, Watcher}) : Deadlocked(D)
<1> USE ScrapersAssumption DEF Free, Execer, None, Watcher
<1>1. condMtx = Execer
  BY DEF IInv, LocksHeld, Wedged, LockInversion, SendStuck
<1>2. PICK s \in Scrapers :
        \/ execPc = "drain" /\ drainMtx = s /\ scrapePc[s] = "register"
        \/ execPc = "emit" /\ sending = s /\ waitCh[s] # None /\ scrapePc[s] = "delete"
  BY DEF Wedged, LockInversion, SendStuck
<1>3. s \in BlockedScrapes /\ ScrapeWaitsFor(s) = {Execer}
  BY <1>1, <1>2 DEF BlockedScrapes, ScrapeCanMove, ScrapeWaitsFor
<1>4. ExecerBlocked /\ ExecerWaitsFor = {s}
  BY <1>2 DEF ExecerBlocked, ExecerCanMove, ExecerWaitsFor
<1>5. Deadlocked({s, Execer})
  BY <1>3, <1>4 DEF Deadlocked
<1> QED BY <1>5

\* Whoever can move is in no deadlock, nor is whoever does what wakes others.
LEMMA DeadlockedScrape ==
    ASSUME IInv, NEW D, Deadlocked(D), NEW s \in Scrapers, s \in D
    PROVE  /\ scrapePc[s] \in {"lockDrain", "register", "delete", "select"}
           /\ scrapePc[s] = "select" => waitCh[s] = None
           /\ scrapePc[s] \in {"register", "delete"} => condMtx = Execer
           /\ scrapePc[s] = "lockDrain" => drainMtx # Free /\ drainMtx \in D
           /\ scrapePc[s] # "lockDrain" => Execer \in D
<1>1. s \in BlockedScrapes /\ ScrapeWaitsFor(s) \subseteq D
  BY DEF Deadlocked
<1>2. scrapePc[s] # "idle" /\ ~ScrapeCanMove(s)
  BY <1>1 DEF BlockedScrapes
<1>3. scrapePc[s] \in ScrapePcs /\ condMtx \in {Free, Execer}
  BY DEF IInv, TypeOK
<1> QED BY <1>1, <1>2, <1>3 DEF ScrapePcs, ScrapeCanMove, ScrapeWaitsFor

\* Where the execer is when it is in a deadlock, but for the wedges: it waits for
\* its watcher while L is free.
LEMMA DeadlockedExecer ==
    ASSUME IInv, ~Wedged, NEW D, Deadlocked(D), Execer \in D
    PROVE  execPc = "await" /\ Watcher \in D /\ WatcherBlocked /\ condMtx = Free
<1> USE ScrapersAssumption DEF Free, Execer, None, Watcher
<1>1. ExecerBlocked /\ ExecerWaitsFor \subseteq D /\ execPc \in ExecPcs
  BY DEF Deadlocked, IInv, TypeOK
<1>2. condMtx \in {Free, Execer} /\ (condMtx = Execer <=> execPc \in {"emit", "drain"})
  BY DEF IInv, TypeOK, LocksHeld
<1>3. execPc \in {"asleep", "emit", "drain", "await"}
  BY <1>1, <1>2 DEF ExecerBlocked, ExecerCanMove, ExecPcs
<1>4. execPc # "asleep"
  <2> SUFFICES ASSUME execPc = "asleep" PROVE FALSE
    OBVIOUS
  <2>1. PICK s \in waitingScrapes : scrapePc[s] = "notify"
    BY <1>1 DEF ExecerBlocked, IInv, NoLostWakeup
  <2>2. s \in Scrapers
    BY <2>1 DEF IInv, TypeOK
  <2>3. s \in ExecerWaitsFor
    BY <2>1, <2>2 DEF ExecerWaitsFor, Signalling
  <2> QED BY <1>1, <2>1, <2>2, <2>3, DeadlockedScrape
<1>5. execPc # "emit"
  <2> SUFFICES ASSUME execPc = "emit" PROVE FALSE
    OBVIOUS
  <2>1. sending \in waitingScrapes /\ sending \in Scrapers /\ waitCh[sending] # None
    BY <1>1 DEF ExecerBlocked, ExecerCanMove, IInv, Dispatching, TypeOK
  <2>2. sending \in D
    BY <1>1 DEF ExecerWaitsFor
  <2>3. scrapePc[sending] \in {"notify", "select", "delete"}
    BY <2>1 DEF IInv, MapMembers
  <2>4. scrapePc[sending] = "delete"
    BY <2>1, <2>2, <2>3, DeadlockedScrape
  <2> QED BY <2>1, <2>4 DEF Wedged, SendStuck
<1>6. execPc # "drain"
  <2> SUFFICES ASSUME execPc = "drain" PROVE FALSE
    OBVIOUS
  <2>1. drainMtx \in Scrapers /\ drainMtx \in D
    BY <1>1 DEF ExecerBlocked, ExecerCanMove, ExecerWaitsFor, IInv, TypeOK, LocksHeld
  <2>2. scrapePc[drainMtx] \in {"register", "notify"}
    BY <2>1 DEF IInv, LocksHeld
  <2>3. scrapePc[drainMtx] = "register"
    BY <2>1, <2>2, DeadlockedScrape
  <2> QED BY <2>1, <2>3 DEF Wedged, LockInversion
<1>7. execPc = "await"
  BY <1>3, <1>4, <1>5, <1>6
<1>8. Watcher \in D
  BY <1>1, <1>7 DEF ExecerWaitsFor
<1> QED BY <1>2, <1>7, <1>8 DEF Deadlocked

\* Without the execer there is none: a sleeping watcher, a scrape and the
\* holder of drainMtx all wait for it in the end.
LEMMA DeadlockNeedsExecer ==
    ASSUME IInv, NEW D \in SUBSET (Scrapers \union {Execer, Watcher}), Deadlocked(D)
    PROVE  Execer \in D
<1> SUFFICES ASSUME Execer \notin D PROVE FALSE
  OBVIOUS
<1> USE ScrapersAssumption DEF Free, Execer, None, Watcher
<1>1. ASSUME NEW s \in Scrapers, s \in D PROVE FALSE
  <2>1. scrapePc[s] = "lockDrain" /\ drainMtx # Free /\ drainMtx \in D
    BY <1>1, DeadlockedScrape
  <2>2. drainMtx \in Scrapers
    BY <2>1 DEF IInv, TypeOK
  <2>3. scrapePc[drainMtx] \in {"register", "notify"}
    BY <2>2 DEF IInv, LocksHeld
  <2> QED BY <2>1, <2>2, <2>3, DeadlockedScrape
<1>2. Watcher \in D
  BY <1>1 DEF Deadlocked
<1>3. WatcherBlocked /\ WatcherWaitsFor \subseteq D
  BY <1>2 DEF Deadlocked
<1>4. watcherPc = "asleep"
  BY <1>3 DEF WatcherBlocked, WatcherCanMove, WatcherWaitsFor, IInv, TypeOK
<1>5. waitingScrapes \union Signalling # {}
  BY <1>4 DEF IInv, NoLostWakeup, Signalling
<1>6. waitingScrapes \union Signalling \subseteq Scrapers
  BY DEF IInv, TypeOK, Signalling
<1> QED BY <1>1, <1>3, <1>4, <1>5, <1>6 DEF WatcherWaitsFor

\* The lock inversion and the stuck send are the only ways in which goroutines
\* of an exec exporter wait for nobody but each other (exec_proxy.go, Scrape,
\* execer and the watcher).
THEOREM OnlyWedges == Spec => []DeadlocksAreWedges
<1>1. IInv => DeadlocksAreWedges
  <2> SUFFICES ASSUME IInv, ~Wedged,
                      NEW D \in SUBSET (Scrapers \union {Execer, Watcher}), Deadlocked(D)
               PROVE  FALSE
    BY WedgeDeadlocks DEF DeadlocksAreWedges
  <2> USE ScrapersAssumption DEF Free, Execer, None, Watcher
  <2>1. execPc = "await" /\ WatcherBlocked /\ condMtx = Free /\ Watcher \in D
    BY DeadlockNeedsExecer, DeadlockedExecer
  <2>2. WatcherWaitsFor \subseteq D
    BY <2>1 DEF Deadlocked
  <2>3. watcherPc = "asleep"
    BY <2>1 DEF WatcherBlocked, WatcherCanMove, IInv, TypeOK
  <2>4. PICK s \in waitingScrapes \union Signalling : TRUE
    BY <2>3 DEF IInv, NoLostWakeup, Signalling
  <2>5. s \in Scrapers /\ s \in D
    BY <2>2, <2>3, <2>4 DEF WatcherWaitsFor, IInv, TypeOK, Signalling
  <2>6. /\ scrapePc[s] \notin {"notify", "signal", "delete"}
        /\ scrapePc[s] = "select" => waitCh[s] = None
    BY <2>1, <2>5, DeadlockedScrape
  <2>7. s \in waitingScrapes
    BY <2>4, <2>6 DEF Signalling
  <2>8. scrapePc[s] = "select" /\ waitCh[s] = None
    BY <2>5, <2>6, <2>7 DEF IInv, MapMembers
  <2>9. reply[s] = None
    BY <2>5, <2>8 DEF IInv, MapMembers
  <2> QED BY <2>1, <2>5, <2>7, <2>8, <2>9 DEF IInv, Dispatching, Served
<1> QED BY <1>1, Invariant, PTL

\* Nothing hides an abandoned run from its watcher, and the script's kill
\* goroutine is there for as long as the script (exec_proxy.go, doExec).
THEOREM KillIsComing == Spec => []KillComes
<1>1. IInv => KillComes
  <2> SUFFICES ASSUME IInv, proc \in Live, waitingScrapes = {}
               PROVE  watchdog /\ (cancelled \/ WatcherCanMove \/ Signalling # {})
    BY DEF KillComes
  <2>1. watchdog
    BY DEF IInv, RoundState
  <2>2. execPc \in {"reading", "waiting"}
    BY DEF IInv, NoStrayProcess, Live, None
  <2>3. condMtx = Free
    BY <2>2 DEF IInv, TypeOK, LocksHeld
  <2>4. watcherPc = "exited" => cancelled
    BY <2>2 DEF IInv, RoundState
  <2>5. watcherPc = "asleep" => Signalling # {}
    BY DEF IInv, NoLostWakeup, Signalling
  <2> QED BY <2>1, <2>3, <2>4, <2>5 DEF WatcherCanMove, IInv, TypeOK
<1> QED BY <1>1, Invariant, PTL

\* When the context of a run is cancelled, doExec waits for nothing but the
\* kill, unless an orphan has its pipe (exec_proxy.go, doExec).
THEOREM DoExecNeverStuck == Spec => []DoExecGoesOn
<1>1. IInv => DoExecGoesOn
  BY DEF IInv, TypeOK, RoundState, DoExecGoesOn, ExecerCanMove, OrphanHoldsPipe, None
<1> QED BY <1>1, Invariant, PTL

-----------------------------------------------------------------------------
(* ExecProxy implements ScrapeBatch.                                       *)

LEMMA InitRefines == Init => Batch!BatchInit
BY DEF Init, Batch!BatchInit, None

LEMMA ScrapeRefines ==
    ASSUME IInv, NEW s \in Scrapers, Arrive(s) \/ Cancel(s) \/ ScrapeRuns(s)
    PROVE  Batch!BatchNext \/ UNCHANGED Batch!batchVars
<1> USE DEF ScrapeGoto, Broadcast, lockVars, execVars, Batch!batchVars
<1>1. CASE Arrive(s) \/ Cancel(s) \/ LockDrain(s) \/ GiveUp(s)
  BY <1>1 DEF Arrive, Cancel, LockDrain, GiveUp
<1>2. CASE Notify(s)
  BY <1>2 DEF Notify
<1>3. CASE Register(s)
  <2>1. Batch!Join(s)
    BY <1>3 DEF Register, Batch!Join, IInv, TypeOK, MapMembers
  <2> QED BY <2>1 DEF Batch!BatchNext
<1>4. CASE Receive(s)
  BY <1>4 DEF Receive, IInv, TypeOK, MapMembers
<1>5. CASE Delete(s)
  <2>1. Batch!Leave(s)
    BY <1>5 DEF Delete, Batch!Leave, IInv, TypeOK, MapMembers
  <2> QED BY <2>1 DEF Batch!BatchNext
<1>6. CASE Signal(s)
  BY <1>6 DEF Signal, IInv, TypeOK, MapMembers
<1> QED BY <1>1, <1>2, <1>3, <1>4, <1>5, <1>6 DEF ScrapeRuns

LEMMA ExecerRefines ==
    ASSUME IInv, ExecerRuns \/ ReadGarbage
    PROVE  Batch!BatchNext \/ UNCHANGED Batch!batchVars
<1> USE DEF ExecGoto, scrapeVars, Batch!batchVars
<1>1. CASE ExecerSleep \/ Start \/ ReadToEnd \/ ReadGarbage \/ EmitLock
        \/ EmitDone \/ AwaitWatcher
  BY <1>1 DEF ExecerSleep, Start, ReadToEnd, ReadGarbage, EmitLock, EmitDone,
              AwaitWatcher
<1>2. ASSUME NEW s \in Scrapers, EmitNext(s)
      PROVE  UNCHANGED Batch!batchVars
  BY <1>2 DEF EmitNext
<1>3. CASE StartRound
  <2>1. Batch!StartRun
    BY <1>3 DEF StartRound, Batch!StartRun
  <2> QED BY <2>1 DEF Batch!BatchNext
<1>4. CASE StartFails \/ WaitExit
  <2>1. Batch!FinishRun
    BY <1>4 DEF StartFails, WaitExit, Exited, Results, Batch!FinishRun
  <2> QED BY <2>1 DEF Batch!BatchNext
<1>5. CASE EmitSend
  <2>1. PICK s \in Scrapers : sending = s /\ s \in waitingScrapes
    BY <1>5 DEF EmitSend, IInv, TypeOK, Dispatching
  <2>2. CASE reply[s] # None
    BY <1>5, <2>1, <2>2 DEF EmitSend, IInv, TypeOK
  <2>3. CASE reply[s] = None
    <3>1. Batch!Answer(s)
      BY <1>5, <2>1, <2>3 DEF EmitSend, Batch!Answer, IInv, TypeOK
    <3> QED BY <3>1 DEF Batch!BatchNext
  <2> QED BY <2>2, <2>3
<1>6. CASE DrainLock
  <2>1. \A s \in waitingScrapes : s \in Scrapers /\ Served(s)
    BY <1>6, ScrapersAssumption
       DEF DrainLock, IInv, TypeOK, Dispatching, None
  <2>2. Batch!EndRun
    BY <1>6, <2>1 DEF DrainLock, Served, Batch!EndRun
  <2> QED BY <2>2 DEF Batch!BatchNext
<1> QED BY <1>1, <1>2, <1>3, <1>4, <1>5, <1>6 DEF ExecerRuns

LEMMA HelperRefines ==
    ASSUME WatcherStep \/ Kill \/ ScriptStep \/ UNCHANGED vars
    PROVE  UNCHANGED Batch!batchVars
BY DEF WatcherStep, WatcherSleep, WatcherExit, Kill, ScriptStep, ScriptExit,
       ScriptStall, ClosePipe, vars, scrapeVars, execVars, Batch!batchVars

\* The exec exporter keeps the promise of ScrapeBatch: scrapes that wait share
\* one run at a time, get the outcome of a run that finished while they waited,
\* and a run ends with an answer for everybody then waiting.
THEOREM Refinement == Spec => ImplementsScrapeBatch
<1>1. IInv /\ [Next]_vars => [Batch!BatchNext]_Batch!batchVars
  BY ScrapeRefines, ExecerRefines, HelperRefines DEF Next
<1> QED
  BY <1>1, InitRefines, Invariant, PTL
     DEF Spec, ImplementsScrapeBatch, Batch!BatchSpec
=============================================================================
