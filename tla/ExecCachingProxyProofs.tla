----------------------- MODULE ExecCachingProxyProofs -----------------------
(***************************************************************************)
(* Proofs about ExecCachingProxy for any scrapers, interval, run time and  *)
(* number of failures in a row.                                            *)
(***************************************************************************)
EXTENDS ExecCachingProxy, TLAPS

\* A period is as long as the interval and as a run.
LEMMA PeriodBounds ==
    /\ Period \in Nat
    /\ Interval <= Period
    /\ MaxRunTime <= Period
BY IntervalAssumption, ScriptAssumption DEF Period

\* One more failed run adds one more period.
LEMMA OnePeriodMore ==
    ASSUME NEW n \in Nat
    PROVE  /\ n * Period \in Nat
           /\ (n + 1) * Period = n * Period + Period
BY PeriodBounds

\* After a success the age is the time since lastExec.
LEMMA NoPeriods ==
    ASSUME NEW e \in Nat
    PROVE  e <= 0 * Period + e
BY PeriodBounds

LEMMA PeriodsMonotone ==
    ASSUME NEW m \in Nat, NEW n \in Nat, m <= n
    PROVE  m * Period <= n * Period
BY PeriodBounds

LEMMA InitIInv == Init => IInv
<1> SUFFICES ASSUME Init PROVE IInv
  OBVIOUS
<1> USE DEF Init
<1>1. TypeOK
  <2>1. elapsed \in 0..Period /\ failures \in 0..MaxFailures /\ age \in Nat
    BY PeriodBounds, ScriptAssumption
  <2> QED BY <2>1 DEF TypeOK
<1>2. ExecerKnows /\ ReadyMeansWhole /\ WholeResultsOnly /\ CacheAged
  BY DEF ExecerKnows, ReadyMeansWhole, WholeResultsOnly, CacheAged
<1> QED BY <1>1, <1>2 DEF IInv

-----------------------------------------------------------------------------
(* Every step keeps IInv.                                                  *)

LEMMA ScrapeIInv ==
    ASSUME IInv, NEW s \in Scrapers, Arrive(s) \/ Cancel(s) \/ ScrapeRuns(s)
    PROVE  IInv'
<1> USE DEF IInv, ScrapeGoto, execVars, cacheVars
<1>1. UNCHANGED <<execVars, cacheVars>>
  BY DEF Arrive, Cancel, ScrapeRuns, SeeReady, GiveUp, ReadCache, Return
<1>2. ExecerKnows' /\ CacheAged'
  BY <1>1 DEF ExecerKnows, CacheAged
<1>3. TypeOK' /\ ReadyMeansWhole' /\ WholeResultsOnly'
  <2> USE DEF TypeOK, ReadyMeansWhole, WholeResultsOnly
  <2>1. CASE Arrive(s)    BY <2>1 DEF Arrive
  <2>2. CASE Cancel(s)    BY <2>2 DEF Cancel
  <2>3. CASE SeeReady(s)  BY <2>3 DEF SeeReady
  <2>4. CASE GiveUp(s)    BY <2>4 DEF GiveUp
  <2>5. CASE ReadCache(s) BY <2>5 DEF ReadCache
  <2>6. CASE Return(s)    BY <2>6 DEF Return
  <2> QED BY <2>1, <2>2, <2>3, <2>4, <2>5, <2>6 DEF ScrapeRuns
<1> QED BY <1>2, <1>3

LEMMA ExecerIInv ==
    ASSUME IInv, Tick \/ StaleTick \/ ScriptHangs \/ ScriptExit \/ ExecerRuns
    PROVE  IInv'
<1> USE PeriodBounds, IntervalAssumption, ScriptAssumption
    DEF IInv, TypeOK, ExecerKnows, ReadyMeansWhole, WholeResultsOnly, CacheAged,
        ExecGoto, execVars, cacheVars, scrapeVars
<1>0. /\ failures * Period \in Nat
      /\ (failures + 1) * Period = failures * Period + Period
      /\ ((failures + 1) + 1) * Period = (failures + 1) * Period + Period
  BY OnePeriodMore
<1>1. CASE Tick       BY <1>0, <1>1 DEF Tick
<1>2. CASE ScriptExit BY <1>2 DEF ScriptExit
<1>9. CASE StaleTick  BY <1>9 DEF StaleTick
<1>10. CASE ScriptHangs BY <1>10 DEF ScriptHangs
<1>3. CASE StartFails
  <2>1. (failures + 1) * Period = failures' * Period
    BY <1>3 DEF StartFails
  <2>2. elapsed <= Period
    OBVIOUS
  <2> QED BY <1>0, <1>3, <2>1, <2>2 DEF StartFails
<1>4. CASE Start      BY <1>0, <1>4 DEF Start
<1>5. CASE DecodeEnds BY <1>5 DEF DecodeEnds
<1>6. CASE Kill       BY <1>6 DEF Kill, AfterSignal
<1>7. CASE Store      BY <1>7 DEF Store
<1>8. CASE Publish
  <2>1. elapsed' \in Nat /\ failures' = 0 /\ age' = elapsed'
    BY <1>8 DEF Publish, CloseReady
  <2>2. execPc = "publish" /\ execPc' = "timer"
    BY <1>8 DEF Publish, CloseReady
  <2>3. CacheAged'
    BY <2>1, <2>2, NoPeriods
  <2>4. TypeOK' /\ ExecerKnows' /\ ReadyMeansWhole' /\ WholeResultsOnly'
    BY <1>8, <2>2 DEF Publish
  <2> QED BY <2>3, <2>4
<1> QED BY <1>1, <1>2, <1>3, <1>4, <1>5, <1>6, <1>7, <1>8, <1>9, <1>10
    DEF ExecerRuns

LEMMA NextIInv == IInv /\ [Next]_vars => IInv'
<1> SUFFICES ASSUME IInv, [Next]_vars PROVE IInv'
  OBVIOUS
<1>1. ASSUME NEW s \in Scrapers, Arrive(s) \/ Cancel(s) \/ ScrapeRuns(s)
      PROVE  IInv'
  BY <1>1, ScrapeIInv
<1>2. CASE Tick \/ StaleTick \/ ScriptHangs \/ ScriptExit \/ ExecerRuns
  BY <1>2, ExecerIInv
<1>3. CASE UNCHANGED vars
  BY <1>3 DEF vars, execVars, cacheVars, scrapeVars, IInv, TypeOK, ExecerKnows,
              ReadyMeansWhole, WholeResultsOnly, CacheAged
<1> QED BY <1>1, <1>2, <1>3 DEF Next

\* The inductive invariant: how far the execer is, the readiness of the cache
\* and the age of what it holds agree.
THEOREM Invariant == Spec => []IInv
BY InitIInv, NextIInv, PTL DEF Spec

-----------------------------------------------------------------------------
(* The properties of the run.                                              *)

\* Every variable keeps its type, and rdyCh is closed once.
THEOREM TypeCorrect == Spec => []TypeOK
<1>1. IInv => TypeOK BY DEF IInv
<1> QED BY <1>1, Invariant, PTL

\* No scrape returns the empty placeholder or the part of an output that
\* decoded before an error.
THEOREM WholeResults == Spec => []WholeResultsOnly
<1>1. IInv => WholeResultsOnly BY DEF IInv
<1> QED BY <1>1, Invariant, PTL

\* No run starts while the script of one before it was neither ended nor sent
\* SIGKILL, also where decoding failed (exec_proxy.go:310-320).
THEOREM NoneLeftUnkilled == Spec => KilledFirst
<1>1. IInv => [execPc = "timer" /\ execPc' = "decode" => proc # "running"]_vars
  BY DEF IInv, ExecerKnows
<1> QED BY <1>1, Invariant, PTL DEF KilledFirst

\* Cached metrics are at most (MaxFailures + 1) * Period + MaxRunTime old,
\* whatever the interval, the run time and the number of failures are, unless
\* the script hangs.
THEOREM Freshness == Spec => []CacheFresh
<1>1. IInv => CacheFresh
  <2> SUFFICES ASSUME IInv, ready, ~hung PROVE age <= MaxAge
    BY DEF CacheFresh
  <2> USE PeriodBounds, ScriptAssumption DEF IInv, TypeOK, CacheAged, ExecerKnows, MaxAge
  <2>1. /\ failures * Period \in Nat
        /\ (failures + 1) * Period = failures * Period + Period
        /\ MaxFailures * Period \in Nat
        /\ (MaxFailures + 1) * Period = MaxFailures * Period + Period
    BY OnePeriodMore
  <2>2. failures * Period <= MaxFailures * Period
    BY PeriodsMonotone
  <2>3. CASE execPc = "timer"
    BY <2>1, <2>2, <2>3
  <2>4. CASE execPc \in {"decode", "kill", "lock"}
    BY <2>1, <2>2, <2>4
  <2>5. CASE execPc = "publish"
    BY <2>1, <2>5
  <2> QED BY <2>3, <2>4, <2>5
<1> QED BY <1>1, Invariant, PTL

-----------------------------------------------------------------------------
(* What holds up the execer and the scrapes.                               *)

\* A script that hangs stops the refresh for good, whatever the other
\* goroutines do: what was cached is served from then on, or nothing ever.
THEOREM HangStopsRefresh == Spec => HungForGood
<1>1. IInv /\ [Next]_vars =>
        [hung => hung' /\ UNCHANGED <<execPc, lastResult, ready, failures>>]_vars
  <2> SUFFICES ASSUME IInv, Next, hung
               PROVE  hung' /\ UNCHANGED <<execPc, lastResult, ready, failures>>
    OBVIOUS
  <2>1. execPc = "decode"
    BY DEF IInv, ExecerKnows
  <2> USE DEF execVars, cacheVars
  <2>2. CASE Tick \/ StaleTick \/ ScriptHangs \/ ScriptExit
    BY <2>1, <2>2 DEF Tick, StaleTick, ScriptHangs, ScriptExit
  <2>3. ~ExecerRuns
    BY <2>1 DEF ExecerRuns, StartFails, Start, DecodeEnds, Kill, Store, Publish,
                CloseReady, ExecGoto
  <2>4. ASSUME NEW s \in Scrapers, Arrive(s) \/ Cancel(s) \/ ScrapeRuns(s)
        PROVE  UNCHANGED <<execVars, cacheVars>>
    BY <2>4 DEF Arrive, Cancel, ScrapeRuns, SeeReady, GiveUp, ReadCache, Return
  <2> QED BY <2>2, <2>3, <2>4 DEF Next
<1> QED BY <1>1, Invariant, PTL DEF Spec, HungForGood

\* Once there is a result there always is, and a whole one.
THEOREM ResultStays == Spec => ReadyForGood
<1>1. IInv /\ IInv' /\ [Next]_vars => [ready => ready' /\ lastResult' = "whole"]_vars
  <2> SUFFICES ASSUME IInv', Next, ready PROVE ready' /\ lastResult' = "whole"
    OBVIOUS
  <2>1. ready'
    <3> USE DEF execVars, cacheVars
    <3>1. CASE Tick \/ StaleTick \/ ScriptHangs \/ ScriptExit
      BY <3>1 DEF Tick, StaleTick, ScriptHangs, ScriptExit
    <3>2. CASE ExecerRuns
      BY <3>2 DEF ExecerRuns, StartFails, Start, DecodeEnds, Kill, Store, Publish
    <3>3. ASSUME NEW s \in Scrapers, Arrive(s) \/ Cancel(s) \/ ScrapeRuns(s)
          PROVE  UNCHANGED cacheVars
      BY <3>3 DEF Arrive, Cancel, ScrapeRuns, SeeReady, GiveUp, ReadCache, Return
    <3> QED BY <3>1, <3>2, <3>3 DEF Next
  <2> QED BY <2>1 DEF IInv, ReadyMeansWhole
<1> QED BY <1>1, Invariant, PTL DEF Spec, ReadyForGood

\* A scrape waits for the first result, with its client still there, or for
\* two assignments of the execer; the execer waits for the time or the script.
THEOREM NoVainWaits == Spec => []NobodyWaitsInVain
<1>1. IInv => NobodyWaitsInVain
  <2> SUFFICES ASSUME IInv PROVE NobodyWaitsInVain
    OBVIOUS
  <2> USE DEF IInv, TypeOK, ExecerKnows
  <2>1. ASSUME NEW s \in Scrapers, scrapePc[s] # "idle", ~ScrapeCanMove(s)
        PROVE  \/ scrapePc[s] = "select" /\ ~ready /\ ~ctxDone[s]
               \/ scrapePc[s] = "rlock" /\ execPc = "publish" /\ ExecerCanMove
    <3>1. CASE scrapePc[s] = "select"
      BY <2>1, <3>1 DEF ScrapeCanMove
    <3>2. CASE scrapePc[s] = "rlock"
      <4>1. lastResultMtx
        BY <2>1, <3>2 DEF ScrapeCanMove
      <4> QED BY <3>2, <4>1 DEF ExecerCanMove
    <3>3. CASE scrapePc[s] \notin {"select", "rlock"}
      BY <2>1, <3>3 DEF ScrapeCanMove
    <3> QED BY <3>1, <3>2, <3>3
  <2>2. ~ExecerCanMove => hung \/ (execPc = "timer" /\ elapsed < Interval)
    <3>1. \A n \in 0..Period : n \in Nat
      BY PeriodBounds
    <3>2. elapsed \in Nat /\ Interval \in Nat
      BY <3>1, IntervalAssumption
    <3> QED BY <3>2 DEF ExecerCanMove
  <2> QED BY <2>1, <2>2 DEF NobodyWaitsInVain
<1> QED BY <1>1, Invariant, PTL

-----------------------------------------------------------------------------
(* The calls of MetricProxy.                                               *)

\* A step of one scrape is a step of its call, and none of any other's.
LEMMA ScrapeCall ==
    ASSUME IInv, NEW s \in Scrapers, Arrive(s) \/ Cancel(s) \/ ScrapeRuns(s),
           NEW q \in Scrapers
    PROVE  [Promise(q)!CallNext]_(Promise(q)!callVars)
<1> USE DEF Promise!CallNext, Promise!Begin, Promise!ContextEnds,
            Promise!Answer, Promise!End, Promise!callVars,
            IInv, TypeOK, ReadyMeansWhole, WholeResultsOnly, ScrapeGoto
<1>1. CASE q # s
  <2>1. /\ scrapePc'[q] = scrapePc[q] /\ ctxDone'[q] = ctxDone[q]
        /\ retMetrics'[q] = retMetrics[q]
    BY <1>1 DEF Arrive, Cancel, ScrapeRuns, SeeReady, GiveUp, ReadCache, Return
  <2> QED BY <2>1
<1>2. CASE q = s
  <2>1. CASE Arrive(s)    BY <1>2, <2>1 DEF Arrive
  <2>2. CASE Cancel(s)    BY <1>2, <2>2 DEF Cancel
  <2>3. CASE SeeReady(s)  BY <1>2, <2>3 DEF SeeReady
  <2>4. CASE GiveUp(s)    BY <1>2, <2>4 DEF GiveUp
  <2>5. CASE ReadCache(s) BY <1>2, <2>5 DEF ReadCache
  <2>6. CASE Return(s)    BY <1>2, <2>6 DEF Return
  <2> QED BY <2>1, <2>2, <2>3, <2>4, <2>5, <2>6 DEF ScrapeRuns
<1> QED BY <1>1, <1>2

\* Whatever the execer does, every call has one answer: an error, or metrics
\* that are whole.
THEOREM CallsAsPromised == Spec => CallsAnswered
<1>1. Init => \A s \in Scrapers : Promise(s)!CallInit
  BY DEF Init, Promise!CallInit
<1>2. IInv /\ [Next]_vars =>
        [\A s \in Scrapers : [Promise(s)!CallNext]_(Promise(s)!callVars)]_vars
  <2> SUFFICES ASSUME IInv, [Next]_vars, NEW q \in Scrapers
               PROVE  [Promise(q)!CallNext]_(Promise(q)!callVars)
    OBVIOUS
  <2>1. ASSUME NEW s \in Scrapers, Arrive(s) \/ Cancel(s) \/ ScrapeRuns(s)
        PROVE  [Promise(q)!CallNext]_(Promise(q)!callVars)
    BY <2>1, ScrapeCall
  <2>2. CASE UNCHANGED scrapeVars
    BY <2>2 DEF scrapeVars, Promise!callVars
  <2>3. CASE Tick \/ StaleTick \/ ScriptHangs \/ ScriptExit \/ ExecerRuns
    BY <2>2, <2>3 DEF Tick, StaleTick, ScriptHangs, ScriptExit, ExecerRuns,
       StartFails, Start, DecodeEnds, Kill, Store, Publish
  <2> QED BY <2>1, <2>2, <2>3 DEF Next, vars
<1> QED BY <1>1, <1>2, Invariant, PTL DEF Spec, CallsAnswered
=============================================================================
