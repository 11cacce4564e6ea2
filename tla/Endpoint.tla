------------------------------ MODULE Endpoint ------------------------------
(***************************************************************************)
(* One reverse proxy endpoint (src/pkg/metricproxy/reverse_proxy.go) and   *)
(* the serialization of its responses (utils.go).  Each request has        *)
(*                                                                         *)
(*   - a handler goroutine (serveMetricsHTTP) that starts one goroutine    *)
(*     per backend and the aggregator, waits, and writes the response;     *)
(*   - a goroutine per backend that scrapes it (rewriteProxy.Scrape around *)
(*     a file, http, exec or exec_cached proxy) and sends what it got over *)
(*     the unbuffered mfsCh, or nothing when it failed;                    *)
(*   - an aggregator goroutine that collects until mfsCh is closed.        *)
(*                                                                         *)
(* Requests share the pool of buffers they serialize into.  A backend is   *)
(* abstracted to what its Scrape returns; metrics are abstracted to which  *)
(* backend's they are and how often they occur.                            *)
(***************************************************************************)
EXTENDS Naturals, FiniteSets

CONSTANTS Requests,   \* requests served at the same time
          Backends,   \* the endpoint's backends
          Buffers     \* the buffers that exist at the same time

None == "none"

ASSUME BackendsAssumption == IsFiniteSet(Backends)
ASSUME BuffersAssumption == None \notin Buffers

VARIABLES
    handlerPc,    \* where the handler of each request is
    ctxDone,      \* is the context of the request done?
    toStart,      \* backends whose goroutine its loop has yet to start
    wg,           \* the counter of its WaitGroup
    mfsChClosed,  \* did it close mfsCh?
    scrapePc,     \* where each request's goroutine for each backend is
    failed,       \* did that scrape fail?
    aggregatorPc, \* where the aggregator of each request is
    mfs,          \* how often it appended each backend's metrics
    buf,          \* the buffer the handler has
    pool,         \* the buffers in bufPool
    bytes,        \* the requests whose metrics are in each buffer
    response      \* what was written: nothing yet, an error, or metrics

handlerVars == <<handlerPc, toStart, wg, mfsChClosed>>
scrapeVars  == <<scrapePc, failed>>
aggrVars    == <<aggregatorPc, mfs>>
bufVars     == <<buf, pool, bytes>>
vars == <<handlerVars, ctxDone, scrapeVars, aggrVars, bufVars, response>>

HandlerPcs == {"idle", "start", "wait", "collect", "getBuf", "encode", "write",
               "giveBuf"}
ScrapePcs == {"none", "scraping", "send", "return", "done"}

NoMetrics == [b \in Backends |-> 0]
NoResponse == [status |-> "none", mfs |-> NoMetrics, bytes |-> {}]
ErrorResponse == [NoResponse EXCEPT !.status = "error"]

Init ==
    /\ handlerPc = [r \in Requests |-> "idle"]
    /\ ctxDone = [r \in Requests |-> FALSE]
    /\ toStart = [r \in Requests |-> {}]
    /\ wg = [r \in Requests |-> 0]
    /\ mfsChClosed = [r \in Requests |-> FALSE]
    /\ scrapePc = [r \in Requests |-> [b \in Backends |-> "none"]]
    /\ failed = [r \in Requests |-> [b \in Backends |-> FALSE]]
    /\ aggregatorPc = [r \in Requests |-> "none"]
    /\ mfs = [r \in Requests |-> NoMetrics]
    /\ buf = [r \in Requests |-> None]
    /\ pool = {}
    /\ bytes = [k \in Buffers |-> {}]
    /\ response = [r \in Requests |-> NoResponse]

HandlerGoto(r, from, to) ==
    /\ handlerPc[r] = from
    /\ handlerPc' = [handlerPc EXCEPT ![r] = to]

ScrapeGoto(r, b, from, to) ==
    /\ scrapePc[r][b] = from
    /\ scrapePc' = [scrapePc EXCEPT ![r][b] = to]

-----------------------------------------------------------------------------
(* serveMetricsHTTP, up to the results of the backends.                    *)

\* A request comes in: a WaitGroup and channels of its own.
Arrive(r) ==
    /\ HandlerGoto(r, "idle", "start")
    /\ ctxDone' = [ctxDone EXCEPT ![r] = FALSE]
    /\ toStart' = [toStart EXCEPT ![r] = Backends]
    /\ wg' = [wg EXCEPT ![r] = 0]
    /\ mfsChClosed' = [mfsChClosed EXCEPT ![r] = FALSE]
    /\ scrapePc' = [scrapePc EXCEPT ![r] = [b \in Backends |-> "none"]]
    /\ failed' = [failed EXCEPT ![r] = [b \in Backends |-> FALSE]]
    /\ aggregatorPc' = [aggregatorPc EXCEPT ![r] = "none"]
    /\ mfs' = [mfs EXCEPT ![r] = NoMetrics]
    /\ response' = [response EXCEPT ![r] = NoResponse]
    /\ UNCHANGED bufVars

Cancel(r) ==
    /\ handlerPc[r] # "idle"
    /\ ~ctxDone[r]
    /\ ctxDone' = [ctxDone EXCEPT ![r] = TRUE]
    /\ UNCHANGED <<handlerVars, scrapeVars, aggrVars, bufVars, response>>

StartScrape(r, b) ==
    /\ handlerPc[r] = "start"
    /\ b \in toStart[r]
    /\ toStart' = [toStart EXCEPT ![r] = @ \ {b}]
    /\ wg' = [wg EXCEPT ![r] = @ + 1]
    /\ ScrapeGoto(r, b, "none", "scraping")
    /\ UNCHANGED <<handlerPc, mfsChClosed, ctxDone, failed, aggrVars, bufVars,
                   response>>

StartAggregator(r) ==
    /\ HandlerGoto(r, "start", "wait")
    /\ toStart[r] = {}
    /\ aggregatorPc' = [aggregatorPc EXCEPT ![r] = "range"]
    /\ UNCHANGED <<toStart, wg, mfsChClosed, ctxDone, scrapeVars, mfs, bufVars,
                   response>>

\* Mutant: mfsCh is closed without waiting for the backends.
CloseAtOnce(r) ==
    /\ HandlerGoto(r, "wait", "collect")
    /\ mfsChClosed' = [mfsChClosed EXCEPT ![r] = TRUE]
    /\ UNCHANGED <<toStart, wg, ctxDone, scrapeVars, aggrVars, bufVars,
                   response>>

WaitAndClose(r) ==
    /\ HandlerGoto(r, "wait", "collect")
    /\ wg[r] = 0
    /\ mfsChClosed' = [mfsChClosed EXCEPT ![r] = TRUE]
    /\ UNCHANGED <<toStart, wg, ctxDone, scrapeVars, aggrVars, bufVars,
                   response>>

-----------------------------------------------------------------------------
(* The goroutine of a backend.                                             *)

ScrapeSucceeds(r, b) ==
    /\ ScrapeGoto(r, b, "scraping", "send")
    /\ UNCHANGED <<handlerVars, ctxDone, failed, aggrVars, bufVars, response>>

\* Mutant: the goroutine goes on after an error.
SendAfterError(r, b) ==
    /\ ScrapeGoto(r, b, "scraping", "send")
    /\ failed' = [failed EXCEPT ![r][b] = TRUE]
    /\ UNCHANGED <<handlerVars, ctxDone, aggrVars, bufVars, response>>

\* Mutant: an error returns without wg.Done.
ReturnWithoutDone(r, b) ==
    /\ ScrapeGoto(r, b, "scraping", "done")
    /\ failed' = [failed EXCEPT ![r][b] = TRUE]
    /\ UNCHANGED <<handlerVars, ctxDone, aggrVars, bufVars, response>>

\* The error, also that of a context which is done, is logged and dropped.
ScrapeFails(r, b) ==
    /\ ScrapeGoto(r, b, "scraping", "return")
    /\ failed' = [failed EXCEPT ![r][b] = TRUE]
    /\ UNCHANGED <<handlerVars, ctxDone, aggrVars, bufVars, response>>

\* mfsCh is unbuffered: its sender and its receiver meet.  A send on a closed
\* channel panics.
Send(r, b) ==
    /\ IF mfsChClosed[r]
         THEN /\ ScrapeGoto(r, b, "send", "panicked")
              /\ UNCHANGED mfs
         ELSE /\ aggregatorPc[r] = "range"
              /\ ScrapeGoto(r, b, "send", "return")
              /\ mfs' = [mfs EXCEPT ![r][b] = @ + 1]
    /\ UNCHANGED <<handlerVars, ctxDone, failed, aggregatorPc, bufVars,
                   response>>

\* The deferred wg.Done.
Done(r, b) ==
    /\ ScrapeGoto(r, b, "return", "done")
    /\ wg' = [wg EXCEPT ![r] = @ - 1]
    /\ UNCHANGED <<handlerPc, toStart, mfsChClosed, ctxDone, failed, aggrVars,
                   bufVars, response>>

-----------------------------------------------------------------------------
(* The aggregator, and the handler once it has the result.                 *)

AggregatorEnds(r) ==
    /\ aggregatorPc[r] = "range"
    /\ mfsChClosed[r]
    /\ aggregatorPc' = [aggregatorPc EXCEPT ![r] = "result"]
    /\ UNCHANGED <<handlerVars, ctxDone, scrapeVars, mfs, bufVars, response>>

\* mfsResultCh is unbuffered too.
Collect(r) ==
    /\ HandlerGoto(r, "collect", "getBuf")
    /\ aggregatorPc[r] = "result"
    /\ aggregatorPc' = [aggregatorPc EXCEPT ![r] = "done"]
    /\ UNCHANGED <<toStart, wg, mfsChClosed, ctxDone, scrapeVars, mfs, bufVars,
                   response>>

\* getBuf: any buffer of the pool, or a new one.
GetBuf(r, k) ==
    /\ HandlerGoto(r, "getBuf", "encode")
    /\ k \in pool \/ (bytes[k] = {} /\ \A q \in Requests : buf[q] # k)
    /\ pool' = pool \ {k}
    /\ buf' = [buf EXCEPT ![r] = k]
    /\ UNCHANGED <<toStart, wg, mfsChClosed, ctxDone, scrapeVars, aggrVars,
                   bytes, response>>

\* The pool drops buffers when it likes.
DropBuf(k) ==
    /\ k \in pool
    /\ pool' = pool \ {k}
    /\ bytes' = [bytes EXCEPT ![k] = {}]
    /\ UNCHANGED <<handlerVars, ctxDone, scrapeVars, aggrVars, buf, response>>

Encode(r) ==
    /\ HandlerGoto(r, "encode", "write")
    /\ bytes' = [bytes EXCEPT ![buf[r]] = @ \union {r}]
    /\ UNCHANGED <<toStart, wg, mfsChClosed, ctxDone, scrapeVars, aggrVars, buf,
                   pool, response>>

\* A family that cannot be encoded: http.Error instead of the metrics.
EncodeFails(r) ==
    /\ HandlerGoto(r, "encode", "giveBuf")
    /\ \E b \in Backends : mfs[r][b] > 0
    /\ bytes' = [bytes EXCEPT ![buf[r]] = @ \union {r}]
    /\ response' = [response EXCEPT ![r] = ErrorResponse]
    /\ UNCHANGED <<toStart, wg, mfsChClosed, ctxDone, scrapeVars, aggrVars, buf,
                   pool>>

Write(r) ==
    /\ HandlerGoto(r, "write", "giveBuf")
    /\ response' = [response EXCEPT ![r] =
         [status |-> "metrics", mfs |-> mfs[r], bytes |-> bytes[buf[r]]]]
    /\ UNCHANGED <<toStart, wg, mfsChClosed, ctxDone, scrapeVars, aggrVars,
                   bufVars>>

\* Mutant: the buffer goes back to the pool as it is.
GiveBufUnreset(r) ==
    /\ HandlerGoto(r, "giveBuf", "idle")
    /\ pool' = pool \union {buf[r]}
    /\ buf' = [buf EXCEPT ![r] = None]
    /\ UNCHANGED <<toStart, wg, mfsChClosed, ctxDone, scrapeVars, aggrVars,
                   bytes, response>>

\* The deferred giveBuf, and the end of the handler.
GiveBuf(r) ==
    /\ HandlerGoto(r, "giveBuf", "idle")
    /\ bytes' = [bytes EXCEPT ![buf[r]] = {}]
    /\ pool' = pool \union {buf[r]}
    /\ buf' = [buf EXCEPT ![r] = None]
    /\ UNCHANGED <<toStart, wg, mfsChClosed, ctxDone, scrapeVars, aggrVars,
                   response>>

-----------------------------------------------------------------------------

HandlerRuns(r) ==
    \/ \E b \in Backends : StartScrape(r, b)
    \/ StartAggregator(r) \/ WaitAndClose(r) \/ Collect(r)
    \/ \E k \in Buffers : GetBuf(r, k)
    \/ Encode(r) \/ EncodeFails(r) \/ Write(r) \/ GiveBuf(r)

ScrapeReturns(r, b) == ScrapeSucceeds(r, b) \/ ScrapeFails(r, b)

Next ==
    \/ \E r \in Requests :
         \/ Arrive(r) \/ Cancel(r) \/ HandlerRuns(r) \/ AggregatorEnds(r)
         \/ \E b \in Backends : ScrapeReturns(r, b) \/ Send(r, b) \/ Done(r, b)
    \/ \E k \in Buffers : DropBuf(k)

Spec == Init /\ [][Next]_vars

\* Goroutines that can run do.  Of a backend only what MetricProxy promises is
\* assumed: its Scrape returns once the context is done.
Fairness ==
    \A r \in Requests :
        /\ WF_vars(HandlerRuns(r))
        /\ WF_vars(AggregatorEnds(r))
        /\ \A b \in Backends :
             /\ WF_vars(ctxDone[r] /\ ScrapeReturns(r, b))
             /\ WF_vars(Send(r, b))
             /\ WF_vars(Done(r, b))

FairSpec == Spec /\ Fairness

-----------------------------------------------------------------------------

Responses == [status : {"none", "error", "metrics"},
              mfs : [Backends -> Nat], bytes : SUBSET Requests]

\* Every variable keeps its type; no goroutine panicked on a closed channel.
TypeOK ==
    /\ handlerPc \in [Requests -> HandlerPcs]
    /\ ctxDone \in [Requests -> BOOLEAN]
    /\ toStart \in [Requests -> SUBSET Backends]
    /\ wg \in [Requests -> Nat]
    /\ mfsChClosed \in [Requests -> BOOLEAN]
    /\ scrapePc \in [Requests -> [Backends -> ScrapePcs]]
    /\ failed \in [Requests -> [Backends -> BOOLEAN]]
    /\ aggregatorPc \in [Requests -> {"none", "range", "result", "done"}]
    /\ mfs \in [Requests -> [Backends -> Nat]]
    /\ buf \in [Requests -> Buffers \union {None}]
    /\ pool \in SUBSET Buffers
    /\ bytes \in [Buffers -> SUBSET Requests]
    /\ response \in [Requests -> Responses]

IsMetrics(r) == response[r].status = "metrics"

\* A response has the metrics of every backend that did not fail, once, and of
\* no backend that failed: `we return nothing till we know the result of our
\* reverse proxied metrics'.
ResponseComplete ==
    \A r \in Requests : IsMetrics(r) =>
        \A b \in Backends :
            response[r].mfs[b] = IF failed[r][b] THEN 0 ELSE 1

\* The bytes of a response are of its own metrics, although buffers are used
\* again by other requests.
ResponseIsOwn ==
    \A r \in Requests : IsMetrics(r) => response[r].bytes = {r}

\* A handler that serializes, or is finished, has left no goroutine behind.
NoGoroutineLeft ==
    \A r \in Requests :
        handlerPc[r] \in {"getBuf", "encode", "write", "giveBuf"} =>
            /\ aggregatorPc[r] = "done"
            /\ \A b \in Backends : scrapePc[r][b] = "done"

\* A request whose context is done is answered: the handler, its backends and
\* its aggregator do not wait for each other for ever.
CancelledAnswered ==
    \A r \in Requests :
        (handlerPc[r] # "idle" /\ ctxDone[r]) ~> handlerPc[r] = "idle"

\* What the goroutines of a request can do at once, its backends' scrapes apart.
\* There is always a buffer: the pool makes one when it has none.
HandlerCanMove(r) ==
    \/ handlerPc[r] \in {"start", "getBuf", "encode", "write", "giveBuf"}
    \/ handlerPc[r] = "wait" /\ wg[r] = 0
    \/ handlerPc[r] = "collect" /\ aggregatorPc[r] = "result"
AggregatorCanMove(r) == aggregatorPc[r] = "range" /\ mfsChClosed[r]
SenderCanMove(r, b) ==
    \/ scrapePc[r][b] = "send" /\ aggregatorPc[r] = "range"
    \/ scrapePc[r][b] = "return"

\* A request waits for its backends and for nothing else: when none of them is
\* in its Scrape, the handler, the aggregator or a sender can go on.
WaitsForBackendsOnly ==
    \A r \in Requests :
        handlerPc[r] # "idle" =>
            \/ HandlerCanMove(r) \/ AggregatorCanMove(r)
            \/ \E b \in Backends : SenderCanMove(r, b) \/ scrapePc[r][b] = "scraping"

\* The steps the goroutines of a request have before them.
HandlerRank == [start |-> 0, wait |-> 1, collect |-> 2, getBuf |-> 3,
                encode |-> 4, write |-> 5, giveBuf |-> 6, idle |-> 7]
ScrapeRank == [none |-> 0, scraping |-> 1, send |-> 2, return |-> 3, done |-> 4]
AggregatorRank == [none |-> 0, range |-> 1, result |-> 2, done |-> 3]

ScrapeSteps(r) == {x \in Backends \X (1..4) : ScrapeRank[scrapePc[r][x[1]]] < x[2]}

StepsLeft(r) ==
    (7 - HandlerRank[handlerPc[r]]) + (3 - AggregatorRank[aggregatorPc[r]])
        + Cardinality(ScrapeSteps(r))

\* Nothing is done twice: whatever one of its goroutines does brings a request
\* nearer to its end, and no other request sets it back.
RequestMovesOn ==
    [][\A r \in Requests : handlerPc[r] # "idle" =>
         \/ UNCHANGED <<handlerPc[r], scrapePc[r], aggregatorPc[r]>>
         \/ StepsLeft(r)' < StepsLeft(r)]_vars

-----------------------------------------------------------------------------
(* The inductive invariant behind the safety properties.                   *)

Serializing == {"getBuf", "encode", "write", "giveBuf"}
HoldsBuf == {"encode", "write", "giveBuf"}

\* The goroutines the handler's wait is for.
Busy(r) == {b \in Backends : scrapePc[r][b] \in {"scraping", "send", "return"}}

\* The WaitGroup counts the goroutines that have not ended, so that its zero,
\* once all were started, means that all have ended.
WaitGroupCounts == \A r \in Requests : wg[r] = Cardinality(Busy(r))

\* Which goroutines exist, at each point of the handler.
GoroutinesOf(r) ==
    /\ handlerPc[r] = "start" =>
         \A b \in Backends : b \in toStart[r] <=> scrapePc[r][b] = "none"
    /\ handlerPc[r] = "wait" => \A b \in Backends : scrapePc[r][b] # "none"
    /\ handlerPc[r] \in {"collect"} \union Serializing =>
         \A b \in Backends : scrapePc[r][b] = "done"
    /\ handlerPc[r] = "idle" => \A b \in Backends : scrapePc[r][b] \in {"none", "done"}
    /\ handlerPc[r] = "start" => aggregatorPc[r] = "none"
    /\ handlerPc[r] = "wait" => aggregatorPc[r] = "range"
    /\ handlerPc[r] = "collect" => aggregatorPc[r] \in {"range", "result"}
    /\ handlerPc[r] \in Serializing => aggregatorPc[r] = "done"
    /\ handlerPc[r] = "idle" => aggregatorPc[r] \in {"none", "done"}
    /\ handlerPc[r] \in {"start", "wait"} => ~mfsChClosed[r]
    /\ handlerPc[r] = "collect" => mfsChClosed[r]

\* A backend's metrics were appended once, if it has sent them.
AppendedOnce(r) ==
    \A b \in Backends :
        /\ failed[r][b] => scrapePc[r][b] \in {"return", "done"}
        /\ mfs[r][b] =
             IF scrapePc[r][b] \in {"return", "done"} /\ ~failed[r][b] THEN 1 ELSE 0

\* A buffer is in one place: with one handler, or in the pool and empty.
BuffersApart ==
    /\ \A r \in Requests : buf[r] # None <=> handlerPc[r] \in HoldsBuf
    /\ \A r, q \in Requests : buf[r] # None /\ buf[r] = buf[q] => r = q
    /\ \A r \in Requests : buf[r] \notin pool
    /\ \A k \in pool : bytes[k] = {}
    /\ \A r \in Requests :
         /\ handlerPc[r] = "encode" => bytes[buf[r]] = {}
         /\ handlerPc[r] = "write" => bytes[buf[r]] = {r}

\* There is a response only after all of the above.
ResponseLast ==
    \A r \in Requests :
        /\ IsMetrics(r) => handlerPc[r] \in {"giveBuf", "idle"}
        /\ IsMetrics(r) => \A b \in Backends : scrapePc[r][b] = "done"

IInv ==
    /\ TypeOK
    /\ WaitGroupCounts
    /\ \A r \in Requests : GoroutinesOf(r) /\ AppendedOnce(r)
    /\ BuffersApart
    /\ ResponseLast
    /\ ResponseComplete
    /\ ResponseIsOwn
=============================================================================
