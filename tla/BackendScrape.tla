--------------------------- MODULE BackendScrape ---------------------------
(***************************************************************************)
(* A scrape of an http exporter (netProxy, net_proxy.go) or of a file      *)
(* exporter (fileProxy, file_proxy.go): get hold of a body, decode metric  *)
(* families from it until it ends (decodeMetrics, utils.go), answer, and   *)
(* close what was opened in the deferred calls.                            *)
(*                                                                         *)
(* Scrapes of these exporters share no state, so the model is of one call  *)
(* at a time and of what goes on beside it: the server, the deadline, the  *)
(* context of the request, and, for a file, the two goroutines of the      *)
(* reader that NewCancelReadCloser puts around it, which outlive the call. *)
(* Server, file and client may do as they like, and stall for ever.        *)
(***************************************************************************)
EXTENDS Naturals

VARIABLES
    kind,      \* "http", "httpDeadline" (a timeout that is not 0) or "file"
    pc,        \* where Scrape is
    ctxDone,   \* is the context of the request done?
    expired,   \* did the deadline pass during this call?
    ctxs,      \* the contexts derived for this call that are not cancelled
    body,      \* what is read: "none", "open", "ended" or "broken" off
    pending,   \* did data come through it that is not decoded yet?
    mfs,       \* have metric families been decoded?
    fault,     \* what failed, other than reading the body
    answer,    \* what Scrape returns: "none", "metrics" or "error"
    copier,    \* the goroutine that copies the file into the reader's pipe
    fileOpen   \* is the file open?

envVars == <<kind, ctxDone, expired>>
bodyVars == <<body, pending, mfs>>
fileVars == <<copier, fileOpen>>
vars == <<envVars, pc, ctxs, bodyVars, fault, answer, fileVars>>

HttpKinds == {"http", "httpDeadline"}

Init ==
    /\ kind \in HttpKinds \union {"file"}
    /\ pc = "idle"
    /\ ctxDone = FALSE /\ expired = FALSE
    /\ ctxs = {}
    /\ body = "none" /\ pending = FALSE /\ mfs = FALSE
    /\ fault = "none" /\ answer = "none"
    /\ copier = "none" /\ fileOpen = FALSE

Goto(from, to) == pc = from /\ pc' = to

\* Mutant: the request is sent with ctx, not with proxyCtx.
RequestCtxDone == ctxDone \/ "childCtx" \notin ctxs

\* proxyCtx: the context of the request, cancelled when Scrape returns, and
\* with the deadline, if there is one.
ProxyDone == ctxDone \/ expired \/ "childCtx" \notin ctxs

\* Mutant: NewCancelReadCloser is given a context that never ends.
ReaderCtxBackground == FALSE

\* The context that NewCancelReadCloser is given.
ReaderCtxDone == ctxDone

-----------------------------------------------------------------------------
(* The client, the clock, the server and the file.                         *)

Cancel ==
    /\ pc # "idle" /\ ~ctxDone
    /\ ctxDone' = TRUE
    /\ UNCHANGED <<kind, expired, pc, ctxs, bodyVars, fault, answer, fileVars>>

Expire ==
    /\ "timeoutCtx" \in ctxs /\ ~expired
    /\ expired' = TRUE
    /\ UNCHANGED <<kind, ctxDone, pc, ctxs, bodyVars, fault, answer, fileVars>>

\* The server sends, ends its response, or breaks off.
ServerSends ==
    /\ kind \in HttpKinds /\ body = "open" /\ ~ProxyDone
    /\ \/ pending' = TRUE /\ UNCHANGED body
       \/ body' \in {"ended", "broken"} /\ UNCHANGED pending
    /\ UNCHANGED <<envVars, pc, ctxs, mfs, fault, answer, fileVars>>

\* io.Copy in NewCancelReadCloser: data of the file goes through the pipe to
\* whoever reads it; when the pipe is closed the copier ends.
CopierReads ==
    /\ copier = "read"
    /\ copier' = "write"
    /\ UNCHANGED <<envVars, pc, ctxs, bodyVars, fault, answer, fileOpen>>

CopierWrites ==
    /\ copier = "write"
    /\ IF body = "open"
         THEN pc = "decode" /\ pending' = TRUE /\ copier' = "read"
         ELSE copier' = "close" /\ UNCHANGED pending
    /\ UNCHANGED <<envVars, pc, ctxs, body, mfs, fault, answer, fileOpen>>

\* At the end of the file, or when it cannot be read, the copier closes the
\* pipe: unless the context is done, for then the watcher does.
CopierEnds ==
    /\ copier = "read"
    /\ copier' = "close"
    /\ IF body = "open" /\ ~ReaderCtxDone
         THEN body' \in {"ended", "broken"}
         ELSE UNCHANGED body
    /\ UNCHANGED <<envVars, pc, ctxs, pending, mfs, fault, answer, fileOpen>>

CopierCloses ==
    /\ copier = "close"
    /\ copier' = "none" /\ fileOpen' = FALSE
    /\ UNCHANGED <<envVars, pc, ctxs, bodyVars, fault, answer>>

\* The watcher of NewCancelReadCloser.
WatcherBreaksPipe ==
    /\ kind = "file" /\ body = "open" /\ ReaderCtxDone
    /\ body' = "broken"
    /\ UNCHANGED <<envVars, pc, ctxs, pending, mfs, fault, answer, fileVars>>

-----------------------------------------------------------------------------
(* Scrape.                                                                 *)

\* In the model a call begins when nothing is left of the one before it.
Call ==
    /\ copier = "none"
    /\ Goto("idle", IF kind = "file" THEN "open" ELSE "request")
    /\ ctxs' = IF kind = "file" THEN {} ELSE {"childCtx"}
    /\ ctxDone' = FALSE /\ expired' = FALSE
    /\ body' = "none" /\ pending' = FALSE /\ mfs' = FALSE
    /\ fault' = "none"
    /\ UNCHANGED <<kind, answer, fileVars>>

Fail(at, what) ==
    /\ Goto(at, "return")
    /\ fault' = what
    /\ answer' = "error"
    /\ UNCHANGED <<envVars, ctxs, bodyVars, fileVars>>

RequestFails == Fail("request", "request")

SendRequest ==
    /\ Goto("request", "do")
    /\ ctxs' = IF kind = "httpDeadline" THEN ctxs \union {"timeoutCtx"}
                                      ELSE ctxs
    /\ UNCHANGED <<envVars, bodyVars, fault, answer, fileVars>>

\* The transport fails, or gives up because proxyCtx is done.
DoFails == Fail("do", "transport")

DoReturns ==
    /\ Goto("do", "status")
    /\ body' = "open"
    /\ fault' \in {"none", "status"}
    /\ UNCHANGED <<envVars, ctxs, pending, mfs, answer, fileVars>>

StatusNotOK == fault = "status" /\ Fail("status", "status")

\* Mutant: the contexts are cancelled as soon as there is a response.
StatusOKCancels ==
    /\ Goto("status", "decode")
    /\ fault = "none"
    /\ ctxs' = {}
    /\ UNCHANGED <<envVars, bodyVars, fault, answer, fileVars>>

StatusOK ==
    /\ Goto("status", "decode")
    /\ fault = "none"
    /\ UNCHANGED <<envVars, ctxs, bodyVars, fault, answer, fileVars>>

OpenFails == Fail("open", "open")

Open ==
    /\ Goto("open", "decode")
    /\ fileOpen' = TRUE /\ copier' = "read" /\ body' = "open"
    /\ UNCHANGED <<envVars, ctxs, pending, mfs, fault, answer>>

\* decodeMetrics: a family, one that does not parse, the end, or an error.
DecodeFamily ==
    /\ pc = "decode" /\ pending
    /\ pending' = FALSE /\ mfs' = TRUE
    /\ UNCHANGED <<envVars, pc, ctxs, body, fault, answer, fileVars>>

DecodeGarbage == pending /\ Fail("decode", "garbage")

DecodeEOF ==
    /\ Goto("decode", "return")
    /\ body = "ended" /\ ~pending
    /\ answer' = "metrics"
    /\ UNCHANGED <<envVars, ctxs, bodyVars, fault, fileVars>>

\* A broken body, or a response that is read no further as proxyCtx is done.
ReadBreaks == body = "broken" \/ (kind \in HttpKinds /\ ProxyDone)

\* Mutant: merr is dropped when there are metrics.
DecodeErrorDropped ==
    /\ ReadBreaks
    /\ Goto("decode", "return")
    /\ answer' = IF mfs THEN "metrics" ELSE "error"
    /\ UNCHANGED <<envVars, ctxs, bodyVars, fault, fileVars>>

DecodeError == ReadBreaks /\ Fail("decode", fault)

\* The deferred calls.  Closing the body or the reader ends it: a copier that
\* is writing is no longer held up.
CloseBody ==
    /\ body' = IF body = "open" THEN "ended" ELSE body
    /\ UNCHANGED <<pending, mfs>>

Answered ==
    /\ Goto("return", "idle")
    /\ answer' = "none"
    /\ UNCHANGED <<envVars, fault, fileVars>>

ReturnHTTP == kind \in HttpKinds /\ Answered /\ CloseBody /\ ctxs' = {}

\* Mutant: the reader around the file is not closed.
ReturnKeepsReader == kind = "file" /\ Answered /\ UNCHANGED <<bodyVars, ctxs>>

ReturnFile == kind = "file" /\ Answered /\ CloseBody /\ UNCHANGED ctxs

-----------------------------------------------------------------------------

ScrapeRuns ==
    \/ RequestFails \/ SendRequest \/ StatusNotOK \/ StatusOK
    \/ OpenFails \/ Open
    \/ DecodeFamily \/ DecodeGarbage \/ DecodeEOF \/ DecodeError
    \/ ReturnHTTP \/ ReturnFile

DoEnds == DoFails \/ DoReturns

Next ==
    \/ Cancel \/ Expire \/ ServerSends
    \/ CopierReads \/ CopierWrites \/ CopierEnds \/ CopierCloses
    \/ WatcherBreaksPipe
    \/ Call \/ ScrapeRuns \/ DoEnds

Spec == Init /\ [][Next]_vars

\* Goroutines that can run do, the timer of a deadline goes off, and Do returns
\* when its context is done.  os.Open returns, as it does for a regular file.
\* Nothing is assumed of the server, of reading the file, or of the client.
Fairness ==
    /\ WF_vars(ScrapeRuns)
    /\ WF_vars(ProxyDone /\ DoEnds)
    /\ WF_vars(Expire)
    /\ WF_vars(CopierWrites)
    /\ WF_vars(CopierCloses)
    /\ WF_vars(WatcherBreaksPipe)

FairSpec == Spec /\ Fairness

-----------------------------------------------------------------------------

\* Every variable keeps its type.
TypeOK ==
    /\ kind \in HttpKinds \union {"file"}
    /\ pc \in {"idle", "request", "do", "status", "open", "decode", "return"}
    /\ ctxDone \in BOOLEAN /\ expired \in BOOLEAN
    /\ ctxs \in SUBSET {"childCtx", "timeoutCtx"}
    /\ body \in {"none", "open", "ended", "broken"}
    /\ pending \in BOOLEAN /\ mfs \in BOOLEAN
    /\ fault \in {"none", "request", "transport", "status", "open", "garbage"}
    /\ answer \in {"none", "metrics", "error"}
    /\ copier \in {"none", "read", "write", "close"}
    /\ fileOpen \in BOOLEAN

\* Metrics are only returned for a body that was good to its end and decoded
\* to its end: neither what came before a decoding error nor what came before
\* a timeout passes for the whole.
WholeBodyOnly ==
    answer = "metrics" => body = "ended" /\ ~pending /\ fault = "none"

\* A scrape only fails for a reason outside it: the request, the file or the
\* status, a body that breaks off or does not parse, the client or the deadline;
\* never because its own contexts were cancelled while it was reading.
ErrorsExcused ==
    answer = "error" => fault # "none" \/ body = "broken" \/ ctxDone \/ expired

\* `Ensure weird file behavior doesn't leave multiple open processes': after the
\* scrape its copier closes the file, unless the file never gives an answer to
\* the read the copier is in, which nobody can interrupt.
FileClosed == (pc = "idle" /\ copier \in {"write", "close"}) ~> ~fileOpen

\* `If a non-zero deadline is specified': the scrape of an http exporter that
\* has one ends, whatever server and client do.
DeadlineBounds == (kind = "httpDeadline" /\ pc # "idle") ~> pc = "idle"

-----------------------------------------------------------------------------
(* Why an interrupted scrape returns.                                      *)

\* Can the scrape go on whatever the server and the file do?  Do returns when
\* its context is done, a read when there is something to decode or the body
\* has ended or broken, which for a file the watcher may have to see to.
NeedsNobody ==
    CASE pc = "do" -> ProxyDone
      [] pc = "decode" -> \/ pending \/ body = "ended" \/ ReadBreaks
                          \/ kind = "file" /\ ReaderCtxDone
      [] OTHER -> pc # "idle"

\* A scrape whose client is gone or whose deadline has passed waits neither for
\* the server nor for the file, wherever it is (net_proxy.go:47-102,
\* file_proxy.go:36-58).
InterruptionReaches == pc # "idle" /\ (ctxDone \/ expired) => NeedsNobody

\* From the request to the return the deadline of an http exporter that has
\* one is running or has passed (net_proxy.go:79-88).
DeadlineArmed ==
    kind = "httpDeadline" /\ pc \in {"do", "status", "decode"} => "timeoutCtx" \in ctxs

\* Is the scrape cut off from what it reads?
CutOff ==
    IF kind = "file" THEN ctxDone /\ body # "open" ELSE ctxDone \/ expired

\* An upper bound of the steps such a scrape has left.
PcLeft == CASE pc = "request" -> 5 [] pc = "do" -> 4 [] pc = "status" -> 3
            [] pc = "open" -> 3 [] pc = "decode" -> 2 [] pc = "return" -> 1
            [] pc = "idle" -> 0

StepsLeft == 2 * PcLeft + (IF pending THEN 1 ELSE 0)

\* Once it is cut off each of its steps is one of a bounded number, and nothing
\* the server, the file or the client does adds another.
CountDown ==
    IF ScrapeRuns \/ DoEnds THEN StepsLeft' < StepsLeft ELSE StepsLeft' = StepsLeft

CountsDown == [][CutOff /\ pc # "idle" => CountDown]_vars

\* An open file has the copier that will close it, and once the scrape has
\* returned nothing holds up a copier that is writing.
FileHasCloser ==
    /\ fileOpen <=> copier # "none"
    /\ pc = "idle" /\ copier = "write" => body # "open"

-----------------------------------------------------------------------------
(* The inductive invariant behind the safety properties.                   *)

\* Only the scrape of an http exporter has contexts and a deadline of its own,
\* only that of a file has a copier.
FileScrape ==
    /\ expired => kind = "httpDeadline"
    /\ kind = "file" => ctxs = {}
    /\ "timeoutCtx" \in ctxs => kind = "httpDeadline"
    /\ copier # "none" => kind = "file"

\* How far Scrape is tells what is not cancelled, has failed and is open.
ScrapeKnows ==
    /\ kind \in HttpKinds /\ pc # "idle" => "childCtx" \in ctxs
    /\ answer # "none" <=> pc = "return"
    /\ pc \in {"request", "do", "open", "decode"} => fault = "none"
    /\ pc \in {"request", "do", "status"} => kind \in HttpKinds
    /\ body = "open" => pc \in {"status", "decode", "return"}
    /\ pc = "status" => fault \in {"none", "status"}
    /\ pc = "open" => kind = "file"
    /\ pc \in {"status", "decode"} => body # "none"
    /\ DeadlineArmed
    /\ FileHasCloser
    /\ FileScrape

IInv ==
    /\ TypeOK
    /\ ScrapeKnows
    /\ WholeBodyOnly
    /\ ErrorsExcused

-----------------------------------------------------------------------------
(* The abstract specification.                                             *)

\* Both proxies implement MetricProxy: in particular, once its context is done
\* a scrape returns, be it connecting, waiting for the server or for a file.
Promise == INSTANCE MetricProxy WITH
    call <- CASE pc = "idle" -> "idle" [] pc = "return" -> answer
              [] OTHER -> "scraping",
    done <- ctxDone

ImplementsMetricProxy == Promise!CallSpec /\ Promise!Prompt
=============================================================================
