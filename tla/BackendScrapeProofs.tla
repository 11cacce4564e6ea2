------------------------ MODULE BackendScrapeProofs ------------------------
(***************************************************************************)
(* Proofs about BackendScrape.  Nothing in it is bounded, so what TLC      *)
(* finds true of its states is all there is to know; what the proofs add   *)
(* is why, in the invariant, and that the steps are those of MetricProxy.  *)
(***************************************************************************)
EXTENDS BackendScrape, TLAPS

LEMMA InitIInv == Init => IInv
BY DEF Init, IInv, TypeOK, ScrapeKnows, DeadlineArmed, FileHasCloser, FileScrape, WholeBodyOnly, ErrorsExcused, HttpKinds

\* The client, the clock, the server and the copier disturb no answer: a body
\* that has ended stays so, and nothing is sent through it.
LEMMA EnvironmentIInv ==
    IInv /\ \/ Cancel \/ Expire \/ ServerSends
            \/ CopierReads \/ CopierWrites \/ CopierEnds \/ CopierCloses
            \/ WatcherBreaksPipe
         => IInv'
<1> USE DEF IInv, TypeOK, ScrapeKnows, DeadlineArmed, FileHasCloser, FileScrape,
            WholeBodyOnly, ErrorsExcused, HttpKinds, envVars, bodyVars, fileVars
<1>1. IInv /\ Cancel => IInv'
  BY DEF Cancel
<1>2. IInv /\ Expire => IInv'
  BY DEF Expire
<1>3. ASSUME IInv, ServerSends PROVE IInv'
  <2>1. TypeOK'
    <3>1. pending' \in BOOLEAN
      BY <1>3 DEF ServerSends
    <3>2. body' \in {"none", "open", "ended", "broken"}
      BY <1>3 DEF ServerSends
    <3>3. UNCHANGED <<envVars, pc, ctxs, mfs, fault, answer, fileVars>>
      BY <1>3 DEF ServerSends
    <3> QED BY <1>3, <3>1, <3>2, <3>3
  <2>2. ScrapeKnows'
    BY <1>3 DEF ServerSends
  <2>3. WholeBodyOnly' /\ ErrorsExcused'
    BY <1>3 DEF ServerSends
  <2> QED BY <2>1, <2>2, <2>3
<1>4. ASSUME IInv, UNCHANGED <<envVars, pc, ctxs, bodyVars, fault, answer>>,
             copier' \in {"none", "read", "write", "close"}, fileOpen' \in BOOLEAN,
             FileHasCloser', FileScrape'
      PROVE  IInv'
  <2>1. TypeOK'
    BY <1>4
  <2>2. ScrapeKnows'
    BY <1>4
  <2>3. WholeBodyOnly' /\ ErrorsExcused'
    BY <1>4
  <2> QED BY <2>1, <2>2, <2>3
<1>5. ASSUME IInv, CopierWrites PROVE IInv'
  <2>1. TypeOK'
    <3>1. pending' \in BOOLEAN
      BY <1>5 DEF CopierWrites
    <3>2. copier' \in {"none", "read", "write", "close"}
      BY <1>5 DEF CopierWrites
    <3>3. UNCHANGED <<envVars, pc, ctxs, body, mfs, fault, answer, fileOpen>>
      BY <1>5 DEF CopierWrites
    <3> QED BY <1>5, <3>1, <3>2, <3>3
  <2>2. ScrapeKnows'
    BY <1>5 DEF CopierWrites
  <2>3. WholeBodyOnly' /\ ErrorsExcused'
    BY <1>5 DEF CopierWrites
  <2> QED BY <2>1, <2>2, <2>3
<1>6. ASSUME IInv, CopierEnds PROVE IInv'
  <2>1. TypeOK'
    BY <1>6 DEF CopierEnds
  <2>2. ScrapeKnows'
    BY <1>6 DEF CopierEnds
  <2>3. WholeBodyOnly' /\ ErrorsExcused'
    BY <1>6 DEF CopierEnds
  <2> QED BY <2>1, <2>2, <2>3
<1>7. ASSUME IInv, CopierReads \/ CopierCloses PROVE IInv'
  <2>1. FileHasCloser' /\ FileScrape'
    <3>1. UNCHANGED <<kind, pc, ctxs, expired, body>>
      BY <1>7 DEF CopierReads, CopierCloses
    <3>2. CASE CopierReads
      <4>1. copier = "read" /\ copier' = "write" /\ fileOpen' = fileOpen
        BY <3>2 DEF CopierReads
      <4> QED BY <1>7, <3>1, <4>1
    <3>3. CASE CopierCloses
      <4>1. copier' = "none" /\ ~fileOpen'
        BY <3>3 DEF CopierCloses
      <4> QED BY <1>7, <3>1, <4>1
    <3> QED BY <1>7, <3>2, <3>3
  <2>2. /\ UNCHANGED <<envVars, pc, ctxs, bodyVars, fault, answer>>
        /\ copier' \in {"none", "read", "write", "close"} /\ fileOpen' \in BOOLEAN
    BY <1>7 DEF CopierReads, CopierCloses
  <2> HIDE DEF IInv, FileHasCloser, FileScrape
  <2> QED BY <1>4, <1>7, <2>1, <2>2
<1>8. ASSUME IInv, WatcherBreaksPipe PROVE IInv'
  <2>1. TypeOK'
    BY <1>8 DEF WatcherBreaksPipe
  <2>2. ScrapeKnows'
    BY <1>8 DEF WatcherBreaksPipe
  <2>3. WholeBodyOnly' /\ ErrorsExcused'
    BY <1>8 DEF WatcherBreaksPipe
  <2> QED BY <2>1, <2>2, <2>3
<1> HIDE DEF IInv
<1> QED BY <1>1, <1>2, <1>3, <1>5, <1>6, <1>7, <1>8

LEMMA ScrapeIInv ==
    IInv /\ (Call \/ ScrapeRuns \/ DoEnds) => IInv'
<1> USE DEF IInv, TypeOK, ScrapeKnows, DeadlineArmed, FileHasCloser, FileScrape,
            WholeBodyOnly, ErrorsExcused, HttpKinds, envVars, bodyVars, fileVars, Goto, Fail, Answered, CloseBody
<1>1. ASSUME IInv, Call PROVE IInv'
  <2>1. TypeOK'
    BY <1>1 DEF Call
  <2>2. ScrapeKnows'
    BY <1>1 DEF Call
  <2>3. WholeBodyOnly' /\ ErrorsExcused'
    BY <1>1 DEF Call
  <2> QED BY <2>1, <2>2, <2>3
<1>2. IInv /\ RequestFails => IInv'
  BY DEF RequestFails
<1>3. IInv /\ SendRequest => IInv'
  BY DEF SendRequest
<1>4. IInv /\ DoFails => IInv'
  BY DEF DoFails
<1>5. IInv /\ DoReturns => IInv'
  BY DEF DoReturns
<1>6. IInv /\ StatusNotOK => IInv'
  BY DEF StatusNotOK
<1>7. ASSUME IInv, StatusOK PROVE IInv'
  <2>1. TypeOK'
    BY <1>7 DEF StatusOK
  <2>2. ScrapeKnows'
    <3>1. /\ pc = "status" /\ pc' = "decode" /\ fault = "none" /\ kind \in HttpKinds
          /\ body \in {"open", "ended", "broken"}
          /\ UNCHANGED <<envVars, ctxs, bodyVars, fault, answer, fileVars>>
      BY <1>7 DEF StatusOK
    <3>2. DeadlineArmed'
      BY <3>1, <1>7
    <3>3. FileHasCloser'
      BY <3>1, <1>7
    <3> QED BY <1>7, <3>1, <3>2, <3>3
  <2>3. WholeBodyOnly' /\ ErrorsExcused'
    BY <1>7 DEF StatusOK
  <2> QED BY <2>1, <2>2, <2>3
<1>8. IInv /\ OpenFails => IInv'
  BY DEF OpenFails
<1>9. IInv /\ Open => IInv'
  BY DEF Open
<1>10. ASSUME IInv, DecodeFamily PROVE IInv'
  <2>1. TypeOK'
    BY <1>10 DEF DecodeFamily
  <2>2. ScrapeKnows'
    BY <1>10 DEF DecodeFamily
  <2>3. WholeBodyOnly' /\ ErrorsExcused'
    BY <1>10 DEF DecodeFamily
  <2> QED BY <2>1, <2>2, <2>3
<1>11. IInv /\ DecodeGarbage => IInv'
  BY DEF DecodeGarbage
<1>12. IInv /\ DecodeEOF => IInv'
  BY DEF DecodeEOF
<1>13. IInv /\ DecodeError => IInv'
  BY DEF DecodeError, ReadBreaks, ProxyDone
<1>14. IInv /\ ReturnHTTP => IInv'
  BY DEF ReturnHTTP
<1>15. IInv /\ ReturnFile => IInv'
  BY DEF ReturnFile
<1> HIDE DEF IInv
<1> QED
  BY <1>1, <1>2, <1>3, <1>4, <1>5, <1>6, <1>7, <1>8, <1>9, <1>10, <1>11,
     <1>12, <1>13, <1>14, <1>15 DEF ScrapeRuns, DoEnds

\* The inductive invariant: an answer goes with the state of the body, and a
\* scrape under way has not cancelled its own context.
THEOREM Invariant == Spec => []IInv
<1>1. IInv /\ [Next]_vars => IInv'
  <2> SUFFICES ASSUME IInv, [Next]_vars PROVE IInv'
    OBVIOUS
  <2>1. CASE UNCHANGED vars
    BY <2>1 DEF vars, envVars, bodyVars, fileVars, IInv, TypeOK, ScrapeKnows,
       DeadlineArmed, FileHasCloser, FileScrape, WholeBodyOnly, ErrorsExcused
  <2> QED BY <2>1, EnvironmentIInv, ScrapeIInv DEF Next
<1> QED BY InitIInv, <1>1, PTL DEF Spec

-----------------------------------------------------------------------------

\* Every variable keeps its type.
THEOREM TypeCorrect == Spec => []TypeOK
<1>1. IInv => TypeOK BY DEF IInv
<1> QED BY <1>1, Invariant, PTL

\* Metrics are those of a body decoded to its proper end.
THEOREM WholeBodies == Spec => []WholeBodyOnly
<1>1. IInv => WholeBodyOnly BY DEF IInv
<1> QED BY <1>1, Invariant, PTL

\* An error has a cause outside the scrape.
THEOREM ErrorsHaveCause == Spec => []ErrorsExcused
<1>1. IInv => ErrorsExcused BY DEF IInv
<1> QED BY <1>1, Invariant, PTL

\* Every step is one of the call of MetricProxy, or none that it sees.
THEOREM CallsAsPromised == Spec => Promise!CallSpec
<1> USE DEF Promise!CallNext, Promise!Begin, Promise!ContextEnds,
            Promise!Answer, Promise!End, Promise!callVars
<1>1. Init => Promise!CallInit
  BY DEF Init, Promise!CallInit
<1>2. IInv /\ [Next]_vars => [Promise!CallNext]_(Promise!callVars)
  <2> SUFFICES ASSUME IInv, [Next]_vars
               PROVE  [Promise!CallNext]_(Promise!callVars)
    OBVIOUS
  <2> USE DEF IInv, TypeOK, envVars, Goto, Fail, Answered
  <2>1. CASE Call BY <2>1 DEF Call
  <2>2. CASE Cancel BY <2>2 DEF Cancel
  <2>3. CASE pc # "idle" /\ pc # "return" /\ UNCHANGED <<ctxDone, answer>>
             /\ pc' # "idle" /\ pc' # "return"
    BY <2>3
  <2>5. CASE pc # "idle" /\ pc # "return" /\ UNCHANGED ctxDone
             /\ pc' = "return" /\ answer' \in {"metrics", "error"}
    BY <2>5
  <2>6. CASE pc = "return" /\ pc' = "idle" /\ UNCHANGED ctxDone
    BY <2>6 DEF ScrapeKnows
  <2>7. CASE ScrapeRuns \/ DoEnds
    BY <2>3, <2>5, <2>6, <2>7 DEF ScrapeRuns, DoEnds, RequestFails, SendRequest,
       DoFails, DoReturns, StatusNotOK, StatusOK, OpenFails, Open, DecodeFamily,
       DecodeGarbage, DecodeEOF, DecodeError, ReturnHTTP, ReturnFile
  <2>4. CASE UNCHANGED <<pc, ctxDone, answer>>
    BY <2>4
  <2> QED
    BY <2>1, <2>2, <2>4, <2>7 DEF Next, vars, Expire, ServerSends, CopierReads,
       CopierWrites, CopierEnds, CopierCloses, WatcherBreaksPipe
<1> QED BY <1>1, <1>2, Invariant, PTL DEF Spec, Promise!CallSpec
-----------------------------------------------------------------------------
(* Why an interrupted scrape returns, and a file is closed.                *)

\* The deadline of an http exporter that has one is running from before the
\* request is sent to the return, and has not been called off.
THEOREM DeadlineRuns == Spec => []DeadlineArmed
<1>1. IInv => DeadlineArmed BY DEF IInv, ScrapeKnows
<1> QED BY <1>1, Invariant, PTL

\* A scrape whose client is gone or whose deadline has passed is nowhere held
\* up by the server or the file.
THEOREM InterruptedMoves == Spec => []InterruptionReaches
<1>1. IInv => InterruptionReaches
  <2> SUFFICES ASSUME IInv, pc # "idle", ctxDone \/ expired PROVE NeedsNobody
    BY DEF InterruptionReaches
  <2> USE DEF IInv, TypeOK, ScrapeKnows, HttpKinds
  <2>1. CASE pc = "do"
    BY <2>1 DEF NeedsNobody, ProxyDone
  <2>2. CASE pc = "decode" /\ kind \in HttpKinds
    BY <2>2 DEF NeedsNobody, ReadBreaks, ProxyDone
  <2>3. CASE pc = "decode" /\ kind = "file"
    <3>1. ~expired
      BY <2>3 DEF FileScrape
    <3> QED BY <2>3, <3>1 DEF NeedsNobody, ReaderCtxDone
  <2>4. CASE pc \notin {"do", "decode"}
    BY <2>4 DEF NeedsNobody
  <2> QED BY <2>1, <2>2, <2>3, <2>4
<1> QED BY <1>1, Invariant, PTL

\* Once it is cut off from what it reads a scrape has a bounded number of steps
\* left, which nothing can raise.
THEOREM InterruptedReturns == Spec => CountsDown
<1>1. IInv /\ [Next]_vars => [CutOff /\ pc # "idle" => CountDown]_vars
  <2> SUFFICES ASSUME IInv, Next, CutOff, pc # "idle" PROVE CountDown
    OBVIOUS
  <2>1. kind \in HttpKinds \union {"file"} /\ pending \in BOOLEAN
        /\ pc \in {"request", "do", "status", "open", "decode", "return"}
    BY DEF IInv, TypeOK
  <2>2. CASE ~(ScrapeRuns \/ DoEnds)
    <3>1. UNCHANGED <<pc, pending>>
      <4>1. CASE kind \in HttpKinds
        <5>1. ProxyDone /\ copier # "write"
          BY <4>1 DEF CutOff, ProxyDone, HttpKinds, IInv, ScrapeKnows, FileScrape
        <5> QED BY <2>2, <5>1 DEF Next, Cancel, Expire, ServerSends, CopierReads,
               CopierWrites, CopierEnds, CopierCloses, WatcherBreaksPipe, Call, Goto, bodyVars
      <4>2. CASE kind = "file"
        <5>1. body # "open"
          BY <4>2 DEF CutOff
        <5> QED BY <2>2, <4>2, <5>1 DEF Next, Cancel, Expire, ServerSends, CopierReads,
               CopierWrites, CopierEnds, CopierCloses, WatcherBreaksPipe, Call, Goto,
               bodyVars, HttpKinds
      <4> QED BY <2>1, <4>1, <4>2
    <3> QED BY <2>2, <3>1 DEF CountDown, StepsLeft, PcLeft
  <2>3. CASE ScrapeRuns \/ DoEnds
    <3>1. \/ /\ pending' = pending
             /\ \/ pc = "request" /\ pc' \in {"do", "return"}
                \/ pc = "do" /\ pc' \in {"status", "return"}
                \/ pc \in {"status", "open"} /\ pc' \in {"decode", "return"}
                \/ pc = "decode" /\ pc' = "return"
                \/ pc = "return" /\ pc' = "idle"
          \/ pc = "decode" /\ pc' = "decode" /\ pending /\ ~pending'
      <4> USE DEF Goto, Fail, Answered, CloseBody, bodyVars
      <4>1. CASE RequestFails \/ SendRequest \/ DoFails \/ DoReturns
        BY <4>1 DEF RequestFails, SendRequest, DoFails, DoReturns
      <4>2. CASE StatusNotOK \/ StatusOK \/ OpenFails \/ Open
        BY <4>2 DEF StatusNotOK, StatusOK, OpenFails, Open
      <4>3. CASE DecodeGarbage \/ DecodeEOF \/ DecodeError
        BY <4>3 DEF DecodeGarbage, DecodeEOF, DecodeError
      <4>4. CASE DecodeFamily
        BY <4>4 DEF DecodeFamily
      <4>5. CASE ReturnHTTP \/ ReturnFile
        BY <4>5 DEF ReturnHTTP, ReturnFile
      <4> QED BY <2>3, <4>1, <4>2, <4>3, <4>4, <4>5 DEF ScrapeRuns, DoEnds
    <3>2. CASE pending' = pending
      <4>1. PcLeft' < PcLeft /\ PcLeft \in Nat /\ PcLeft' \in Nat
        <5>1. CASE pc = "request" /\ pc' \in {"do", "return"}
          BY <5>1 DEF PcLeft
        <5>2. CASE pc = "do" /\ pc' \in {"status", "return"}
          BY <5>2 DEF PcLeft
        <5>3. CASE pc \in {"status", "open"} /\ pc' \in {"decode", "return"}
          BY <5>3 DEF PcLeft
        <5>4. CASE pc = "decode" /\ pc' = "return"
          BY <5>4 DEF PcLeft
        <5>5. CASE pc = "return" /\ pc' = "idle"
          BY <5>5 DEF PcLeft
        <5> QED BY <3>1, <3>2, <5>1, <5>2, <5>3, <5>4, <5>5
      <4>2. StepsLeft' < StepsLeft
        <5>1. \E w \in {0, 1} : StepsLeft = 2 * PcLeft + w /\ StepsLeft' = 2 * PcLeft' + w
          BY <3>2 DEF StepsLeft
        <5>2. \A a, b \in Nat : \A w \in {0, 1} : a < b => 2 * a + w < 2 * b + w
          OBVIOUS
        <5>3. \A w \in {0, 1} : 2 * PcLeft' + w < 2 * PcLeft + w
          BY <4>1, <5>2
        <5> QED BY <5>1, <5>3
      <4> QED BY <2>3, <4>2 DEF CountDown
    <3>3. CASE pending' # pending
      <4>1. pc = "decode" /\ pc' = "decode" /\ pending /\ ~pending'
        BY <3>1, <3>3
      <4> QED BY <2>3, <4>1 DEF CountDown, StepsLeft, PcLeft
    <3> QED BY <3>2, <3>3
  <2> QED BY <2>2, <2>3
<1> QED BY <1>1, Invariant, PTL DEF Spec, CountsDown

\* Each open file has the goroutine that closes it, and after the scrape only a
\* read of the file can hold that goroutine up.
THEOREM FilesHaveClosers == Spec => []FileHasCloser
<1>1. IInv => FileHasCloser BY DEF IInv, ScrapeKnows
<1> QED BY <1>1, Invariant, PTL
=============================================================================
