--------------------------- MODULE EndpointProofs ---------------------------
(***************************************************************************)
(* Proofs about Endpoint for any requests, buffers and finite set of       *)
(* backends.  The invariant IInv is split over its conjuncts: one lemma    *)
(* each says that every step keeps it.                                     *)
(***************************************************************************)
EXTENDS Endpoint, FiniteSetTheorems, TLAPS

\* Parts of the set of backends are finite, so that they can be counted.
LEMMA BusyFinite ==
    ASSUME NEW r \in Requests
    PROVE  IsFiniteSet(Busy(r)) /\ Cardinality(Busy(r)) \in Nat
BY BackendsAssumption, FS_Subset, FS_CardinalityType DEF Busy

\* The invariant holds initially: there are no goroutines and no buffers.
LEMMA InitIInv == Init => IInv
<1> SUFFICES ASSUME Init PROVE IInv
  OBVIOUS
<1> USE DEF Init
<1>1. TypeOK
  BY DEF TypeOK, NoMetrics, NoResponse, Responses, HandlerPcs, ScrapePcs
<1>2. WaitGroupCounts
  <2>1. ASSUME NEW r \in Requests PROVE Busy(r) = {}
    BY DEF Busy
  <2> QED BY <2>1, FS_EmptySet DEF WaitGroupCounts
<1>3. \A r \in Requests : GoroutinesOf(r) /\ AppendedOnce(r)
  BY DEF GoroutinesOf, AppendedOnce, NoMetrics, Serializing
<1>4. BuffersApart
  BY BuffersAssumption DEF BuffersApart, HoldsBuf
<1>5. ResponseLast /\ ResponseComplete /\ ResponseIsOwn
  BY DEF ResponseLast, ResponseComplete, ResponseIsOwn, IsMetrics, NoResponse
<1> QED BY <1>1, <1>2, <1>3, <1>4, <1>5 DEF IInv

-----------------------------------------------------------------------------
(* What the invariant says to a goroutine at a certain point.              *)

\* A wait group above zero is what a goroutine that has not ended makes it,
\* and at zero there is no such goroutine.
LEMMA WaitGroupZero ==
    ASSUME IInv, NEW r \in Requests
    PROVE  wg[r] = 0 <=> Busy(r) = {}
BY BusyFinite, FS_EmptySet DEF IInv, WaitGroupCounts

\* Whoever sends finds the channel open, for the handler waits for it, and is
\* received.
LEMMA SendFindsOpen ==
    ASSUME IInv, NEW r \in Requests, NEW b \in Backends, Send(r, b)
    PROVE  /\ handlerPc[r] \in {"start", "wait"}
           /\ scrapePc[r][b] = "send"
           /\ scrapePc' = [scrapePc EXCEPT ![r][b] = "return"]
           /\ mfs' = [mfs EXCEPT ![r][b] = mfs[r][b] + 1]
           /\ UNCHANGED <<handlerPc, wg, failed, response>>
<1>1. scrapePc[r][b] = "send"
  BY DEF Send, ScrapeGoto
<1>2. handlerPc[r] \in {"start", "wait"} /\ ~mfsChClosed[r]
  BY <1>1 DEF IInv, TypeOK, GoroutinesOf, HandlerPcs, Serializing
<1> QED BY <1>1, <1>2 DEF Send, ScrapeGoto, handlerVars

-----------------------------------------------------------------------------
(* Every step keeps each conjunct.                                         *)

\* The WaitGroup goes on counting: Add comes with a goroutine that was not
\* there, Done with one that was.
LEMMA CountsNext ==
    ASSUME IInv, Next
    PROVE  WaitGroupCounts'
<1> USE DEF IInv, WaitGroupCounts, Busy, handlerVars, scrapeVars, aggrVars,
        bufVars, HandlerGoto, ScrapeGoto
<1>1. ASSUME NEW r \in Requests, Arrive(r) PROVE WaitGroupCounts'
  <2>1. Busy(r)' = {}
    BY <1>1 DEF Arrive, TypeOK
  <2>2. ASSUME NEW q \in Requests, q # r PROVE Busy(q)' = Busy(q) /\ wg'[q] = wg[q]
    BY <1>1, <2>2 DEF Arrive, TypeOK
  <2>3. wg'[r] = 0
    BY <1>1 DEF Arrive, TypeOK
  <2> QED BY <2>1, <2>2, <2>3, FS_EmptySet
<1>2. ASSUME NEW r \in Requests, Cancel(r) PROVE WaitGroupCounts'
  BY <1>2 DEF Cancel
<1>3. ASSUME NEW r \in Requests, NEW b \in Backends, StartScrape(r, b) PROVE WaitGroupCounts'
  <2>1. b \notin Busy(r) /\ Busy(r)' = Busy(r) \union {b}
    BY <1>3 DEF StartScrape, TypeOK
  <2>2. ASSUME NEW q \in Requests, q # r PROVE Busy(q)' = Busy(q) /\ wg'[q] = wg[q]
    BY <1>3, <2>2 DEF StartScrape, TypeOK
  <2>3. wg'[r] = wg[r] + 1
    BY <1>3 DEF StartScrape, TypeOK
  <2>4. Cardinality(Busy(r) \union {b}) = Cardinality(Busy(r)) + 1
    BY <2>1, BusyFinite, FS_AddElement
  <2> HIDE DEF Busy
  <2> QED BY <2>1, <2>2, <2>3, <2>4
<1>4. ASSUME NEW r \in Requests, StartAggregator(r) PROVE WaitGroupCounts'
  BY <1>4 DEF StartAggregator
<1>5. ASSUME NEW r \in Requests, WaitAndClose(r) PROVE WaitGroupCounts'
  BY <1>5 DEF WaitAndClose
<1>6. ASSUME NEW r \in Requests, Collect(r) PROVE WaitGroupCounts'
  BY <1>6 DEF Collect
<1>7. ASSUME NEW r \in Requests, NEW k \in Buffers, GetBuf(r, k) PROVE WaitGroupCounts'
  BY <1>7 DEF GetBuf
<1>8. ASSUME NEW r \in Requests, Encode(r) PROVE WaitGroupCounts'
  BY <1>8 DEF Encode
<1>9. ASSUME NEW r \in Requests, EncodeFails(r) PROVE WaitGroupCounts'
  BY <1>9 DEF EncodeFails
<1>10. ASSUME NEW r \in Requests, Write(r) PROVE WaitGroupCounts'
  BY <1>10 DEF Write
<1>11. ASSUME NEW r \in Requests, GiveBuf(r) PROVE WaitGroupCounts'
  BY <1>11 DEF GiveBuf
<1>12. ASSUME NEW r \in Requests, AggregatorEnds(r) PROVE WaitGroupCounts'
  BY <1>12 DEF AggregatorEnds
<1>13. ASSUME NEW r \in Requests, NEW b \in Backends, ScrapeSucceeds(r, b) PROVE WaitGroupCounts'
  BY <1>13 DEF ScrapeSucceeds
<1>14. ASSUME NEW r \in Requests, NEW b \in Backends, ScrapeFails(r, b) PROVE WaitGroupCounts'
  BY <1>14 DEF ScrapeFails
<1>15. ASSUME NEW r \in Requests, NEW b \in Backends, Send(r, b) PROVE WaitGroupCounts'
  <2>1. ASSUME NEW q \in Requests PROVE Busy(q)' = Busy(q)
    <3>1. /\ scrapePc[r][b] = "send"
          /\ scrapePc' = [scrapePc EXCEPT ![r][b] = "return"]
      BY <1>15, SendFindsOpen
    <3> QED BY <3>1 DEF TypeOK
  <2>2. UNCHANGED wg
    BY <1>15, SendFindsOpen
  <2> HIDE DEF Busy
  <2> QED BY <2>1, <2>2
<1>16. ASSUME NEW r \in Requests, NEW b \in Backends, Done(r, b) PROVE WaitGroupCounts'
  <2>1. b \in Busy(r) /\ Busy(r)' = Busy(r) \ {b}
    BY <1>16 DEF Done, TypeOK
  <2>2. ASSUME NEW q \in Requests, q # r PROVE Busy(q)' = Busy(q) /\ wg'[q] = wg[q]
    BY <1>16, <2>2 DEF Done, TypeOK
  <2>3. wg'[r] = wg[r] - 1
    BY <1>16 DEF Done, TypeOK
  <2>4. Cardinality(Busy(r) \ {b}) = Cardinality(Busy(r)) - 1
    BY <2>1, BusyFinite, FS_RemoveElement
  <2> HIDE DEF Busy
  <2> QED BY <2>1, <2>2, <2>3, <2>4
<1>17. ASSUME NEW k \in Buffers, DropBuf(k) PROVE WaitGroupCounts'
  BY <1>17 DEF DropBuf
<1> QED
  BY <1>1, <1>2, <1>3, <1>4, <1>5, <1>6, <1>7, <1>8,
     <1>9, <1>10, <1>11, <1>12, <1>13, <1>14, <1>15, <1>16, <1>17
     DEF Next, HandlerRuns, ScrapeReturns

\* Types: a send never meets a closed channel, for its goroutine is waited for.
LEMMA TypeNext ==
    ASSUME IInv, Next
    PROVE  TypeOK'
<1> USE DEF IInv, TypeOK, handlerVars, scrapeVars, aggrVars, bufVars,
        HandlerGoto, ScrapeGoto, NoMetrics, NoResponse, ErrorResponse,
        Responses, HandlerPcs, ScrapePcs
<1>1. ASSUME NEW r \in Requests, Arrive(r) PROVE TypeOK'
  BY <1>1 DEF Arrive
<1>2. ASSUME NEW r \in Requests, Cancel(r) PROVE TypeOK'
  BY <1>2 DEF Cancel
<1>3. ASSUME NEW r \in Requests, NEW b \in Backends, StartScrape(r, b) PROVE TypeOK'
  BY <1>3 DEF StartScrape
<1>4. ASSUME NEW r \in Requests, StartAggregator(r) PROVE TypeOK'
  BY <1>4 DEF StartAggregator
<1>5. ASSUME NEW r \in Requests, WaitAndClose(r) PROVE TypeOK'
  BY <1>5 DEF WaitAndClose
<1>6. ASSUME NEW r \in Requests, Collect(r) PROVE TypeOK'
  BY <1>6 DEF Collect
<1>7. ASSUME NEW r \in Requests, NEW k \in Buffers, GetBuf(r, k) PROVE TypeOK'
  BY <1>7 DEF GetBuf
<1>8. ASSUME NEW r \in Requests, Encode(r) PROVE TypeOK'
  BY <1>8 DEF Encode
<1>9. ASSUME NEW r \in Requests, EncodeFails(r) PROVE TypeOK'
  BY <1>9 DEF EncodeFails
<1>10. ASSUME NEW r \in Requests, Write(r) PROVE TypeOK'
  <2>1. buf[r] \in Buffers
    BY <1>10 DEF Write, BuffersApart, HoldsBuf
  <2>2. [status |-> "metrics", mfs |-> mfs[r], bytes |-> bytes[buf[r]]] \in Responses
    BY <2>1
  <2> QED BY <1>10, <2>2 DEF Write
<1>11. ASSUME NEW r \in Requests, GiveBuf(r) PROVE TypeOK'
  <2>1. buf[r] \in Buffers
    BY <1>11 DEF GiveBuf, BuffersApart, HoldsBuf
  <2> QED BY <1>11, <2>1 DEF GiveBuf
<1>12. ASSUME NEW r \in Requests, AggregatorEnds(r) PROVE TypeOK'
  BY <1>12 DEF AggregatorEnds
<1>13. ASSUME NEW r \in Requests, NEW b \in Backends, ScrapeSucceeds(r, b) PROVE TypeOK'
  BY <1>13 DEF ScrapeSucceeds
<1>14. ASSUME NEW r \in Requests, NEW b \in Backends, ScrapeFails(r, b) PROVE TypeOK'
  BY <1>14 DEF ScrapeFails
<1>15. ASSUME NEW r \in Requests, NEW b \in Backends, Send(r, b) PROVE TypeOK'
  <2>2. /\ scrapePc' = [scrapePc EXCEPT ![r][b] = "return"]
        /\ mfs' = [mfs EXCEPT ![r][b] = mfs[r][b] + 1]
    BY <1>15, SendFindsOpen
  <2>3. scrapePc' \in [Requests -> [Backends -> ScrapePcs]]
    BY <2>2
  <2>4. mfs' \in [Requests -> [Backends -> Nat]]
    BY <2>2
  <2> QED BY <1>15, <2>3, <2>4 DEF Send
<1>16. ASSUME NEW r \in Requests, NEW b \in Backends, Done(r, b) PROVE TypeOK'
  <2>1. wg[r] # 0
    BY <1>16, WaitGroupZero DEF Done, Busy
  <2>2. wg[r] \in Nat /\ wg[r] - 1 \in Nat
    BY <2>1
  <2>3. wg' = [wg EXCEPT ![r] = wg[r] - 1]
    BY <1>16 DEF Done
  <2>4. wg' \in [Requests -> Nat]
    BY <2>2, <2>3
  <2> QED BY <1>16, <2>4 DEF Done
<1>17. ASSUME NEW k \in Buffers, DropBuf(k) PROVE TypeOK'
  BY <1>17 DEF DropBuf
<1> QED
  BY <1>1, <1>2, <1>3, <1>4, <1>5, <1>6, <1>7, <1>8,
     <1>9, <1>10, <1>11, <1>12, <1>13, <1>14, <1>15, <1>16, <1>17
     DEF Next, HandlerRuns, ScrapeReturns

\* Each point of the handler goes on knowing which goroutines there are: those
\* waited for have ended, since the count that reached zero is theirs.
LEMMA GoroutinesNext ==
    ASSUME IInv, Next
    PROVE  \A q \in Requests : GoroutinesOf(q)'
<1> DEFINE Goal == \A q \in Requests : GoroutinesOf(q)
<1> USE DEF IInv, TypeOK, GoroutinesOf, Serializing, handlerVars,
        scrapeVars, aggrVars, bufVars, HandlerGoto, ScrapeGoto
<1>1. ASSUME NEW r \in Requests, Arrive(r) PROVE Goal'
  BY <1>1 DEF Arrive
<1>2. ASSUME NEW r \in Requests, Cancel(r) PROVE Goal'
  BY <1>2 DEF Cancel
<1>3. ASSUME NEW r \in Requests, NEW b \in Backends, StartScrape(r, b) PROVE Goal'
  BY <1>3 DEF StartScrape
<1>4. ASSUME NEW r \in Requests, StartAggregator(r) PROVE Goal'
  BY <1>4 DEF StartAggregator
<1>5. ASSUME NEW r \in Requests, WaitAndClose(r) PROVE Goal'
  <2>1. \A b \in Backends : scrapePc[r][b] = "done"
    BY <1>5, WaitGroupZero DEF WaitAndClose, Busy, ScrapePcs
  <2> QED BY <1>5, <2>1 DEF WaitAndClose
<1>6. ASSUME NEW r \in Requests, Collect(r) PROVE Goal'
  BY <1>6 DEF Collect
<1>7. ASSUME NEW r \in Requests, NEW k \in Buffers, GetBuf(r, k) PROVE Goal'
  BY <1>7 DEF GetBuf
<1>8. ASSUME NEW r \in Requests, Encode(r) PROVE Goal'
  BY <1>8 DEF Encode
<1>9. ASSUME NEW r \in Requests, EncodeFails(r) PROVE Goal'
  BY <1>9 DEF EncodeFails
<1>10. ASSUME NEW r \in Requests, Write(r) PROVE Goal'
  BY <1>10 DEF Write
<1>11. ASSUME NEW r \in Requests, GiveBuf(r) PROVE Goal'
  BY <1>11 DEF GiveBuf
<1>12. ASSUME NEW r \in Requests, AggregatorEnds(r) PROVE Goal'
  BY <1>12 DEF AggregatorEnds
<1>13. ASSUME NEW r \in Requests, NEW b \in Backends, ScrapeSucceeds(r, b) PROVE Goal'
  BY <1>13 DEF ScrapeSucceeds
<1>14. ASSUME NEW r \in Requests, NEW b \in Backends, ScrapeFails(r, b) PROVE Goal'
  BY <1>14 DEF ScrapeFails
<1>15. ASSUME NEW r \in Requests, NEW b \in Backends, Send(r, b) PROVE Goal'
  <2>1. /\ scrapePc[r][b] = "send"
        /\ scrapePc' = [scrapePc EXCEPT ![r][b] = "return"]
        /\ UNCHANGED <<handlerPc, toStart, aggregatorPc, mfsChClosed>>
    BY <1>15, SendFindsOpen DEF Send
  <2> QED BY <2>1
<1>16. ASSUME NEW r \in Requests, NEW b \in Backends, Done(r, b) PROVE Goal'
  BY <1>16 DEF Done
<1>17. ASSUME NEW k \in Buffers, DropBuf(k) PROVE Goal'
  BY <1>17 DEF DropBuf
<1> QED
  BY <1>1, <1>2, <1>3, <1>4, <1>5, <1>6, <1>7, <1>8,
     <1>9, <1>10, <1>11, <1>12, <1>13, <1>14, <1>15, <1>16, <1>17
     DEF Next, HandlerRuns, ScrapeReturns

\* What the aggregator has appended is what the backends have sent, once each.
LEMMA AppendedNext ==
    ASSUME IInv, Next
    PROVE  \A q \in Requests : AppendedOnce(q)'
<1> DEFINE Goal == \A q \in Requests : AppendedOnce(q)
<1> USE DEF IInv, TypeOK, AppendedOnce, NoMetrics, handlerVars, scrapeVars,
        aggrVars, bufVars, HandlerGoto, ScrapeGoto
<1>1. ASSUME NEW r \in Requests, Arrive(r) PROVE Goal'
  BY <1>1 DEF Arrive
<1>2. ASSUME NEW r \in Requests, Cancel(r) PROVE Goal'
  BY <1>2 DEF Cancel
<1>3. ASSUME NEW r \in Requests, NEW b \in Backends, StartScrape(r, b) PROVE Goal'
  BY <1>3 DEF StartScrape
<1>4. ASSUME NEW r \in Requests, StartAggregator(r) PROVE Goal'
  BY <1>4 DEF StartAggregator
<1>5. ASSUME NEW r \in Requests, WaitAndClose(r) PROVE Goal'
  BY <1>5 DEF WaitAndClose
<1>6. ASSUME NEW r \in Requests, Collect(r) PROVE Goal'
  BY <1>6 DEF Collect
<1>7. ASSUME NEW r \in Requests, NEW k \in Buffers, GetBuf(r, k) PROVE Goal'
  BY <1>7 DEF GetBuf
<1>8. ASSUME NEW r \in Requests, Encode(r) PROVE Goal'
  BY <1>8 DEF Encode
<1>9. ASSUME NEW r \in Requests, EncodeFails(r) PROVE Goal'
  BY <1>9 DEF EncodeFails
<1>10. ASSUME NEW r \in Requests, Write(r) PROVE Goal'
  BY <1>10 DEF Write
<1>11. ASSUME NEW r \in Requests, GiveBuf(r) PROVE Goal'
  BY <1>11 DEF GiveBuf
<1>12. ASSUME NEW r \in Requests, AggregatorEnds(r) PROVE Goal'
  BY <1>12 DEF AggregatorEnds
<1>13. ASSUME NEW r \in Requests, NEW b \in Backends, ScrapeSucceeds(r, b) PROVE Goal'
  BY <1>13 DEF ScrapeSucceeds
<1>14. ASSUME NEW r \in Requests, NEW b \in Backends, ScrapeFails(r, b) PROVE Goal'
  BY <1>14 DEF ScrapeFails
<1>15. ASSUME NEW r \in Requests, NEW b \in Backends, Send(r, b) PROVE Goal'
  <2>1. /\ scrapePc[r][b] = "send" /\ UNCHANGED failed
        /\ scrapePc' = [scrapePc EXCEPT ![r][b] = "return"]
        /\ mfs' = [mfs EXCEPT ![r][b] = mfs[r][b] + 1]
    BY <1>15, SendFindsOpen
  <2>2. ~failed[r][b] /\ mfs[r][b] = 0
    BY <2>1
  <2> QED BY <2>1, <2>2
<1>16. ASSUME NEW r \in Requests, NEW b \in Backends, Done(r, b) PROVE Goal'
  BY <1>16 DEF Done
<1>17. ASSUME NEW k \in Buffers, DropBuf(k) PROVE Goal'
  BY <1>17 DEF DropBuf
<1> QED
  BY <1>1, <1>2, <1>3, <1>4, <1>5, <1>6, <1>7, <1>8,
     <1>9, <1>10, <1>11, <1>12, <1>13, <1>14, <1>15, <1>16, <1>17
     DEF Next, HandlerRuns, ScrapeReturns

\* Buffers stay apart: getBuf takes one that nobody has, giveBuf empties its own.
LEMMA BuffersNext ==
    ASSUME IInv, Next
    PROVE  BuffersApart'
<1> USE BuffersAssumption DEF IInv, TypeOK, BuffersApart, HoldsBuf,
        handlerVars, scrapeVars, aggrVars, bufVars, HandlerGoto, ScrapeGoto
<1>1. ASSUME NEW r \in Requests, Arrive(r) PROVE BuffersApart'
  BY <1>1 DEF Arrive
<1>2. ASSUME NEW r \in Requests, Cancel(r) PROVE BuffersApart'
  BY <1>2 DEF Cancel
<1>3. ASSUME NEW r \in Requests, NEW b \in Backends, StartScrape(r, b) PROVE BuffersApart'
  BY <1>3 DEF StartScrape
<1>4. ASSUME NEW r \in Requests, StartAggregator(r) PROVE BuffersApart'
  BY <1>4 DEF StartAggregator
<1>5. ASSUME NEW r \in Requests, WaitAndClose(r) PROVE BuffersApart'
  BY <1>5 DEF WaitAndClose
<1>6. ASSUME NEW r \in Requests, Collect(r) PROVE BuffersApart'
  BY <1>6 DEF Collect
<1>7. ASSUME NEW r \in Requests, NEW k \in Buffers, GetBuf(r, k) PROVE BuffersApart'
  BY <1>7 DEF GetBuf
<1>8. ASSUME NEW r \in Requests, Encode(r) PROVE BuffersApart'
  BY <1>8 DEF Encode
<1>9. ASSUME NEW r \in Requests, EncodeFails(r) PROVE BuffersApart'
  BY <1>9 DEF EncodeFails
<1>10. ASSUME NEW r \in Requests, Write(r) PROVE BuffersApart'
  BY <1>10 DEF Write
<1>11. ASSUME NEW r \in Requests, GiveBuf(r) PROVE BuffersApart'
  BY <1>11 DEF GiveBuf
<1>12. ASSUME NEW r \in Requests, AggregatorEnds(r) PROVE BuffersApart'
  BY <1>12 DEF AggregatorEnds
<1>13. ASSUME NEW r \in Requests, NEW b \in Backends, ScrapeSucceeds(r, b) PROVE BuffersApart'
  BY <1>13 DEF ScrapeSucceeds
<1>14. ASSUME NEW r \in Requests, NEW b \in Backends, ScrapeFails(r, b) PROVE BuffersApart'
  BY <1>14 DEF ScrapeFails
<1>15. ASSUME NEW r \in Requests, NEW b \in Backends, Send(r, b) PROVE BuffersApart'
  BY <1>15 DEF Send
<1>16. ASSUME NEW r \in Requests, NEW b \in Backends, Done(r, b) PROVE BuffersApart'
  BY <1>16 DEF Done
<1>17. ASSUME NEW k \in Buffers, DropBuf(k) PROVE BuffersApart'
  BY <1>17 DEF DropBuf
<1> QED
  BY <1>1, <1>2, <1>3, <1>4, <1>5, <1>6, <1>7, <1>8,
     <1>9, <1>10, <1>11, <1>12, <1>13, <1>14, <1>15, <1>16, <1>17
     DEF Next, HandlerRuns, ScrapeReturns

\* Write, the only step that responds with metrics, does so after the others;
\* nothing but a new request changes what the response is about.
LEMMA ResponsesNext ==
    ASSUME IInv, Next
    PROVE  (ResponseLast /\ ResponseComplete /\ ResponseIsOwn)'
<1> DEFINE Goal == ResponseLast /\ ResponseComplete /\ ResponseIsOwn
<1> USE DEF IInv, TypeOK, ResponseLast, ResponseComplete, ResponseIsOwn,
        IsMetrics, handlerVars, scrapeVars, aggrVars, bufVars, HandlerGoto,
        ScrapeGoto, NoResponse, ErrorResponse
<1>1. ASSUME NEW r \in Requests, Arrive(r) PROVE Goal'
  BY <1>1 DEF Arrive
<1>2. ASSUME NEW r \in Requests, Cancel(r) PROVE Goal'
  BY <1>2 DEF Cancel
<1>3. ASSUME NEW r \in Requests, NEW b \in Backends, StartScrape(r, b) PROVE Goal'
  BY <1>3 DEF StartScrape
<1>4. ASSUME NEW r \in Requests, StartAggregator(r) PROVE Goal'
  BY <1>4 DEF StartAggregator
<1>5. ASSUME NEW r \in Requests, WaitAndClose(r) PROVE Goal'
  BY <1>5 DEF WaitAndClose
<1>6. ASSUME NEW r \in Requests, Collect(r) PROVE Goal'
  BY <1>6 DEF Collect
<1>7. ASSUME NEW r \in Requests, NEW k \in Buffers, GetBuf(r, k) PROVE Goal'
  BY <1>7 DEF GetBuf
<1>8. ASSUME NEW r \in Requests, Encode(r) PROVE Goal'
  BY <1>8 DEF Encode
<1>9. ASSUME NEW r \in Requests, EncodeFails(r) PROVE Goal'
  BY <1>9 DEF EncodeFails
<1>10. ASSUME NEW r \in Requests, Write(r) PROVE Goal'
  <2>1. \A b \in Backends : scrapePc[r][b] = "done"
    BY <1>10 DEF Write, GoroutinesOf, Serializing
  <2>2. \A b \in Backends : mfs[r][b] = IF failed[r][b] THEN 0 ELSE 1
    BY <2>1 DEF AppendedOnce
  <2>3. bytes[buf[r]] = {r}
    BY <1>10 DEF Write, BuffersApart
  <2>4. /\ response' = [response EXCEPT ![r] =
               [status |-> "metrics", mfs |-> mfs[r], bytes |-> {r}]]
        /\ handlerPc' = [handlerPc EXCEPT ![r] = "giveBuf"]
        /\ UNCHANGED <<scrapePc, failed>>
    BY <1>10, <2>3 DEF Write
  <2> QED BY <2>1, <2>2, <2>4
<1>11. ASSUME NEW r \in Requests, GiveBuf(r) PROVE Goal'
  BY <1>11 DEF GiveBuf
<1>12. ASSUME NEW r \in Requests, AggregatorEnds(r) PROVE Goal'
  BY <1>12 DEF AggregatorEnds
<1>13. ASSUME NEW r \in Requests, NEW b \in Backends, ScrapeSucceeds(r, b) PROVE Goal'
  BY <1>13 DEF ScrapeSucceeds
<1>14. ASSUME NEW r \in Requests, NEW b \in Backends, ScrapeFails(r, b) PROVE Goal'
  BY <1>14 DEF ScrapeFails
<1>15. ASSUME NEW r \in Requests, NEW b \in Backends, Send(r, b) PROVE Goal'
  <2>1. /\ handlerPc[r] \in {"start", "wait"}
        /\ UNCHANGED <<response, failed, handlerPc>>
        /\ scrapePc' = [scrapePc EXCEPT ![r][b] = "return"]
    BY <1>15, SendFindsOpen
  <2>2. ~IsMetrics(r)
    BY <2>1
  <2>3. ASSUME NEW q \in Requests, q # r PROVE scrapePc'[q] = scrapePc[q]
    BY <2>1, <2>3
  <2> QED BY <2>1, <2>2, <2>3
<1>16. ASSUME NEW r \in Requests, NEW b \in Backends, Done(r, b) PROVE Goal'
  BY <1>16 DEF Done
<1>17. ASSUME NEW k \in Buffers, DropBuf(k) PROVE Goal'
  BY <1>17 DEF DropBuf
<1> QED
  BY <1>1, <1>2, <1>3, <1>4, <1>5, <1>6, <1>7, <1>8,
     <1>9, <1>10, <1>11, <1>12, <1>13, <1>14, <1>15, <1>16, <1>17
     DEF Next, HandlerRuns, ScrapeReturns

-----------------------------------------------------------------------------
(* The theorems.                                                           *)

\* The invariant is inductive.
LEMMA NextIInv == IInv /\ [Next]_vars => IInv'
<1> SUFFICES ASSUME IInv, [Next]_vars PROVE IInv'
  OBVIOUS
<1>1. CASE Next
  <2>1. TypeOK' /\ WaitGroupCounts' /\ BuffersApart'
    BY <1>1, TypeNext, CountsNext, BuffersNext
  <2>2. \A r \in Requests : GoroutinesOf(r)' /\ AppendedOnce(r)'
    BY <1>1, GoroutinesNext, AppendedNext
  <2>3. ResponseLast' /\ ResponseComplete' /\ ResponseIsOwn'
    BY <1>1, ResponsesNext
  <2> QED BY <2>1, <2>2, <2>3 DEF IInv
<1>2. CASE UNCHANGED vars
  BY <1>2 DEF vars, handlerVars, scrapeVars, aggrVars, bufVars, IInv, TypeOK,
     WaitGroupCounts, Busy, GoroutinesOf, Serializing, AppendedOnce,
     BuffersApart, HoldsBuf, ResponseLast, ResponseComplete, ResponseIsOwn,
     IsMetrics
<1> QED BY <1>1, <1>2

\* The inductive invariant holds in every state of the endpoint.
THEOREM Invariant == Spec => []IInv
BY InitIInv, NextIInv, PTL DEF Spec

\* Every variable keeps its type; no goroutine panics on a closed channel.
THEOREM TypeCorrect == Spec => []TypeOK
<1>1. IInv => TypeOK
  BY DEF IInv
<1> QED BY <1>1, Invariant, PTL

\* A response has the metrics of exactly the backends that did not fail, once.
THEOREM ResponsesComplete == Spec => []ResponseComplete
<1>1. IInv => ResponseComplete
  BY DEF IInv
<1> QED BY <1>1, Invariant, PTL

\* The bytes of a response are of its own request, whatever buffers are reused.
THEOREM ResponsesOwn == Spec => []ResponseIsOwn
<1>1. IInv => ResponseIsOwn
  BY DEF IInv
<1> QED BY <1>1, Invariant, PTL

\* A handler that serializes has left no goroutine behind.
THEOREM NothingLeftBehind == Spec => []NoGoroutineLeft
<1>1. IInv => NoGoroutineLeft
  BY DEF IInv, GoroutinesOf, NoGoroutineLeft, Serializing
<1> QED BY <1>1, Invariant, PTL

-----------------------------------------------------------------------------
(* Nothing holds a request up but its backends.                            *)

\* Whatever waits in a request for a result, a receiver or the closing of mfsCh
\* waits for somebody who comes (reverse_proxy.go, serveMetricsHTTP).
THEOREM BackendsOnly == Spec => []WaitsForBackendsOnly
<1>1. IInv => WaitsForBackendsOnly
  <2> SUFFICES ASSUME IInv, NEW r \in Requests, handlerPc[r] # "idle",
                      ~HandlerCanMove(r), ~AggregatorCanMove(r),
                      \A b \in Backends :
                        ~SenderCanMove(r, b) /\ scrapePc[r][b] # "scraping"
               PROVE  FALSE
    BY DEF WaitsForBackendsOnly
  <2>1. handlerPc[r] \in {"wait", "collect"}
    BY DEF HandlerCanMove, IInv, TypeOK, HandlerPcs
  <2>2. CASE handlerPc[r] = "wait"
    <3>1. PICK b \in Backends : scrapePc[r][b] = "send"
      BY <2>2, WaitGroupZero DEF HandlerCanMove, Busy, SenderCanMove
    <3>2. aggregatorPc[r] = "range"
      BY <2>2 DEF IInv, GoroutinesOf
    <3> QED BY <3>1, <3>2 DEF SenderCanMove
  <2>3. CASE handlerPc[r] = "collect"
    BY <2>3 DEF HandlerCanMove, AggregatorCanMove, IInv, GoroutinesOf
  <2> QED BY <2>1, <2>2, <2>3
<1> QED BY <1>1, Invariant, PTL

\* The ranks.
LEMMA Ranks ==
    /\ HandlerRank["start"] = 0 /\ HandlerRank["wait"] = 1
    /\ HandlerRank["collect"] = 2 /\ HandlerRank["getBuf"] = 3
    /\ HandlerRank["encode"] = 4 /\ HandlerRank["write"] = 5
    /\ HandlerRank["giveBuf"] = 6 /\ HandlerRank["idle"] = 7
    /\ ScrapeRank["none"] = 0 /\ ScrapeRank["scraping"] = 1 /\ ScrapeRank["send"] = 2
    /\ ScrapeRank["return"] = 3 /\ ScrapeRank["done"] = 4
    /\ AggregatorRank["none"] = 0 /\ AggregatorRank["range"] = 1
    /\ AggregatorRank["result"] = 2 /\ AggregatorRank["done"] = 3
BY DEF HandlerRank, ScrapeRank, AggregatorRank

\* A set of steps of backends can be counted.
LEMMA StepsFinite ==
    \A S \in SUBSET (Backends \X (1..4)) : IsFiniteSet(S) /\ Cardinality(S) \in Nat
<1>1. IsFiniteSet(1..4)
  <2>1. \A S \in SUBSET Nat : (\A i \in S : i <= 4) => IsFiniteSet(S)
    BY FS_BoundedSetOfNaturals
  <2>2. 1..4 \in SUBSET Nat /\ \A i \in 1..4 : i <= 4
    OBVIOUS
  <2> QED BY <2>1, <2>2
<1>2. IsFiniteSet(Backends \X (1..4))
  BY <1>1, BackendsAssumption, FS_Product
<1> QED BY <1>2, FS_Subset, FS_CardinalityType

\* A backend's goroutine that goes on has fewer before it.
LEMMA ScrapeNearer ==
    ASSUME NEW r \in Requests, NEW b \in Backends, ScrapeRank[scrapePc[r][b]] \in Nat,
           ScrapeRank[scrapePc'[r][b]] \in 1..4,
           ScrapeRank[scrapePc[r][b]] < ScrapeRank[scrapePc'[r][b]],
           \A c \in Backends \ {b} : scrapePc'[r][c] = scrapePc[r][c]
    PROVE  Cardinality(ScrapeSteps(r)') < Cardinality(ScrapeSteps(r))
<1> DEFINE S == ScrapeSteps(r)
           x == <<b, ScrapeRank[scrapePc'[r][b]]>>
<1>1. S' \subseteq S
  BY DEF ScrapeSteps
<1>2. x \in S /\ x \notin S'
  BY DEF ScrapeSteps
<1>3. S \in SUBSET (Backends \X (1..4)) /\ S' \in SUBSET (Backends \X (1..4))
  BY DEF ScrapeSteps
<1>4. IsFiniteSet(S) /\ Cardinality(S) \in Nat /\ Cardinality(S') \in Nat
  BY <1>3, StepsFinite
<1>5. Cardinality(S') <= Cardinality(S) /\ Cardinality(S') # Cardinality(S)
  BY <1>1, <1>2, <1>4, FS_Subset
<1> QED BY <1>4, <1>5

\* A step of a backend's goroutine, and one of the handler or the aggregator.
LEMMA ScrapeStepCounts ==
    ASSUME IInv, NEW r \in Requests, NEW b \in Backends,
           scrapePc' = [scrapePc EXCEPT ![r][b] = scrapePc'[r][b]],
           <<scrapePc[r][b], scrapePc'[r][b]>> \in
             {<<"none", "scraping">>, <<"scraping", "send">>, <<"scraping", "return">>,
              <<"send", "return">>, <<"return", "done">>},
           UNCHANGED <<handlerPc, aggregatorPc>>
    PROVE  /\ StepsLeft(r)' < StepsLeft(r)
           /\ \A q \in Requests \ {r} :
                UNCHANGED <<handlerPc[q], scrapePc[q], aggregatorPc[q]>>
<1>1. /\ \A c \in Backends \ {b} : scrapePc'[r][c] = scrapePc[r][c]
      /\ \A q \in Requests \ {r} : scrapePc'[q] = scrapePc[q]
  BY DEF IInv, TypeOK
<1>2. Cardinality(ScrapeSteps(r)') < Cardinality(ScrapeSteps(r))
  BY <1>1, Ranks, ScrapeNearer
<1>3. /\ ScrapeSteps(r) \in SUBSET (Backends \X (1..4))
      /\ ScrapeSteps(r)' \in SUBSET (Backends \X (1..4))
  BY DEF ScrapeSteps
<1>4. Cardinality(ScrapeSteps(r)) \in Nat /\ Cardinality(ScrapeSteps(r)') \in Nat
  BY <1>3, StepsFinite
<1>5. HandlerRank[handlerPc[r]] \in 0..7 /\ AggregatorRank[aggregatorPc[r]] \in 0..3
  <2>1. handlerPc[r] \in HandlerPcs /\ aggregatorPc[r] \in {"none", "range", "result", "done"}
    BY DEF IInv, TypeOK
  <2> QED BY <2>1, Ranks DEF HandlerPcs
<1> QED BY <1>1, <1>2, <1>4, <1>5 DEF StepsLeft

LEMMA HandlerStepCounts ==
    ASSUME IInv, NEW r \in Requests, UNCHANGED scrapePc,
           \A q \in Requests \ {r} : UNCHANGED <<handlerPc[q], aggregatorPc[q]>>,
           \/ /\ <<handlerPc[r], handlerPc'[r]>> \in
                   {<<"wait", "collect">>, <<"getBuf", "encode">>, <<"encode", "write">>,
                    <<"encode", "giveBuf">>, <<"write", "giveBuf">>, <<"giveBuf", "idle">>}
              /\ UNCHANGED aggregatorPc
           \/ /\ <<handlerPc[r], handlerPc'[r]>> \in
                   {<<"start", "wait">>, <<"collect", "getBuf">>}
              /\ <<aggregatorPc[r], aggregatorPc'[r]>> \in
                   {<<"none", "range">>, <<"result", "done">>}
           \/ /\ <<aggregatorPc[r], aggregatorPc'[r]>> = <<"range", "result">>
              /\ UNCHANGED handlerPc
    PROVE  /\ StepsLeft(r)' < StepsLeft(r)
           /\ \A q \in Requests \ {r} :
                UNCHANGED <<handlerPc[q], scrapePc[q], aggregatorPc[q]>>
<1>1. ScrapeSteps(r)' = ScrapeSteps(r)
  BY DEF ScrapeSteps
<1>2. ScrapeSteps(r) \in SUBSET (Backends \X (1..4))
  BY DEF ScrapeSteps
<1>3. Cardinality(ScrapeSteps(r)) \in Nat
  BY <1>2, StepsFinite
<1>4. HandlerRank[handlerPc[r]] \in 0..7 /\ AggregatorRank[aggregatorPc[r]] \in 0..3
  <2>1. handlerPc[r] \in HandlerPcs /\ aggregatorPc[r] \in {"none", "range", "result", "done"}
    BY DEF IInv, TypeOK
  <2> QED BY <2>1, Ranks DEF HandlerPcs
<1>5. (7 - HandlerRank[handlerPc'[r]]) + (3 - AggregatorRank[aggregatorPc'[r]])
        < (7 - HandlerRank[handlerPc[r]]) + (3 - AggregatorRank[aggregatorPc[r]])
  BY <1>4, Ranks
<1>6. HandlerRank[handlerPc'[r]] \in 0..7 /\ AggregatorRank[aggregatorPc'[r]] \in 0..3
  BY <1>4, Ranks
<1> QED BY <1>1, <1>3, <1>4, <1>5, <1>6 DEF StepsLeft

\* A request has a bounded number of steps, whatever other requests do: with
\* BackendsOnly, it ends when its backends let it.
THEOREM EveryStepCounts == Spec => RequestMovesOn
<1>1. ASSUME IInv, Next, NEW q \in Requests, handlerPc[q] # "idle"
      PROVE  \/ UNCHANGED <<handlerPc[q], scrapePc[q], aggregatorPc[q]>>
             \/ StepsLeft(q)' < StepsLeft(q)
  <2> USE <1>1 DEF handlerVars, scrapeVars, aggrVars, HandlerGoto, ScrapeGoto
  <2> DEFINE Goal == \/ UNCHANGED <<handlerPc[q], scrapePc[q], aggregatorPc[q]>>
                     \/ StepsLeft(q)' < StepsLeft(q)
  <2>1. ASSUME NEW r \in Requests, Arrive(r) PROVE Goal
    BY <2>1 DEF Arrive, IInv, TypeOK
  <2>2. ASSUME NEW r \in Requests, Cancel(r) PROVE Goal
    BY <2>2 DEF Cancel
  <2>3. ASSUME NEW k \in Buffers, DropBuf(k) PROVE Goal
    BY <2>3 DEF DropBuf
  <2>4. ASSUME NEW r \in Requests, NEW b \in Backends,
               \/ StartScrape(r, b) \/ ScrapeSucceeds(r, b) \/ ScrapeFails(r, b)
               \/ Send(r, b) \/ Done(r, b)
        PROVE  Goal
    <3>1. /\ scrapePc' = [scrapePc EXCEPT ![r][b] = scrapePc'[r][b]]
          /\ <<scrapePc[r][b], scrapePc'[r][b]>> \in
               {<<"none", "scraping">>, <<"scraping", "send">>, <<"scraping", "return">>,
                <<"send", "return">>, <<"return", "done">>}
          /\ UNCHANGED <<handlerPc, aggregatorPc>>
      <4>1. CASE Send(r, b)
        <5>1. /\ scrapePc[r][b] = "send"
              /\ scrapePc' = [scrapePc EXCEPT ![r][b] = "return"]
              /\ UNCHANGED <<handlerPc, aggregatorPc>>
          BY <4>1, SendFindsOpen DEF Send
        <5>2. scrapePc'[r][b] = "return"
          BY <5>1 DEF IInv, TypeOK
        <5> QED BY <5>1, <5>2
      <4>2. CASE ~Send(r, b)
        BY <2>4, <4>2 DEF StartScrape, ScrapeSucceeds, ScrapeFails, Done, IInv, TypeOK
      <4> QED BY <4>1, <4>2
    <3> QED BY <3>1, ScrapeStepCounts
  <2>5. ASSUME NEW r \in Requests, HandlerRuns(r) \/ AggregatorEnds(r),
               \A b \in Backends : ~StartScrape(r, b)
        PROVE  Goal
    <3>1. UNCHANGED scrapePc
      BY <2>5 DEF HandlerRuns, StartAggregator, WaitAndClose, Collect, GetBuf, Encode,
                  EncodeFails, Write, GiveBuf, AggregatorEnds
    <3>2. \A p \in Requests \ {r} : UNCHANGED <<handlerPc[p], aggregatorPc[p]>>
      BY <2>5 DEF HandlerRuns, StartAggregator, WaitAndClose, Collect, GetBuf, Encode,
                  EncodeFails, Write, GiveBuf, AggregatorEnds, IInv, TypeOK
    <3>3. CASE StartAggregator(r) \/ Collect(r)
      <4>1. /\ <<handlerPc[r], handlerPc'[r]>> \in
                 {<<"start", "wait">>, <<"collect", "getBuf">>}
            /\ <<aggregatorPc[r], aggregatorPc'[r]>> \in
                 {<<"none", "range">>, <<"result", "done">>}
        BY <3>3 DEF StartAggregator, Collect, IInv, TypeOK, GoroutinesOf
      <4> QED BY <3>1, <3>2, <4>1, HandlerStepCounts
    <3>4. CASE AggregatorEnds(r)
      <4>1. /\ <<aggregatorPc[r], aggregatorPc'[r]>> = <<"range", "result">>
            /\ UNCHANGED handlerPc
        BY <3>4 DEF AggregatorEnds, IInv, TypeOK
      <4> QED BY <3>1, <3>2, <4>1, HandlerStepCounts
    <3>5. CASE ~StartAggregator(r) /\ ~Collect(r) /\ ~AggregatorEnds(r)
      <4>1. /\ <<handlerPc[r], handlerPc'[r]>> \in
                 {<<"wait", "collect">>, <<"getBuf", "encode">>, <<"encode", "write">>,
                  <<"encode", "giveBuf">>, <<"write", "giveBuf">>, <<"giveBuf", "idle">>}
            /\ UNCHANGED aggregatorPc
        BY <2>5, <3>5 DEF HandlerRuns, WaitAndClose, GetBuf, Encode, EncodeFails, Write,
                          GiveBuf, IInv, TypeOK
      <4> QED BY <3>1, <3>2, <4>1, HandlerStepCounts
    <3> QED BY <3>3, <3>4, <3>5
  <2> QED BY <2>1, <2>2, <2>3, <2>4, <2>5 DEF Next, HandlerRuns, ScrapeReturns
<1>2. ASSUME IInv, [Next]_vars
      PROVE  [\A r \in Requests : handlerPc[r] # "idle" =>
                \/ UNCHANGED <<handlerPc[r], scrapePc[r], aggregatorPc[r]>>
                \/ StepsLeft(r)' < StepsLeft(r)]_vars
  BY <1>1, <1>2
<1> QED BY <1>2, Invariant, PTL DEF Spec, RequestMovesOn
=============================================================================
