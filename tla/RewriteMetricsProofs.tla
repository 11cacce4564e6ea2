------------------------ MODULE RewriteMetricsProofs ------------------------
(***************************************************************************)
(* Proofs about RewriteMetrics for any number of requests and metrics.     *)
(* Each action gets a lemma that says what it changes, word by word, from  *)
(* which the invariant follows.                                            *)
(***************************************************************************)
EXTENDS RewriteMetrics, TLAPS

\* Nothing has been loaded, stored or sent.
LEMMA InitIInv == Init => IInv
<1> SUFFICES ASSUME Init PROVE IInv
  OBVIOUS
<1>1. TypeOK
  BY DEF Init, TypeOK, Slices, Arrays, Lengths, NothingLoaded, None
<1>2. NeverLossy
  BY DEF Init, NeverLossy
<1>3. ASSUME NEW r \in Requests PROVE NamedState(r) /\ OwnState(r)
  BY DEF Init, NamedState, OwnState, NothingLoaded, None, NewSlice, LengthOf
<1> QED BY <1>1, <1>2, <1>3 DEF IInv

-----------------------------------------------------------------------------
(* What a step changes.                                                    *)

\* A word is loaded: the request may then hold it, or hold what it held.
LEMMA LoadChanges ==
    ASSUME TypeOK, NEW r \in Requests, NEW w \in {"array", "length"}, LoadWord(r, w)
    PROVE  /\ pc[r] \in {"load", "serialize"}
           /\ loaded' \in [Requests -> [array : Arrays \union {None},
                                        length : Lengths \union {None}]]
           /\ loaded'[r].array \in {loaded[r].array, label[metric[r]].array}
           /\ loaded'[r].length \in {loaded[r].length, label[metric[r]].length}
           /\ \A q \in Requests \ {r} : loaded'[q] = loaded[q]
           /\ UNCHANGED <<metric, nameLast, label, pc, toStore, sent>>
<1>1. CASE w = "array"
  BY <1>1 DEF TypeOK, LoadWord, Slices
<1>2. CASE w = "length"
  BY <1>2 DEF TypeOK, LoadWord, Slices
<1> QED BY <1>1, <1>2

\* A word is stored: the label then has it, and its other word is as before.
LEMMA StoreChanges ==
    ASSUME TypeOK, NEW r \in Requests, NEW w \in {"array", "length"}, StoreWord(r, w)
    PROVE  /\ pc[r] = "store"
           /\ label' \in [Metrics -> Slices]
           /\ toStore' \in [Requests -> [array : Arrays \union {None},
                                         length : Lengths \union {None}]]
           /\ \/ /\ toStore[r].array # None /\ toStore'[r].array = None
                 /\ toStore'[r].length = toStore[r].length
                 /\ label'[metric[r]].array = toStore[r].array
                 /\ label'[metric[r]].length = label[metric[r]].length
              \/ /\ toStore[r].length # None /\ toStore'[r].length = None
                 /\ toStore'[r].array = toStore[r].array
                 /\ label'[metric[r]].length = toStore[r].length
                 /\ label'[metric[r]].array = label[metric[r]].array
           /\ \A m \in Metrics \ {metric[r]} : label'[m] = label[m]
           /\ \A q \in Requests \ {r} : toStore'[q] = toStore[q]
           /\ UNCHANGED <<metric, nameLast, pc, loaded, sent>>
<1>1. toStore[r][w] \in IF w = "array" THEN Arrays ELSE Lengths
  BY DEF TypeOK, StoreWord
<1>2. /\ toStore' = [toStore EXCEPT ![r][w] = None]
      /\ label' = [label EXCEPT ![metric[r]][w] = toStore[r][w]]
      /\ toStore[r][w] # None /\ metric[r] \in Metrics
  BY DEF TypeOK, StoreWord
<1>3. CASE w = "array"
  <2>1. label' \in [Metrics -> Slices]
    BY <1>1, <1>2, <1>3 DEF TypeOK, Slices
  <2>2. toStore' \in [Requests -> [array : Arrays \union {None},
                                   length : Lengths \union {None}]]
    BY <1>2, <1>3 DEF TypeOK
  <2>3. /\ toStore'[r].array = None /\ toStore'[r].length = toStore[r].length
        /\ \A q \in Requests \ {r} : toStore'[q] = toStore[q]
    BY <1>2, <1>3 DEF TypeOK
  <2>4. /\ label'[metric[r]].array = toStore[r].array
        /\ label'[metric[r]].length = label[metric[r]].length
        /\ \A m \in Metrics \ {metric[r]} : label'[m] = label[m]
    BY <1>2, <1>3 DEF TypeOK, Slices
  <2> QED BY <1>2, <1>3, <2>1, <2>2, <2>3, <2>4 DEF StoreWord
<1>4. CASE w = "length"
  <2>1. label' \in [Metrics -> Slices]
    BY <1>1, <1>2, <1>4 DEF TypeOK, Slices
  <2>2. toStore' \in [Requests -> [array : Arrays \union {None},
                                   length : Lengths \union {None}]]
    BY <1>2, <1>4 DEF TypeOK
  <2>3. /\ toStore'[r].length = None /\ toStore'[r].array = toStore[r].array
        /\ \A q \in Requests \ {r} : toStore'[q] = toStore[q]
    BY <1>2, <1>4 DEF TypeOK
  <2>4. /\ label'[metric[r]].length = toStore[r].length
        /\ label'[metric[r]].array = label[metric[r]].array
        /\ \A m \in Metrics \ {metric[r]} : label'[m] = label[m]
    BY <1>2, <1>4 DEF TypeOK, Slices
  <2> QED BY <1>2, <1>4, <2>1, <2>2, <2>3, <2>4 DEF StoreWord
<1> QED BY <1>3, <1>4

\* The labels are merged: the request has both words of a slice to store.
LEMMA MergeChanges ==
    ASSUME TypeOK, NEW r \in Requests, Merge(r)
    PROVE  /\ pc[r] = "load" /\ Loaded(r) /\ pc' = [pc EXCEPT ![r] = "store"]
           /\ toStore' = [toStore EXCEPT ![r] = NewSlice(Merged(r))]
           /\ toStore'[r].array = Merged(r)
           /\ toStore'[r].length = LengthOf(Merged(r))
           /\ toStore'[r] \in Slices
           /\ loaded' = [loaded EXCEPT ![r] = NothingLoaded]
           /\ UNCHANGED <<metric, nameLast, label, sent>>
BY DEF TypeOK, Merge, NewSlice, Slices, LengthOf, Merged, Arrays, Lengths

\* The requests that do not step are as they were.
LEMMA OthersStay ==
    ASSUME TypeOK, NEW r \in Requests, NEW q \in Requests \ {r},
           \/ \E w \in {"array", "length"} : LoadWord(r, w) \/ StoreWord(r, w)
           \/ Merge(r) \/ BeginSerialize(r) \/ Serialize(r) \/ Crash(r)
    PROVE  /\ pc'[q] = pc[q] /\ loaded'[q] = loaded[q]
           /\ toStore'[q] = toStore[q] /\ sent'[q] = sent[q]
           /\ UNCHANGED <<metric, nameLast>>
<1>1. ASSUME NEW w \in {"array", "length"}, LoadWord(r, w) \/ StoreWord(r, w)
      PROVE  /\ pc'[q] = pc[q] /\ loaded'[q] = loaded[q]
             /\ toStore'[q] = toStore[q] /\ sent'[q] = sent[q]
             /\ UNCHANGED <<metric, nameLast>>
  BY <1>1 DEF TypeOK, LoadWord, StoreWord
<1>2. CASE Merge(r) \/ BeginSerialize(r) \/ Serialize(r) \/ Crash(r)
  BY <1>2 DEF TypeOK, Merge, BeginSerialize, Serialize, Crash
<1> QED BY <1>1, <1>2

-----------------------------------------------------------------------------
(* Every step keeps each conjunct.                                         *)

LEMMA TypeOKKept == TypeOK /\ [Next]_vars => TypeOK'
<1> SUFFICES ASSUME TypeOK, [Next]_vars PROVE TypeOK'
  OBVIOUS
<1>1. CASE UNCHANGED vars
  BY <1>1 DEF TypeOK, vars
<1>2. ASSUME NEW r \in Requests, NEW w \in {"array", "length"}, LoadWord(r, w)
      PROVE  TypeOK'
  BY <1>2, LoadChanges DEF TypeOK
<1>3. ASSUME NEW r \in Requests, NEW w \in {"array", "length"}, StoreWord(r, w)
      PROVE  TypeOK'
  BY <1>3, StoreChanges DEF TypeOK
<1>4. ASSUME NEW r \in Requests, Merge(r) PROVE TypeOK'
  <2>1. NothingLoaded \in [array : Arrays \union {None}, length : Lengths \union {None}]
    BY DEF NothingLoaded
  <2>2. toStore'[r] \in [array : Arrays \union {None}, length : Lengths \union {None}]
    BY <1>4, MergeChanges DEF Slices
  <2>3. /\ toStore' = [toStore EXCEPT ![r] = toStore'[r]]
        /\ loaded' = [loaded EXCEPT ![r] = NothingLoaded]
        /\ pc' = [pc EXCEPT ![r] = "store"]
        /\ UNCHANGED <<metric, nameLast, label, sent>>
    BY <1>4, MergeChanges DEF TypeOK
  <2> QED BY <2>1, <2>2, <2>3 DEF TypeOK
<1>5. ASSUME NEW r \in Requests, BeginSerialize(r) \/ Crash(r) PROVE TypeOK'
  <2>1. /\ pc' \in [Requests -> {"load", "store", "serialize", "done", "crashed"}]
        /\ UNCHANGED <<metric, nameLast, label, loaded, toStore, sent>>
    BY <1>5 DEF TypeOK, BeginSerialize, Crash
  <2> QED BY <2>1 DEF TypeOK
<1>6. ASSUME NEW r \in Requests, Serialize(r) PROVE TypeOK'
  BY <1>6 DEF TypeOK, Serialize
<1> QED BY <1>1, <1>2, <1>3, <1>4, <1>5, <1>6 DEF Next

\* Where exporter_name is the last label, a merge loses no label.
LEMMA NeverLossyKept == IInv /\ [Next]_vars => NeverLossy'
<1> SUFFICES ASSUME IInv, [Next]_vars PROVE NeverLossy'
  OBVIOUS
<1> USE DEF IInv
<1>1. CASE UNCHANGED <<nameLast, label>>
  BY <1>1 DEF NeverLossy
<1>2. ASSUME NEW r \in Requests, NEW w \in {"array", "length"}, StoreWord(r, w)
      PROVE  NeverLossy'
  <2>1. nameLast' = nameLast
    BY <1>2 DEF StoreWord
  <2>2. nameLast => toStore[r].array # "lossy"
    BY DEF NamedState
  <2>3. ASSUME NEW m \in Metrics
        PROVE  label'[m].array \in {label[m].array, toStore[r].array}
    BY <1>2, StoreChanges
  <2>4. ASSUME nameLast, NEW m \in Metrics PROVE label'[m].array # "lossy"
    BY <2>2, <2>3, <2>4 DEF NeverLossy
  <2> QED BY <2>1, <2>4 DEF NeverLossy
<1> QED
  BY <1>1, <1>2
  DEF Next, vars, LoadWord, Merge, BeginSerialize, Serialize, Crash

\* Whatever the others store is named as well.
LEMMA NamedStateKept ==
    IInv /\ [Next]_vars => \A q \in Requests : NamedState(q)'
<1> SUFFICES ASSUME IInv, [Next]_vars, NEW q \in Requests PROVE NamedState(q)'
  OBVIOUS
<1> USE DEF IInv
<1>1. CASE UNCHANGED vars
  BY <1>1 DEF NamedState, vars
<1>2. ASSUME NEW r \in Requests, NEW w \in {"array", "length"}, LoadWord(r, w)
      PROVE  NamedState(q)'
  <2>1. metric[r] \in Metrics
    BY DEF TypeOK
  <2>2. CASE q = r
    BY <1>2, <2>1, <2>2, LoadChanges DEF NamedState, NeverLossy
  <2>3. CASE q # r
    BY <1>2, <2>3, LoadChanges DEF NamedState
  <2> QED BY <2>2, <2>3
<1>3. ASSUME NEW r \in Requests, NEW w \in {"array", "length"}, StoreWord(r, w)
      PROVE  NamedState(q)'
  <2>1. metric[r] \in Metrics /\ metric[q] \in Metrics
    BY DEF TypeOK
  <2>2. NamedState(r) /\ NamedState(q)
    OBVIOUS
  <2>3. toStore[r].length \in {"n", "n+1", None}
    BY DEF TypeOK, Lengths
  <2>4. CASE q = r
    BY <1>3, <2>1, <2>2, <2>3, <2>4, StoreChanges DEF NamedState, None
  <2>5. CASE q # r /\ metric[q] = metric[r]
    BY <1>3, <2>1, <2>2, <2>3, <2>5, StoreChanges DEF NamedState, None
  <2>6. CASE q # r /\ metric[q] # metric[r]
    BY <1>3, <2>1, <2>2, <2>6, StoreChanges DEF NamedState
  <2> QED BY <2>4, <2>5, <2>6
<1>4. ASSUME NEW r \in Requests, Merge(r) PROVE NamedState(q)'
  <2>1. CASE q = r
    <3>1. /\ pc'[r] = "store" /\ loaded'[r] = NothingLoaded
          /\ UNCHANGED <<nameLast, label, metric, sent>>
      BY <1>4, MergeChanges DEF TypeOK
    <3>2. Merged(r) \in {"lossy", "merged"} /\ (nameLast => Merged(r) = "merged")
      BY DEF Merged, NamedState
    <3>3. toStore'[r].array \in {"lossy", "merged"} /\ toStore'[r].length \in {"n", "n+1"}
      BY <1>4, <3>2, MergeChanges DEF LengthOf
    <3>4. nameLast => toStore'[r].array = "merged" /\ toStore'[r].length = "n+1"
      BY <1>4, <3>2, MergeChanges DEF LengthOf
    <3> QED BY <2>1, <3>1, <3>3, <3>4 DEF NamedState, NothingLoaded, None
  <2>2. CASE q # r
    BY <1>4, <2>2, MergeChanges, OthersStay DEF NamedState
  <2> QED BY <2>1, <2>2
<1>5. ASSUME NEW r \in Requests, BeginSerialize(r) PROVE NamedState(q)'
  <2>1. CASE q = r
    <3>1. /\ pc[q] = "store" /\ pc'[q] = "serialize"
          /\ toStore[q].array = None /\ toStore[q].length = None
          /\ UNCHANGED <<metric, nameLast, label, loaded, toStore, sent>>
      BY <1>5, <2>1 DEF BeginSerialize, NothingLoaded, TypeOK
    <3>2. loaded[q] = NothingLoaded
      BY <3>1 DEF NamedState
    <3> QED BY <3>1, <3>2 DEF NamedState, NothingLoaded, None
  <2>2. CASE q # r
    BY <1>5, <2>2 DEF NamedState, BeginSerialize, TypeOK
  <2> QED BY <2>1, <2>2
<1>6. ASSUME NEW r \in Requests, Serialize(r) \/ Crash(r) PROVE NamedState(q)'
  <2>1. CASE q = r /\ Serialize(r)
    BY <2>1 DEF NamedState, Serialize, TypeOK, Truncated
  <2>2. CASE q # r \/ Crash(r)
    BY <1>6, <2>2 DEF NamedState, Serialize, Crash, TypeOK
  <2> QED BY <1>6, <2>1, <2>2
<1> QED BY <1>1, <1>2, <1>3, <1>4, <1>5, <1>6 DEF Next

\* Nobody else writes the labels of a request that shares none.
LEMMA OwnStateKept ==
    IInv /\ [Next]_vars => \A q \in Requests : Own(q)' => OwnState(q)'
<1> SUFFICES ASSUME IInv, [Next]_vars, NEW q \in Requests, Own(q)'
             PROVE  OwnState(q)'
  OBVIOUS
<1> USE DEF IInv
<1>1. UNCHANGED metric
  BY DEF Next, LoadWord, StoreWord, Merge, BeginSerialize, Serialize, Crash, vars
<1>2. Own(q) /\ OwnState(q) /\ metric[q] \in Metrics
  BY <1>1 DEF Own, TypeOK
<1>3. CASE UNCHANGED vars
  BY <1>2, <1>3 DEF OwnState, vars
<1>4. ASSUME NEW r \in Requests, q # r,
             \/ \E w \in {"array", "length"} : LoadWord(r, w) \/ StoreWord(r, w)
             \/ Merge(r) \/ BeginSerialize(r) \/ Serialize(r) \/ Crash(r)
      PROVE  OwnState(q)'
  <2>1. metric[r] # metric[q]
    BY <1>2, <1>4 DEF Own
  <2>2. label'[metric[q]] = label[metric[q]]
    BY <1>2, <1>4, <2>1, StoreChanges
    DEF LoadWord, Merge, BeginSerialize, Serialize, Crash
  <2>3. /\ pc'[q] = pc[q] /\ loaded'[q] = loaded[q]
        /\ toStore'[q] = toStore[q] /\ sent'[q] = sent[q]
    BY <1>4, OthersStay
  <2> QED BY <1>1, <1>2, <2>2, <2>3 DEF OwnState
<1>5. ASSUME NEW w \in {"array", "length"}, LoadWord(q, w) PROVE OwnState(q)'
  BY <1>2, <1>5, LoadChanges DEF OwnState, NewSlice, LengthOf
<1>6. ASSUME NEW w \in {"array", "length"}, StoreWord(q, w) PROVE OwnState(q)'
  BY <1>2, <1>6, StoreChanges DEF OwnState, None
<1>7. CASE Merge(q)
  <2>1. Merged(q) = "merged"
    BY <1>2, <1>7 DEF Merge, OwnState, Merged, Truncated, Loaded, None
  <2>2. toStore'[q].array = "merged" /\ toStore'[q].length = "n+1"
    BY <1>7, <2>1, MergeChanges DEF LengthOf
  <2>3. pc'[q] = "store" /\ loaded'[q] = NothingLoaded /\ UNCHANGED sent
    BY <1>7, MergeChanges DEF TypeOK
  <2> QED BY <1>2, <2>2, <2>3 DEF OwnState, None
<1>8. CASE BeginSerialize(q)
  <2>1. /\ pc[q] = "store" /\ pc'[q] = "serialize" /\ toStore[q] = NothingLoaded
        /\ UNCHANGED <<label, loaded, sent>> /\ loaded[q] = NothingLoaded
    BY <1>8 DEF BeginSerialize, TypeOK, NamedState
  <2>2. label[metric[q]] = NewSlice("merged")
    BY <1>2, <2>1 DEF OwnState, NothingLoaded, NewSlice, LengthOf, TypeOK, Slices
  <2> QED BY <1>1, <1>2, <2>1, <2>2 DEF OwnState, NothingLoaded
<1>9. CASE Serialize(q)
  BY <1>1, <1>2, <1>9 DEF OwnState, Serialize, TypeOK, Loaded, Truncated, None
<1>10. CASE Crash(q)
  BY <1>2, <1>10 DEF OwnState, Crash, Overrun, Loaded, LengthOf, None
<1> QED BY <1>3, <1>4, <1>5, <1>6, <1>7, <1>8, <1>9, <1>10 DEF Next

-----------------------------------------------------------------------------

\* IInv is an invariant of the requests.
THEOREM Invariant == Spec => []IInv
<1>1. IInv /\ [Next]_vars => IInv'
  BY TypeOKKept, NeverLossyKept, NamedStateKept, OwnStateKept DEF IInv
<1> QED BY InitIInv, <1>1, PTL DEF Spec

\* Every variable keeps its type.
THEOREM TypeCorrect == Spec => []TypeOK
<1>1. IInv => TypeOK
  BY DEF IInv
<1> QED BY <1>1, Invariant, PTL

\* Metrics a request decoded for itself are sent with all their labels and
\* exporter_name, whatever other requests do (rewriteMetrics in utils.go).
THEOREM OwnMetricsComplete == Spec => []OwnComplete
<1>1. IInv => OwnComplete
  BY DEF IInv, OwnComplete, Own, OwnState
<1> QED BY <1>1, Invariant, PTL

\* No request sends a metric without exporter_name, though many rewrite it.
THEOREM AllNamed == Spec => []NamedAlways
<1>1. IInv => NamedAlways
  BY DEF IInv, NamedAlways, NamedState
<1> QED BY <1>1, Invariant, PTL

\* Cached metrics that are complete are not changed by rewriting them again.
THEOREM SettledForGood == Spec => StaysSettled
<1>1. ASSUME TypeOK, [Next]_vars, NEW m \in Metrics, Settled(m) PROVE Settled(m)'
  <2>1. CASE UNCHANGED vars
    BY <1>1, <2>1 DEF Settled, vars, NewSlice, LengthOf
  <2>2. label[m].array = "merged" /\ label[m].length = "n+1"
    BY <1>1 DEF Settled, NewSlice, LengthOf
  <2>3. ASSUME NEW r \in Requests, NEW w \in {"array", "length"}, LoadWord(r, w)
        PROVE  Settled(m)'
    BY <1>1, <2>2, <2>3, LoadChanges DEF Settled, NewSlice, LengthOf
  <2>4. ASSUME NEW r \in Requests, NEW w \in {"array", "length"}, StoreWord(r, w)
        PROVE  Settled(m)'
    <3>1. label'[m].array = "merged" /\ label'[m].length = "n+1"
      BY <1>1, <2>2, <2>4, StoreChanges DEF Settled
    <3>2. label'[m] \in Slices
      BY <1>1, <2>4, StoreChanges
    <3>3. label'[m] = NewSlice("merged")
      BY <3>1, <3>2 DEF Slices, NewSlice, LengthOf
    <3> QED BY <1>1, <2>4, <3>3, StoreChanges DEF Settled, NewSlice, LengthOf
  <2>5. ASSUME NEW r \in Requests, Merge(r) PROVE Settled(m)'
    <3>1. metric[r] = m => Merged(r) = "merged"
      BY <1>1, <2>5, MergeChanges DEF Settled, Loaded, Merged, Truncated
    <3> QED
      BY <1>1, <2>5, <3>1, MergeChanges
      DEF TypeOK, Settled, NewSlice, LengthOf, NothingLoaded
  <2>6. ASSUME NEW r \in Requests, BeginSerialize(r) \/ Serialize(r) \/ Crash(r)
        PROVE  Settled(m)'
    BY <1>1, <2>6 DEF BeginSerialize, Serialize, Crash, Settled, NewSlice, LengthOf
  <2> QED BY <1>1, <2>1, <2>3, <2>4, <2>5, <2>6 DEF Next
<1>2. TypeOK /\ [Next]_vars => [\A m \in Metrics : Settled(m) => Settled(m)']_vars
  BY <1>1
<1> QED BY <1>2, TypeCorrect, PTL DEF Spec, StaysSettled
=============================================================================
