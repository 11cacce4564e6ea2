--------------------------- MODULE RewriteMetrics ---------------------------
(***************************************************************************)
(* rewriteMetrics (src/pkg/metricproxy/utils.go) run by several requests   *)
(* at once, and the serialization that follows.  It replaces metric.Label  *)
(* of the metrics it was given, which nothing protects.  A file or http    *)
(* proxy decodes metrics of its own for every request; an exec proxy sends *)
(* the same metrics to every waiting request, and an exec_cached proxy     *)
(* returns the same cached ones again and again.                           *)
(*                                                                         *)
(* The module follows one metric with n labels, to which the exporter_name *)
(* label is to be added.  A slice is loaded and stored word by word, its   *)
(* array and its length in either order, so that a load that races a store *)
(* may put the array of one slice together with the length of the other.   *)
(***************************************************************************)
EXTENDS Naturals

CONSTANTS Requests,   \* requests that have metrics to rewrite
          Metrics     \* the metric objects they may have been handed

None == "none"

\* What an array may hold: the n labels the source sent, those and
\* exporter_name, or exporter_name and all but one of them.
Arrays == {"source", "merged", "lossy"}
Lengths == {"n", "n+1"}
Slices == [array : Arrays, length : Lengths]
LengthOf(a) == IF a = "merged" THEN "n+1" ELSE "n"

VARIABLES
    metric,    \* which object each request was handed
    nameLast,  \* does exporter_name sort after every label of the source?
    label,     \* the Label slice of each object
    pc,        \* what each request is doing
    loaded,    \* the words it has loaded
    toStore,   \* the words it has yet to store
    sent       \* the labels it sent, as "complete", "lossy" or "unnamed"

vars == <<metric, nameLast, label, pc, loaded, toStore, sent>>

NothingLoaded == [array |-> None, length |-> None]

Init ==
    /\ metric \in [Requests -> Metrics]
    /\ nameLast \in BOOLEAN
    /\ label = [m \in Metrics |-> [array |-> "source", length |-> "n"]]
    /\ pc = [r \in Requests |-> "load"]
    /\ loaded = [r \in Requests |-> NothingLoaded]
    /\ toStore = [r \in Requests |-> NothingLoaded]
    /\ sent = [r \in Requests |-> None]

\* One word of metric.Label, to rewrite it or, later, to serialize it.
LoadWord(r, w) ==
    /\ pc[r] \in {"load", "serialize"}
    /\ loaded[r][w] = None
    /\ loaded' = [loaded EXCEPT ![r][w] = label[metric[r]][w]]
    /\ UNCHANGED <<metric, nameLast, label, pc, toStore, sent>>

Loaded(r) == loaded[r].array # None /\ loaded[r].length # None

\* The length says there is a label where the array has ended.
Overrun(r) == loaded[r].length = "n+1" /\ LengthOf(loaded[r].array) = "n"

\* A short length hides the last label of the array.
Truncated(r) == loaded[r].array = "merged" /\ loaded[r].length = "n"

\* sourceSet.Merge(labels): the labels that were loaded, and exporter_name.
Merged(r) == IF loaded[r].array = "lossy" \/ (Truncated(r) /\ ~nameLast)
             THEN "lossy" ELSE "merged"

NewSlice(a) == [array |-> a, length |-> LengthOf(a)]

\* Mutant: exporter_name is added only where there is no label at all.
MergeNothing(r) ==
    /\ pc[r] = "load"
    /\ Loaded(r)
    /\ ~Overrun(r)
    /\ pc' = [pc EXCEPT ![r] = "store"]
    /\ toStore' = [toStore EXCEPT ![r] = loaded[r]]
    /\ loaded' = [loaded EXCEPT ![r] = NothingLoaded]
    /\ UNCHANGED <<metric, nameLast, label, sent>>

\* Mutant: exporter_name takes the place of the last label.
MergeReplaces(r) ==
    /\ pc[r] = "load"
    /\ Loaded(r)
    /\ ~Overrun(r)
    /\ pc' = [pc EXCEPT ![r] = "store"]
    /\ toStore' = [toStore EXCEPT ![r] =
         NewSlice(IF loaded[r].array = "source" THEN "merged" ELSE "lossy")]
    /\ loaded' = [loaded EXCEPT ![r] = NothingLoaded]
    /\ UNCHANGED <<metric, nameLast, label, sent>>

\* The merged labels are put in a new array, which is to replace the old one.
Merge(r) ==
    /\ pc[r] = "load"
    /\ Loaded(r)
    /\ ~Overrun(r)
    /\ pc' = [pc EXCEPT ![r] = "store"]
    /\ toStore' = [toStore EXCEPT ![r] = NewSlice(Merged(r))]
    /\ loaded' = [loaded EXCEPT ![r] = NothingLoaded]
    /\ UNCHANGED <<metric, nameLast, label, sent>>

\* One word of metric.Label = outputPairs.
StoreWord(r, w) ==
    /\ pc[r] = "store"
    /\ toStore[r][w] # None
    /\ label' = [label EXCEPT ![metric[r]][w] = toStore[r][w]]
    /\ toStore' = [toStore EXCEPT ![r][w] = None]
    /\ UNCHANGED <<metric, nameLast, pc, loaded, sent>>

\* All backends have returned, the response is encoded.
BeginSerialize(r) ==
    /\ pc[r] = "store"
    /\ toStore[r] = NothingLoaded
    /\ pc' = [pc EXCEPT ![r] = "serialize"]
    /\ UNCHANGED <<metric, nameLast, label, loaded, toStore, sent>>

Serialize(r) ==
    /\ pc[r] = "serialize"
    /\ Loaded(r)
    /\ ~Overrun(r)
    /\ pc' = [pc EXCEPT ![r] = "done"]
    /\ sent' = [sent EXCEPT ![r] =
         IF loaded[r].array = "source" \/ (Truncated(r) /\ nameLast) THEN "unnamed"
         ELSE IF loaded[r].array = "lossy" \/ Truncated(r) THEN "lossy"
         ELSE "complete"]
    /\ UNCHANGED <<metric, nameLast, label, loaded, toStore>>

\* What lies behind the array is no label: the request panics.
Crash(r) ==
    /\ pc[r] \in {"load", "serialize"}
    /\ Loaded(r)
    /\ Overrun(r)
    /\ pc' = [pc EXCEPT ![r] = "crashed"]
    /\ UNCHANGED <<metric, nameLast, label, loaded, toStore, sent>>

Next == \E r \in Requests :
    \/ \E w \in {"array", "length"} : LoadWord(r, w) \/ StoreWord(r, w)
    \/ Merge(r) \/ BeginSerialize(r) \/ Serialize(r) \/ Crash(r)

Spec == Init /\ [][Next]_vars

-----------------------------------------------------------------------------

\* Every variable keeps its type.
TypeOK ==
    /\ metric \in [Requests -> Metrics]
    /\ nameLast \in BOOLEAN
    /\ label \in [Metrics -> Slices]
    /\ pc \in [Requests -> {"load", "store", "serialize", "done", "crashed"}]
    /\ loaded \in [Requests -> [array : Arrays \union {None},
                                length : Lengths \union {None}]]
    /\ toStore \in [Requests -> [array : Arrays \union {None},
                                 length : Lengths \union {None}]]
    /\ sent \in [Requests -> {None, "complete", "lossy", "unnamed"}]

\* A request that was handed metrics of its own, as from a file or http proxy,
\* sends them with all their labels and exporter_name.
OwnComplete ==
    \A r \in Requests :
        (\A q \in Requests \ {r} : metric[q] # metric[r])
            => pc[r] # "crashed" /\ sent[r] \in {None, "complete"}

\* Rewriting again changes nothing: once the labels of a metric are complete
\* and no request holds older words of them, they stay so, however often the
\* cached metrics of an exec_cached proxy are handed out and rewritten.
Settled(m) ==
    /\ label[m] = NewSlice("merged")
    /\ \A r \in Requests : metric[r] = m =>
         /\ loaded[r].array \in {None, "merged"} /\ loaded[r].length \in {None, "n+1"}
         /\ toStore[r].array \in {None, "merged"} /\ toStore[r].length \in {None, "n+1"}
StaysSettled == [][\A m \in Metrics : Settled(m) => Settled(m)']_vars

\* Whatever requests that share a metric do to each other, nobody sends it
\* without exporter_name: who serializes has stored it, and others store it too.
NamedAlways == \A r \in Requests : sent[r] # "unnamed"

\* rewriteMetrics: `adds the given labelset to all metrics in the given
\* metricFamily's'.
AllComplete ==
    \A r \in Requests : pc[r] # "crashed" /\ sent[r] \in {None, "complete"}

-----------------------------------------------------------------------------
(* The inductive invariant that the proofs rest on.                        *)

\* What is stored names the exporter, so that after its store a request finds
\* named labels, its own or others'.  Where exporter_name is the last label, no
\* label was ever lost for it, and no short length is ever stored.
NamedState(r) ==
    /\ toStore[r].array # "source"
    /\ pc[r] = "store" => loaded[r] = NothingLoaded
    /\ pc[r] = "store" /\ toStore[r].array = None => label[metric[r]].array # "source"
    /\ pc[r] = "serialize" =>
         label[metric[r]].array # "source" /\ loaded[r].array # "source"
    /\ sent[r] # "unnamed"
    /\ nameLast =>
         /\ toStore[r].array # "lossy" /\ toStore[r].length # "n"
         /\ loaded[r].array # "lossy"
         /\ pc[r] = "store" /\ toStore[r].length = None =>
              label[metric[r]].length = "n+1"
         /\ pc[r] = "serialize" =>
              label[metric[r]].length = "n+1" /\ loaded[r].length # "n"

NeverLossy == nameLast => \A m \in Metrics : label[m].array # "lossy"

\* What a request with a metric of its own finds in it is what it put there.
Own(r) == \A q \in Requests \ {r} : metric[q] # metric[r]

OwnState(r) ==
    /\ pc[r] # "crashed" /\ sent[r] \in {None, "complete"}
    /\ pc[r] = "load" =>
         /\ label[metric[r]] = NewSlice("source")
         /\ loaded[r].array \in {None, "source"} /\ loaded[r].length \in {None, "n"}
    /\ pc[r] = "store" =>
         /\ toStore[r].array \in {None, "merged"} /\ toStore[r].length \in {None, "n+1"}
         /\ toStore[r].array = None => label[metric[r]].array = "merged"
         /\ toStore[r].length = None => label[metric[r]].length = "n+1"
    /\ pc[r] = "serialize" =>
         /\ label[metric[r]] = NewSlice("merged")
         /\ loaded[r].array \in {None, "merged"} /\ loaded[r].length \in {None, "n+1"}

IInv ==
    /\ TypeOK
    /\ NeverLossy
    /\ \A r \in Requests : NamedState(r) /\ (Own(r) => OwnState(r))
=============================================================================
