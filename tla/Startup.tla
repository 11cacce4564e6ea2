------------------------------ MODULE Startup -------------------------------
(***************************************************************************)
(* The life of the program (src/cmd/reverse_exporter/main.go): it loads    *)
(* its configuration, builds one endpoint per configured path              *)
(* (NewMetricReverseProxy, src/pkg/metricproxy/interface.go), registers    *)
(* them with the router, listens, and stops on a signal or on the first    *)
(* error of a listener.                                                    *)
(*                                                                         *)
(* Three goroutines: main, the one that waits for a signal, and the one    *)
(* that waits for listener errors.  The configuration file is chosen in    *)
(* the initial state and never changes.  A step of main is one exporter    *)
(* added, one path registered, or one of the calls in between.             *)
(***************************************************************************)
EXTENDS Config

CONSTANTS Documents,   \* the configuration files considered
          ExporterConfigs, \* the exporters that occur in them
          Paths,       \* the paths that occur in them
          Route(_, _), \* WrapPath: the route of a path under a context path
          Usable,      \* the routes httprouter takes: a leading slash, and no
                       \* wildcard it finds malformed
          Clash(_, _)  \* does httprouter, having one route, refuse another
                       \* for the wildcards in them?

\* What YAML and the decoding of items make of a file: its keys are paths of
\* names, at least one, spelled as in Config; a key has nothing, a map, a scalar
\* or a list after it.  An item of the list is null, does not decode, or has all
\* its parts, those that are missing empty.  An entry of its exporters may be
\* null: it decodes to a nil pointer.
ItemConfigs == [path : Paths,
                exporters : [Kinds -> Seq(ExporterConfigs \union {Null})] \union {Null},
                services : Seq(ExporterConfigs)]

IsValue(value) ==
    \/ value \in {Null, EmptyMap}
    \/ value.type = "scalar"
    \/ value.type = "list" /\ value = List(value.items)

ASSUME DocumentsAssumption ==
    \A d \in Documents :
        /\ DOMAIN d \subseteq Seq(STRING) \ {<<>>}
        /\ \A p \in DOMAIN d : IsValue(d[p])
        /\ /\ <<"reverse_exporters">> \in DOMAIN d
           /\ d[<<"reverse_exporters">>].type = "list"
           => d[<<"reverse_exporters">>].items \in Seq(ItemConfigs \union {Null, Garbled})

VARIABLES
    document,       \* the configuration file
    pc,             \* where main is
    configMap,      \* the configuration as loaded
    item,           \* the reverse exporter whose path main is initializing
    next,           \* the exporter of it that it adds next
    usedNames,      \* the exporter names of the endpoint being built
    backends,       \* the backends of the endpoint being built
    router,         \* the items and endpoints registered, by route
    initializedPaths, \* the paths seen
    signalled,      \* was a signal caught?
    ctxDone,        \* is the context of main cancelled?
    listenerError,  \* has a listener reported an error?
    webDone,        \* is webCtx cancelled?
    status          \* the exit status: none, "panic", 0 or 1

buildVars == <<item, next, usedNames, backends, router, initializedPaths>>
stopVars == <<signalled, ctxDone, listenerError, webDone>>
vars == <<document, pc, configMap, buildVars, stopVars, status>>

Pcs == {"load", "config", "item", "exporters", "register", "listen", "serve",
        "close", "exited"}

Init ==
    /\ document \in Documents
    /\ pc = "load"
    /\ configMap = DefaultConfig
    /\ item = 1
    /\ next = 1
    /\ usedNames = {}
    /\ backends = <<>>
    /\ router = [r \in {} |-> {}]
    /\ initializedPaths = {}
    /\ signalled = FALSE
    /\ ctxDone = FALSE
    /\ listenerError = FALSE
    /\ webDone = FALSE
    /\ status = "none"

Goto(from, to) == pc = from /\ pc' = to

Exit(from, how) == Goto(from, "exited") /\ status' = how

-----------------------------------------------------------------------------
(* cmdMain: LoadFromFile.                                                  *)

\* The file cannot be read, or is not YAML.
ReadFails ==
    /\ Exit("load", "1")
    /\ UNCHANGED <<document, configMap, buildVars, stopVars>>

Loads ==
    LET loaded == Load(document)
    IN /\ Goto("load", "config")
       /\ loaded.result = "ok"
       /\ configMap' = loaded.configMap
       /\ UNCHANGED <<document, buildVars, stopVars, status>>

LoadFails ==
    /\ \/ Exit("load", "1") /\ Load(document).result = "error"
       \/ Exit("load", "panic") /\ Load(document).result = "panic"
    /\ UNCHANGED <<document, configMap, buildVars, stopVars>>

-----------------------------------------------------------------------------
(* realMain: one endpoint per item of reverse_exporters.                   *)

ContextPath == Lookup(configMap, <<"web", "context_path">>)

\* cfg.Web is a nil pointer when the web section is null.
ReadWeb ==
    /\ IF Lookup(configMap, <<"web">>) = Null
       THEN Exit("config", "panic")
       ELSE Goto("config", "item") /\ UNCHANGED status
    /\ UNCHANGED <<document, configMap, buildVars, stopVars>>

Current == Items(configMap)[item]

\* The path is blank, or was seen before.
RefusePath ==
    /\ item <= Len(Items(configMap))
    /\ Current.path = "" \/ Current.path \in initializedPaths
    /\ Exit("item", "1")
    /\ UNCHANGED <<document, configMap, buildVars, stopVars>>

\* NewMetricReverseProxy begins; All dereferences the item's exporters.
NewEndpoint ==
    /\ item <= Len(Items(configMap))
    /\ Current.path # ""
    /\ Current.path \notin initializedPaths
    /\ IF Current.exporters = Null
       THEN Exit("item", "panic")
       ELSE Goto("item", "exporters") /\ UNCHANGED status
    /\ next' = 1
    /\ usedNames' = {}
    /\ backends' = <<>>
    /\ UNCHANGED <<document, configMap, item, router, initializedPaths, stopVars>>

NameLabel == "exporter_name"

\* The labels rewriteProxy puts on an exporter's metrics.
Labels(exporter) ==
    [l \in DOMAIN exporter.labels \cup
            (IF exporter.noRewrite THEN {} ELSE {NameLabel}) |->
        IF l \in DOMAIN exporter.labels THEN exporter.labels[l] ELSE exporter.name]

\* A file, exec or exec_cached proxy has no deadline, nor has an http proxy
\* whose timeout is zero: an unset timeout decodes to zero.
Deadline(entry) ==
    IF entry.kind # "http" \/ entry.exporter.timeout = Unset THEN "0"
    ELSE entry.exporter.timeout

Backend(entry) == [kind |-> entry.kind,
                   labels |-> Labels(entry.exporter),
                   deadline |-> Deadline(entry)]

\* Mutant: a name that is used is logged, and the exporter added all the same.
AddAnyExporter ==
    LET entry == All(Current.exporters)[next]
    IN /\ pc = "exporters"
       /\ next <= Len(All(Current.exporters))
       /\ entry.exporter # Null
       /\ usedNames' = usedNames \cup {entry.exporter.name}
       /\ backends' = Append(backends, Backend(entry))
       /\ next' = next + 1
       /\ UNCHANGED <<document, pc, configMap, item, router, initializedPaths,
                      stopVars, status>>

\* GetBaseExporter dereferences a nil exporter.
NilExporter ==
    /\ pc = "exporters"
    /\ next <= Len(All(Current.exporters))
    /\ All(Current.exporters)[next].exporter = Null
    /\ Exit("exporters", "panic")
    /\ UNCHANGED <<document, configMap, buildVars, stopVars>>

AddExporter ==
    LET exporters == All(Current.exporters)
        entry == exporters[next]
    IN /\ pc = "exporters"
       /\ next <= Len(exporters)
       /\ entry.exporter # Null
       /\ \/ /\ entry.exporter.name \in usedNames
             /\ Exit("exporters", "1")
             /\ UNCHANGED <<usedNames, backends, next>>
          \/ /\ entry.exporter.name \notin usedNames
             /\ usedNames' = usedNames \cup {entry.exporter.name}
             /\ IF NameLabel \in DOMAIN entry.exporter.labels
                THEN /\ Exit("exporters", "1")
                     /\ UNCHANGED <<backends, next>>
                ELSE /\ backends' = Append(backends, Backend(entry))
                     /\ next' = next + 1
                     /\ UNCHANGED <<pc, status>>
       /\ UNCHANGED <<document, configMap, item, router, initializedPaths, stopVars>>

\* SetupAuthHandler wraps the handler and cannot fail.
EndpointReady ==
    /\ pc = "exporters"
    /\ next > Len(All(Current.exporters))
    /\ Goto("exporters", "register")
    /\ UNCHANGED <<document, configMap, buildVars, stopVars, status>>

\* Mutant: the router lets a later path replace an earlier one.
RegisterOver ==
    LET route == Route(ContextPath, Current.path)
    IN /\ Goto("register", "item")
       /\ router' = [r \in DOMAIN router \cup {route} |->
                        IF r = route THEN [path |-> Current.path,
                                           backends |-> backends]
                        ELSE router[r]]
       /\ initializedPaths' = initializedPaths \cup {Current.path}
       /\ item' = item + 1
       /\ UNCHANGED <<document, configMap, next, usedNames, backends, stopVars,
                      status>>

\* router.Handler panics for a route it cannot take.
Refuses(route) ==
    \/ route \notin Usable
    \/ \E r \in DOMAIN router : r = route \/ Clash(r, route)

Register ==
    LET route == Route(ContextPath, Current.path)
    IN /\ pc = "register"
       /\ IF Refuses(route)
          THEN /\ Exit("register", "panic")
               /\ UNCHANGED <<item, router, initializedPaths>>
          ELSE /\ router' = [r \in DOMAIN router \cup {route} |->
                        IF r = route THEN [path |-> Current.path,
                                           backends |-> backends]
                        ELSE router[r]]
               /\ initializedPaths' = initializedPaths \cup {Current.path}
               /\ item' = item + 1
               /\ Goto("register", "item")
               /\ UNCHANGED status
       /\ UNCHANGED <<document, configMap, next, usedNames, backends, stopVars>>

AllInitialized ==
    /\ pc = "item"
    /\ item > Len(Items(configMap))
    /\ Goto("item", "listen")
    /\ UNCHANGED <<document, configMap, buildVars, stopVars, status>>

-----------------------------------------------------------------------------
(* Listening and stopping.                                                 *)

\* multihttp.Listen; main goes on when it failed, with webCtx cancelled.
Listen ==
    /\ Goto("listen", "serve")
    /\ \/ UNCHANGED webDone
       \/ webDone' = TRUE
    /\ UNCHANGED <<document, configMap, buildVars, signalled, ctxDone,
                   listenerError, status>>

\* webCtx is done: it was cancelled, or the context it derives from was.
StopServing ==
    /\ webDone \/ ctxDone
    /\ Goto("serve", "close")
    /\ UNCHANGED <<document, configMap, buildVars, stopVars, status>>

CloseListeners ==
    /\ Exit("close", "0")
    /\ UNCHANGED <<document, configMap, buildVars, stopVars>>

\* The process is sent SIGINT or SIGTERM.
Signal ==
    /\ pc # "exited"
    /\ ~ signalled
    /\ signalled' = TRUE
    /\ UNCHANGED <<document, pc, configMap, buildVars, ctxDone, listenerError,
                   webDone, status>>

\* The goroutine that waits for signals.
CancelOnSignal ==
    /\ pc # "exited"
    /\ signalled
    /\ ~ ctxDone
    /\ ctxDone' = TRUE
    /\ UNCHANGED <<document, pc, configMap, buildVars, signalled, listenerError,
                   webDone, status>>

\* A listener stops accepting and reports why.
ListenerFails ==
    /\ pc = "serve"
    /\ ~ listenerError
    /\ listenerError' = TRUE
    /\ UNCHANGED <<document, pc, configMap, buildVars, signalled, ctxDone,
                   webDone, status>>

\* Mutant: only a second error cancels webCtx.
LogListenerError ==
    /\ webDone
    /\ listenerError
    /\ webDone' = TRUE
    /\ UNCHANGED <<document, pc, configMap, buildVars, signalled, ctxDone,
                   listenerError, status>>

\* The goroutine that receives listener errors cancels webCtx at the first.
CancelOnListenerError ==
    /\ pc # "exited"
    /\ listenerError
    /\ ~ webDone
    /\ webDone' = TRUE
    /\ UNCHANGED <<document, pc, configMap, buildVars, signalled, ctxDone,
                   listenerError, status>>

-----------------------------------------------------------------------------

MainRuns ==
    \/ ReadFails \/ Loads \/ LoadFails \/ ReadWeb
    \/ RefusePath \/ NewEndpoint \/ NilExporter \/ AddExporter
    \/ EndpointReady \/ Register
    \/ AllInitialized \/ Listen \/ StopServing \/ CloseListeners

Next ==
    \/ MainRuns
    \/ Signal \/ CancelOnSignal
    \/ ListenerFails \/ CancelOnListenerError

Spec == Init /\ [][Next]_vars

\* Goroutines that can go on are scheduled; signals and listener errors are
\* the environment's and need not happen.
FairSpec ==
    /\ Spec
    /\ WF_vars(MainRuns)
    /\ WF_vars(CancelOnSignal)
    /\ WF_vars(CancelOnListenerError)

-----------------------------------------------------------------------------
(* Properties.                                                             *)

\* Every variable holds what the code can put into it: the exporter that is
\* added is one of the item's, and no more backends are built than it has
\* exporters.
TypeOK ==
    /\ pc \in Pcs
    /\ status \in {"none", "0", "1", "panic"}
    /\ (status # "none") = (pc = "exited")
    /\ item \in 1..(Len(Items(configMap)) + 1)
    /\ Len(backends) < next
    /\ pc \in {"exporters", "register"} => next <= Len(All(Current.exporters)) + 1
    /\ {signalled, ctxDone, listenerError, webDone} \subseteq BOOLEAN

Serving == pc \in {"serve", "close"}

\* The items of the file, none if it has no list of them.
Document ==
    LET value == Lookup(document, <<"reverse_exporters">>)
    IN IF value.type = "list" THEN value.items ELSE <<>>

\* Is this the endpoint the file asks for: a backend for each of the item's
\* exporters, in the order of All?
BuiltFrom(endpoint, it) ==
    LET entries == All(it.exporters)
    IN /\ endpoint.path = it.path
       /\ [k \in DOMAIN endpoint.backends |-> endpoint.backends[k].kind]
            = [k \in DOMAIN entries |-> entries[k].kind]
       /\ \A k \in DOMAIN entries : endpoint.backends[k].labels = Labels(entries[k].exporter)

\* When the program listens every path of the file leads to an endpoint built
\* from its own exporters, and the router has no other route: paths that
\* clash after filepath.Join never hide one another (main.go:102-123).
ServedAsConfigured ==
    Serving /\ <<"reverse_exporters">> \in DOMAIN document =>
        /\ \A i \in DOMAIN Document :
                LET route == Route(ContextPath, Document[i].path)
                IN route \in DOMAIN router /\ BuiltFrom(router[route], Document[i])
        /\ Cardinality(DOMAIN router) = Len(Document)

\* The exporters of the endpoint registered for a route.
EntriesOf(route) ==
    LET i == CHOOSE k \in 1..(item - 1) :
                Items(configMap)[k].path = router[route].path
    IN All(Items(configMap)[i].exporters)

\* The http exporters of an item of the file, by their places in All.
HttpAt(i) == {k \in DOMAIN All(Document[i].exporters) :
                 All(Document[i].exporters)[k].kind = "http"}

Timeout(i, k) == All(Document[i].exporters)[k].exporter.timeout

\* Has the backend that stands for this exporter this deadline?
HasDeadline(i, k, deadline) ==
    LET route == Route(ContextPath, Document[i].path)
    IN route \in DOMAIN router /\ router[route].backends[k].deadline = deadline

\* What the file says survives the merge with the defaults and whatever is
\* inherited: each value of its sections is the one in force, and so is each
\* timeout of its exporters, as the deadline of a backend (configMapMerge, "in
\* favor of the right hand side").
ExplicitSettingsKept ==
    Serving =>
        /\ \A p \in DOMAIN document \ {<<"reverse_exporters">>} :
                document[p].type \in {"scalar", "list"} => configMap[p] = document[p]
        /\ \A i \in DOMAIN Document : \A k \in HttpAt(i) :
                Timeout(i, k) # Unset => HasDeadline(i, k, Timeout(i, k))

\* Two exporters of one endpoint are told apart by exporter_name wherever both
\* carry it, and no explicit label stands in for it (interface.go:83-102; the
\* README of the project calls the field "enforced to be unique").
NamesDistinguish ==
    \A r \in DOMAIN router :
        LET named == {k \in DOMAIN router[r].backends :
                        NameLabel \in DOMAIN router[r].backends[k].labels}
            Name(k) == router[r].backends[k].labels[NameLabel]
        IN /\ \A k, l \in named : Name(k) = Name(l) => k = l
           /\ \A k \in named : Name(k) = EntriesOf(r)[k].exporter.name

\* Is an item null, without exporters, or one of its exporters null?
EmptyItem(it) ==
    \/ it = Null
    \/ /\ it # Garbled
       /\ \/ it.exporters = Null
          \/ \E kind \in Kinds : \E k \in DOMAIN it.exporters[kind] :
                it.exporters[kind][k] = Null

\* Has the file a key with nothing after it, or such an item?
EmptySomewhere ==
    \/ \E p \in DOMAIN document : document[p] = Null
    \/ \E i \in DOMAIN Document : EmptyItem(Document[i])

\* Has it two paths whose routes are the same or clash, or one whose route the
\* router never takes?
RouteUnusable ==
    LET RouteTo(i) == Route(Lookup(document, <<"web", "context_path">>), Document[i].path)
    IN \/ \E i, j \in DOMAIN Document :
            i < j /\ (RouteTo(i) = RouteTo(j) \/ Clash(RouteTo(i), RouteTo(j)))
       \/ \E i \in DOMAIN Document : RouteTo(i) \notin Usable

\* The program panics during its start for two reasons only: something in the
\* file is empty where the code asserts or dereferences it, or the router
\* refuses a route.  A top-level section that is missing altogether is no such
\* reason, as the embedded defaults stand in for it, nor is anything of the
\* wrong type, which the decoding reports; but exporters that an item lacks are
\* (loading.go:131-136, main.go:94 and :120, interface.go:50-53).
CrashExplained == status = "panic" => EmptySomewhere \/ RouteUnusable

\* A signal, at any time, and the first error of a listener end the program.
Stops == (signalled \/ listenerError) ~> (pc = "exited")

\* loading.go:133, "Merge host service defaults to all services", and
\* default_config.yml:2, "It configures the default values for all
\* parameters": an http exporter of the file with no timeout of its own gets the
\* default's, if there is one.
DefaultTimeoutApplies ==
    LET default == Lookup(configMap, <<"exporter_defaults", "http", "timeout">>)
    IN Serving /\ default.type = "scalar" =>
        \A i \in DOMAIN Document : \A k \in HttpAt(i) :
            Timeout(i, k) = Unset => HasDeadline(i, k, default.value)

\* What becomes of such an exporter: its backend has no deadline at all,
\* whatever the file says of defaults, as the inheritance would have to find
\* it where the decoding has refused it before (loading.go:133-164,
\* interface.go:56-73).
DefaultsNeverApply ==
    Serving =>
        \A i \in DOMAIN Document : \A k \in HttpAt(i) :
            Timeout(i, k) = Unset => HasDeadline(i, k, "0")

\* What the router was given for a route stays: no later item replaces or
\* removes it (main.go:117-123).
RoutesStay ==
    [][\A r \in DOMAIN router : r \in DOMAIN router' /\ router'[r] = router[r]]_vars

\* Every step of main takes it further: through an item's exporters, from one
\* item to the next, or on to the exit, and never past the items or exporters
\* there are, so that the start ends for every file (main.go:76-159).
PcRank(p) == CASE p = "load" -> 0 [] p = "config" -> 1 [] p = "item" -> 2
               [] p = "exporters" -> 3 [] p = "register" -> 4 [] p = "listen" -> 5
               [] p = "serve" -> 6 [] p = "close" -> 7 [] p = "exited" -> 8

Ahead ==
    \/ item' = item + 1 /\ item <= Len(Items(configMap))
    \/ item' = item /\ PcRank(pc') > PcRank(pc)
    \/ /\ item' = item /\ pc' = pc
       /\ next' = next + 1 /\ next <= Len(All(Current.exporters))

MainGoesOn == [][MainRuns => Ahead]_vars

-----------------------------------------------------------------------------
(* The inductive invariant that the proofs rest on.                        *)

\* From the loading on main has what Load made of the file.
LoadedState ==
    /\ document \in Documents
    /\ IF pc = "load" \/ configMap = DefaultConfig
         THEN configMap = DefaultConfig
         ELSE Load(document).result = "ok" /\ configMap = Load(document).configMap
    /\ pc \notin {"load", "exited"} =>
         Load(document).result = "ok" /\ configMap = Load(document).configMap
    /\ pc \in {"load", "config"} => item = 1

NamesApart(entries, n) ==
    /\ \A k, l \in 1..n : entries[k].exporter.name = entries[l].exporter.name => k = l
    /\ \A k \in 1..n : NameLabel \notin DOMAIN entries[k].exporter.labels

\* The endpoint that is being built has a backend for each of the exporters
\* that main has been through.
BuildState ==
    LET entries == All(Current.exporters)
    IN /\ item <= Len(Items(configMap))
       /\ Current.exporters # Null
       /\ Current.path \notin initializedPaths
       /\ next <= Len(entries) + 1
       /\ backends = [k \in 1..(next - 1) |-> Backend(entries[k])]
       /\ usedNames = {entries[k].exporter.name : k \in 1..(next - 1)}
       /\ NamesApart(entries, next - 1)

RouteOf(i) == Route(ContextPath, Items(configMap)[i].path)

\* Each item main is done with has its route to an endpoint built from it.
Registered(i) ==
    LET it == Items(configMap)[i]
        entries == All(it.exporters)
    IN /\ it.exporters # Null
       /\ RouteOf(i) \in DOMAIN router
       /\ router[RouteOf(i)] =
            [path |-> it.path, backends |-> [k \in DOMAIN entries |-> Backend(entries[k])]]
       /\ NamesApart(entries, Len(entries))

RouterState ==
    /\ \A i \in 1..(item - 1) : Registered(i)
    /\ \A route \in DOMAIN router : \E i \in 1..(item - 1) : route = RouteOf(i)
    /\ \A i, j \in 1..(item - 1) : Items(configMap)[i].path = Items(configMap)[j].path => i = j
    /\ initializedPaths = {Items(configMap)[i].path : i \in 1..(item - 1)}
    /\ IsFiniteSet(DOMAIN router) /\ Cardinality(DOMAIN router) = item - 1

IInv ==
    /\ TypeOK
    /\ LoadedState
    /\ next \in Nat \ {0}
    /\ pc \in {"exporters", "register"} => BuildState
    /\ pc = "register" => next = Len(All(Current.exporters)) + 1
    /\ pc \in {"listen", "serve", "close"} => item = Len(Items(configMap)) + 1
    /\ RouterState
    /\ CrashExplained
=============================================================================
