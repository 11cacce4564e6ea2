----------------------------- MODULE MCStartup ------------------------------
(***************************************************************************)
(* Configuration files for Startup: a web section, exporter defaults and a *)
(* list of reverse exporters, each in the forms the loader treats          *)
(* differently.  At most MaxItems items, with the exporters of Exporters.  *)
(***************************************************************************)
EXTENDS Startup

MaxItems == 2

Exporter(name, noRewrite, labels, timeout) ==
    [name |-> name, noRewrite |-> noRewrite, labels |-> labels, timeout |-> timeout]

NoLabels == [l \in {} |-> ""]
Labelled(l) == [k \in {l} |-> "v"]

A == Exporter("a", FALSE, NoLabels, Unset)
B == Exporter("b", TRUE, Labelled("extra"), "5s")
AWithExtra == Exporter("a", FALSE, Labelled("extra"), "0")
AOverridden == Exporter("b", FALSE, Labelled(NameLabel), Unset)

Exporters(http, file, exec, execCached) ==
    [http |-> http, file |-> file, exec |-> exec, exec_cached |-> execCached]

MCExporterConfigs == {A, B, AWithExtra, AOverridden}
MCPaths == {"", "/m", "/m/", "m", "/n", "/:p", "/a/*x/b"}

MCExporters == {
    Exporters(<<>>, <<>>, <<>>, <<>>),
    Exporters(<<A, B>>, <<>>, <<>>, <<>>),
    Exporters(<<B>>, <<AWithExtra>>, <<>>, <<>>),
    Exporters(<<AWithExtra>>, <<>>, <<>>, <<A>>),
    Exporters(<<>>, <<>>, <<AOverridden>>, <<>>) }

Item(path, exporters, services) ==
    [path |-> path, exporters |-> exporters, services |-> services]

MCItems ==
    { Item(p, e, <<>>) : p \in {"", "/m", "/m/", "m"}, e \in MCExporters \cup {Null} }
    \cup { Item("/m", Exporters(<<A>>, <<>>, <<>>, <<>>), <<A>>), Null }
    \cup { Item("/n", e, <<>>) : e \in MCExporters }
    \cup { Item("/:p", Exporters(<<A>>, <<>>, <<>>, <<>>), <<>>),
           Item("/a/*x/b", Exporters(<<A>>, <<>>, <<>>, <<>>), <<>>),
           Item("/m", Exporters(<<A, Null>>, <<>>, <<>>, <<>>), <<>>),
           Item("/n", Exporters(<<A>>, <<>>, <<Null>>, <<A>>), <<>>),
           Garbled }

ItemLists == UNION { [1..n -> MCItems] : n \in 0..MaxItems }

At(path, value) == [p \in {path} |-> value]
Nothing == [p \in {} |-> Null]

Webs == { Nothing, At(<<"web">>, Null), At(<<"web">>, EmptyMap),
          At(<<"web">>, Scalar("5")),
          At(<<"web", "listen">>, Scalar("tcp")),
          At(<<"web", "context_path">>, Scalar("/x")) }

Defaults == { Nothing, At(<<"exporter_defaults">>, Null),
              At(<<"exporter_defaults">>, Scalar("5s")),
              At(<<"exporter_defaults", "http">>, Null),
              At(<<"exporter_defaults", "http", "address">>, Scalar("/metrics")),
              At(<<"exporter_defaults", "http", "labels", "extra">>, Scalar("v")),
              At(<<"exporter_defaults", "http", "timeout">>, Scalar("soon")),
              At(<<"exporter_defaults", "http">>, EmptyMap),
              At(<<"exporter_defaults", "http", "timeout">>, Scalar("5s")),
              At(<<"exporter_defaults", "http", "deadline">>, Scalar("5s")) }

\* Every form of the two sections with the empty and missing list, and every
\* list with a section of each kind.
MCDocuments ==
    { w @@ d @@ l : w \in Webs, d \in Defaults,
        l \in {Nothing} \cup { At(<<"reverse_exporters">>, v) :
            v \in {Null, List(<<>>), List(<<Item("/m", Exporters(<<A, B>>, <<>>, <<>>, <<>>), <<>>)>>)} } }
    \cup
    { w @@ At(<<"reverse_exporters">>, List(s)) :
        w \in {Nothing, At(<<"web", "context_path">>, Scalar("/x"))}, s \in ItemLists }

\* "soon" is no duration; no value here is a list of URLs.
MCDecodes(path, value) == value.type = "scalar" /\ value # Scalar("soon")

\* filepath.Join cleans the path, and roots it if there is a context path.
MCRoute(contextPath, path) ==
    LET clean == IF path = "/m/" THEN "/m" ELSE path
    IN IF contextPath = EmptyMap THEN clean
       ELSE "/x" \o (IF clean = "m" THEN "/m" ELSE clean)

MCUsable == {"/m", "/n", "/x/m", "/x/n", "/:p", "/x/:p"}

\* A wildcard can be the only route at its place.
Wild == {"/:p", "/x/:p"}
MCClash(r, s) == r # s /\ (r \in Wild \/ s \in Wild)
=============================================================================
