------------------------------- MODULE Config -------------------------------
(***************************************************************************)
(* Configuration loading (src/pkg/config/loading.go and config.go): the    *)
(* merge with the embedded defaults, the strict decoding, the inheritance  *)
(* of exporter defaults, and the list of an endpoint's exporters.          *)
(*                                                                         *)
(* A nested configuration map is represented flat, as a function from key  *)
(* paths to values.  A path whose value is EmptyMap is a section with no   *)
(* keys; one whose value is Null is a key with nothing after it.  The list *)
(* of reverse_exporters is one value, as the merge treats it, and each     *)
(* item of it a record of what the program looks at; Garbled stands for an *)
(* item with something in it that mapstructure refuses.                    *)
(***************************************************************************)
EXTENDS Naturals, SequencesExt

CONSTANT Decodes(_, _)  \* does mapstructure decode this value at this key?

Null == [type |-> "null"]
EmptyMap == [type |-> "map"]
Garbled == [type |-> "garbled"]
Scalar(v) == [type |-> "scalar", value |-> v]
List(items) == [type |-> "list", items |-> items]

Unset == "unset"

Kinds == {"http", "file", "exec", "exec_cached"}

\* The keys of the Config structures: maps of further keys, and keys of values.
Sections == {<<"web">>, <<"exporter_defaults">>}
            \cup {<<"exporter_defaults", kind>> : kind \in Kinds}
            \cup {<<"exporter_defaults", kind, "labels">> : kind \in Kinds}

KindFields == [http |-> {"address", "timeout", "forward_url_params"},
               file |-> {"path"},
               exec |-> {"command", "args"},
               exec_cached |-> {"command", "args", "exec_interval"}]

Settings ==
    {<<"web", f>> : f \in {"context_path", "read_header_timeout", "listen"}}
    \cup UNION {{<<"exporter_defaults", kind, f>> :
                    f \in {"name", "no_rewrite"} \cup KindFields[kind]} : kind \in Kinds}

\* The labels of an exporter are a map with any keys.
IsLabel(path) ==
    /\ Len(path) = 4
    /\ path[1] = "exporter_defaults" /\ path[2] \in Kinds /\ path[3] = "labels"

DefaultConfig ==
    [p \in {<<"web", "listen">>, <<"web", "read_header_timeout">>,
            <<"exporter_defaults", "http", "timeout">>, <<"reverse_exporters">>} |->
        IF p = <<"reverse_exporters">> THEN List(<<>>) ELSE Scalar("default")]

\* Mutant: where both sides have a value that is not a list the left one wins.
ConfigMapMergeLeft(left, right) ==
    [p \in DOMAIN left \cup DOMAIN right |->
        IF p \in DOMAIN left /\ (p \in DOMAIN right => left[p].type # "list")
        THEN left[p] ELSE right[p]]

(***************************************************************************)
(* configMapMerge(left, right): what the right map holds afterwards.  A    *)
(* key of the left is taken over unless the right has that key, or has     *)
(* something that is not a map above it; where both have maps the merge    *)
(* descends, also into a map of the right that was empty.                  *)
(***************************************************************************)
ConfigMapMerge(left, right) ==
    LET shadowed == {p \in DOMAIN left : \E q \in DOMAIN right :
                        IsPrefix(p, q) \/ (IsPrefix(q, p) /\ right[q] # EmptyMap)}
        filled == {q \in DOMAIN right : right[q] = EmptyMap
                        /\ \E p \in DOMAIN left : IsStrictPrefix(q, p)}
    IN [p \in (DOMAIN right \ filled) \cup (DOMAIN left \ shadowed) |->
            IF p \in DOMAIN right THEN right[p] ELSE left[p]]

Lookup(configMap, path) ==
    IF path \in DOMAIN configMap THEN configMap[path] ELSE EmptyMap

Items(configMap) == configMap[<<"reverse_exporters">>].items

\* Is this key one that Config has, with a value that its type accepts?  A null
\* is accepted everywhere, and sets nothing.  In an item the only keys are path,
\* auth and exporters: one with services directly under it ("services") has
\* an unused key.
Accepted(path, value) ==
    CASE path = <<"reverse_exporters">> ->
           \/ value = Null
           \/ /\ value.type = "list"
              /\ \A i \in DOMAIN value.items :
                   LET it == value.items[i]
                   IN it # Garbled /\ (it # Null => it.services = <<>>)
      [] path \in Sections -> value \in {Null, EmptyMap}
      [] path \in Settings \/ IsLabel(path) -> value = Null \/ Decodes(path, value)
      [] OTHER -> FALSE

\* Does the first decoding, with ErrorUnused, reject the map?
Rejected(configMap) == \E p \in DOMAIN configMap : ~Accepted(p, configMap[p])

\* The embedded defaults decode: `this should *never* happen'.
ASSUME DefaultsDecode ==
    \A p \in DOMAIN DefaultConfig : Accepted(p, DefaultConfig[p])

\* Does a type assertion of the inheritance loop meet a null?
AssertsNull(configMap) ==
    \/ Lookup(configMap, <<"exporter_defaults">>) = Null
    \/ configMap[<<"reverse_exporters">>] = Null
    \/ \E i \in DOMAIN Items(configMap) : Items(configMap)[i] = Null

\* The inheritance of the http defaults by the services an item has directly
\* under it, where the loop looks for them.
Inherit(configMap) ==
    LET default == Lookup(configMap, <<"exporter_defaults", "http", "timeout">>)
        Inherited(service) ==
            IF service.timeout = Unset /\ default # EmptyMap
            THEN [service EXCEPT !.timeout = default.value] ELSE service
        InItem(item) ==
            [item EXCEPT !.services = [i \in DOMAIN @ |-> Inherited(@[i])]]
        items == Items(configMap)
    IN [configMap EXCEPT ![<<"reverse_exporters">>] =
            List([i \in DOMAIN items |-> InItem(items[i])])]

(***************************************************************************)
(* Load: the merged, inherited map, or how loading ends without one.  A    *)
(* null exporter_defaults or reverse_exporters decodes, into a nil pointer *)
(* or slice, so that the panic of the type assertion comes after it.       *)
(***************************************************************************)
Failed(how) == [result |-> how, configMap |-> DefaultConfig]


Load(document) ==
    LET merged == ConfigMapMerge(DefaultConfig, document)
    IN IF Rejected(merged) THEN Failed("error")
       ELSE IF AssertsNull(merged) THEN Failed("panic")
       ELSE [result |-> "ok", configMap |-> Inherit(merged)]

\* The files that load, told from the file alone: each of its keys is one that
\* Config has, with a value that decodes, and neither its defaults, its list nor
\* an item of it is empty.  The embedded defaults never turn a file that would
\* be refused into one that loads, or the other way round.
Loadable(document) ==
    /\ \A p \in DOMAIN document : Accepted(p, document[p])
    /\ Lookup(document, <<"exporter_defaults">>) # Null
    /\ <<"reverse_exporters">> \in DOMAIN document =>
         /\ document[<<"reverse_exporters">>] # Null
         /\ \A i \in DOMAIN Items(document) : Items(document)[i] # Null

\* ExportersConfig.All: every exporter of an item, kind by kind.
Tagged(kind, list) == [i \in DOMAIN list |-> [kind |-> kind, exporter |-> list[i]]]

All(exporters) ==
    Tagged("http", exporters.http) \o Tagged("file", exporters.file)
        \o Tagged("exec", exporters.exec)
        \o Tagged("exec_cached", exporters.exec_cached)
=============================================================================
