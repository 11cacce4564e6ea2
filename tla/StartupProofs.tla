--------------------------- MODULE StartupProofs ---------------------------
(***************************************************************************)
(* Proofs about Startup for any configuration files, exporters, paths and  *)
(* routes.  The first part is about what Load makes of a file, by the laws *)
(* of the merge in ConfigProofs, the second about the steps of main.       *)
(***************************************************************************)
EXTENDS Startup, ConfigProofs, FiniteSetTheorems

ListPath == <<"reverse_exporters">>

\* The names that keys are made of.  Those of the program are listed, as the
\* provers do not know that a literal is a string.
Names == STRING \cup {"web", "listen", "read_header_timeout", "exporter_defaults",
                       "http", "timeout", "reverse_exporters"}

\* The keys that Config has.
Known(p) == p = ListPath \/ p \in Sections \cup Settings \/ IsLabel(p)

Merge(d) == ConfigMapMerge(DefaultConfig, d)

-----------------------------------------------------------------------------
(* Keys and the merge.                                                     *)

\* A path that is a prefix of another is not longer and has its first key.
LEMMA PrefixFirst ==
    ASSUME NEW S, NEW T, NEW s \in Seq(S), NEW t \in Seq(T), IsPrefix(s, t)
    PROVE  /\ Len(s) <= Len(t)
           /\ Len(s) > 0 => s[1] = t[1]
BY DEF IsPrefix

\* The keys of Config other than the list are below its other two sections.
LEMMA KnownFirst ==
    ASSUME NEW p, Known(p), p # ListPath
    PROVE  p[1] \in {"web", "exporter_defaults"}
<1>1. CASE p \in Sections
  BY <1>1 DEF Sections
<1>2. CASE p \in Settings
  BY <1>2 DEF Settings
<1>3. CASE IsLabel(p)
  BY <1>3 DEF IsLabel
<1> QED BY <1>1, <1>2, <1>3 DEF Known

\* So none of them is below the list or above it.
LEMMA KnownAlone ==
    ASSUME NEW q \in Seq(Names) \ {<<>>}, Known(q),
           IsPrefix(ListPath, q) \/ IsPrefix(q, ListPath)
    PROVE  q = ListPath
<1>1. ListPath \in Seq(Names) /\ Len(ListPath) = 1 /\ ListPath[1] = "reverse_exporters"
  BY DEF ListPath, Names
<1>2. Len(q) > 0 /\ Len(q) \in Nat
  BY EmptySeq, LenProperties
<1>3. q[1] = "reverse_exporters"
  BY <1>1, <1>2, PrefixFirst
<1> QED BY <1>3, KnownFirst

\* What is accepted: only keys of Config, a list of decoded items, and a section
\* with no keys.
LEMMA AcceptedKey ==
    ASSUME NEW p, NEW v, Accepted(p, v)
    PROVE  Known(p)
BY DEF Accepted, Known, ListPath

LEMMA AcceptedList ==
    ASSUME NEW v
    PROVE  Accepted(ListPath, v) <=>
             \/ v = Null
             \/ /\ v.type = "list"
                /\ \A i \in DOMAIN v.items :
                     /\ v.items[i] # Garbled
                     /\ v.items[i] # Null => v.items[i].services = <<>>
<1>1. ListPath \notin Sections /\ ListPath \notin Settings /\ ~IsLabel(ListPath)
  BY DEF ListPath, Sections, Settings, IsLabel
<1> QED BY <1>1 DEF Accepted, ListPath

LEMMA AcceptedSection ==
    ASSUME NEW p \in Sections
    PROVE  Accepted(p, EmptyMap)
<1>1. p # <<"reverse_exporters">> /\ p \notin Settings /\ ~IsLabel(p)
  BY DEF Sections, Settings, IsLabel, KindFields, Kinds
<1> QED BY <1>1 DEF Accepted

\* The keys of the defaults are accepted ones, the list among them.
LEMMA DefaultKeys ==
    /\ ListPath \in DOMAIN DefaultConfig
    /\ DOMAIN DefaultConfig \subseteq Seq(Names) \ {<<>>}
    /\ \A p \in DOMAIN DefaultConfig : Known(p)
<1>1. ListPath \in DOMAIN DefaultConfig /\ DOMAIN DefaultConfig \subseteq Seq(Names) \ {<<>>}
  BY DEF DefaultConfig, ListPath, Names
<1> QED BY <1>1, DefaultsDecode, AcceptedKey

LEMMA DocumentKeys ==
    ASSUME NEW d \in Documents
    PROVE  DOMAIN d \subseteq Seq(Names) \ {<<>>}
<1>1. STRING \subseteq Names
  BY DEF Names
<1> QED BY <1>1, SeqGrows, DocumentsAssumption

\* The values of the defaults.
LEMMA DefaultValues ==
    /\ DefaultConfig[ListPath] = List(<<>>)
    /\ \A p \in DOMAIN DefaultConfig : DefaultConfig[p] # Null
BY DEF DefaultConfig, ListPath, List, Scalar, Null

\* What a merged map holds at a path is the file's value, or else the default.
LEMMA MergedValue ==
    ASSUME NEW d \in Documents, NEW p \in DOMAIN Merge(d)
    PROVE  IF p \in DOMAIN d THEN Merge(d)[p] = d[p]
           ELSE p \in DOMAIN DefaultConfig /\ Merge(d)[p] = DefaultConfig[p]
BY MergeInventsNothing DEF Merge

\* A value of the file that is not an empty map stays.
LEMMA ValueStays ==
    ASSUME NEW d \in Documents, NEW p \in DOMAIN d, d[p] # EmptyMap
    PROVE  p \in DOMAIN Merge(d) /\ Merge(d)[p] = d[p]
BY RightSideWins DEF Merge

\* The keys of a merged map are the file's or the defaults'.
LEMMA MergedKeys ==
    ASSUME NEW d \in Documents, NEW p \in DOMAIN Merge(d)
    PROVE  p \in Seq(Names) \ {<<>>}
BY MergedValue, DefaultKeys, DocumentKeys

\* A map whose keys are all known has the list of the file, or the empty list
\* of the defaults.
LEMMA ListStays ==
    ASSUME NEW d \in Documents, ~Rejected(Merge(d))
    PROVE  /\ ListPath \in DOMAIN Merge(d)
           /\ Merge(d)[ListPath] =
                IF ListPath \in DOMAIN d THEN d[ListPath] ELSE List(<<>>)
<1> DEFINE m == Merge(d)
<1>1. \A q \in DOMAIN m : Known(q) /\ q \in Seq(Names) \ {<<>>}
  BY AcceptedKey, MergedKeys DEF Rejected
<1>2. ListPath \in DOMAIN m
  <2>1. CASE ListPath \in DOMAIN d
    <3>1. ~\E p \in DOMAIN DefaultConfig : IsStrictPrefix(ListPath, p)
      BY DefaultKeys, KnownAlone DEF IsStrictPrefix
    <3> QED BY <2>1, <3>1 DEF Merge, ConfigMapMerge
  <2>2. CASE ListPath \notin DOMAIN d
    <3>1. ASSUME NEW q \in DOMAIN d, IsPrefix(q, ListPath), d[q] # EmptyMap
          PROVE  FALSE
      BY <1>1, <2>2, <3>1, ValueStays, KnownAlone
    <3>2. ASSUME NEW q \in DOMAIN d, IsPrefix(ListPath, q) PROVE FALSE
      <4>1. q \in DOMAIN m
        <5>1. ASSUME NEW p \in DOMAIN DefaultConfig, IsStrictPrefix(q, p) PROVE FALSE
          <6>1. q \in Seq(Names) /\ p \in Seq(Names) /\ ListPath \in Seq(Names)
            BY DocumentKeys, DefaultKeys
          <6>2. IsPrefix(ListPath, p)
            BY <3>2, <5>1, <6>1, PrefixOrder DEF IsStrictPrefix
          <6>3. p = ListPath
            BY <6>2, DefaultKeys, KnownAlone
          <6> QED BY <3>2, <5>1, <6>1, <6>3, PrefixOrder DEF IsStrictPrefix
        <5> QED BY <5>1 DEF Merge, ConfigMapMerge
      <4> QED BY <1>1, <2>2, <3>2, <4>1, KnownAlone
    <3> QED BY <2>2, <3>1, <3>2, DefaultKeys DEF Merge, ConfigMapMerge
  <2> QED BY <2>1, <2>2
<1> QED BY <1>2, MergedValue, DefaultValues

\* An accepted map whose list is not null has a list of decoded items.
LEMMA MergedItems ==
    ASSUME NEW d \in Documents, ~Rejected(Merge(d)), ~AssertsNull(Merge(d))
    PROVE  /\ ListPath \in DOMAIN Merge(d)
           /\ Merge(d)[ListPath] = List(Items(Merge(d)))
           /\ Items(Merge(d)) \in Seq(ItemConfigs)
           /\ \A i \in DOMAIN Items(Merge(d)) : Items(Merge(d))[i].services = <<>>
<1> DEFINE m == Merge(d)
           list == m[ListPath]
<1>1. ListPath \in DOMAIN m /\ list = IF ListPath \in DOMAIN d THEN d[ListPath] ELSE List(<<>>)
  BY ListStays
<1>2. list.type = "list" /\ \A i \in DOMAIN list.items :
         list.items[i] # Garbled /\ (list.items[i] # Null => list.items[i].services = <<>>)
  <2>1. Accepted(ListPath, list) /\ list # Null
    BY <1>1 DEF Rejected, AssertsNull, ListPath
  <2> QED BY <2>1, AcceptedList
<1>4. list = List(list.items) /\ list.items \in Seq(ItemConfigs \union {Null, Garbled})
  <2>1. CASE ListPath \in DOMAIN d
    <3>1. IsValue(list)
      BY <1>1, <2>1, DocumentsAssumption
    <3>2. list.type = "list" /\ list = List(list.items)
      BY <1>2, <3>1 DEF IsValue, EmptyMap, Null
    <3> QED BY <1>1, <2>1, <3>2, DocumentsAssumption DEF ListPath
  <2>2. CASE ListPath \notin DOMAIN d
    <3>1. list = List(<<>>)
      BY <1>1, <2>2
    <3> QED BY <3>1, EmptySeq DEF List
  <2> QED BY <2>1, <2>2
<1>5. list.type = "list" /\ list.items = Items(m)
  BY <1>4 DEF List, Items, ListPath
<1>6. \A i \in DOMAIN Items(m) : /\ Items(m)[i] \notin {Null, Garbled}
                                 /\ Items(m)[i].services = <<>>
  BY <1>2, <1>5 DEF AssertsNull
<1>7. Items(m) \in Seq(ItemConfigs)
  <2>1. Items(m) \in [1..Len(Items(m)) -> ItemConfigs] /\ Len(Items(m)) \in Nat
    BY <1>4, <1>5, <1>6, LenProperties
  <2> QED BY <2>1, SeqDef
<1> QED BY <1>1, <1>4, <1>5, <1>6, <1>7

\* The inheritance finds no services to inherit anything and changes nothing.
LEMMA InheritsNothing ==
    ASSUME NEW d \in Documents, ~Rejected(Merge(d)), ~AssertsNull(Merge(d))
    PROVE  Inherit(Merge(d)) = Merge(d)
<1> DEFINE m == Merge(d)
           items == Items(m)
           default == Lookup(m, <<"exporter_defaults", "http", "timeout">>)
           Inherited(service) ==
             IF service.timeout = Unset /\ default # EmptyMap
             THEN [service EXCEPT !.timeout = default.value] ELSE service
           InItem(it) ==
             [it EXCEPT !.services = [i \in DOMAIN @ |-> Inherited(@[i])]]
<1>1. /\ ListPath \in DOMAIN m /\ m[ListPath] = List(items) /\ items \in Seq(ItemConfigs)
      /\ \A i \in DOMAIN items : items[i].services = <<>>
  BY MergedItems
<1>2. ASSUME NEW i \in DOMAIN items PROVE InItem(items[i]) = items[i]
  <2>1. items[i] \in ItemConfigs /\ items[i].services = <<>>
    BY <1>1, ElementOfSeq, LenProperties
  <2>2. [j \in DOMAIN items[i].services |-> Inherited(items[i].services[j])] = <<>>
    <3> HIDE DEF Inherited
    <3> QED BY <2>1
  <2> HIDE DEF Inherited
  <2>3. InItem(items[i]) = [items[i] EXCEPT !.services = <<>>]
    BY <2>1, <2>2
  <2> QED BY <2>1, <2>3 DEF ItemConfigs
<1> HIDE DEF InItem
<1>3. [i \in DOMAIN items |-> InItem(items[i])] = items
  BY <1>1, <1>2, LenProperties
<1>4. Inherit(m) = [m EXCEPT ![ListPath] = List([i \in DOMAIN items |-> InItem(items[i])])]
  BY DEF Inherit, InItem, ListPath
<1>5. m = [p \in DOMAIN m |-> m[p]]
  BY DEF Merge, ConfigMapMerge
<1> QED BY <1>1, <1>3, <1>4, <1>5

\* A configuration that is loaded is the merged one, with the file's items.
LEMMA LoadIsMerge ==
    ASSUME NEW d \in Documents, Load(d).result = "ok"
    PROVE  /\ Load(d).configMap = Merge(d)
           /\ ListPath \in DOMAIN Merge(d)
           /\ Merge(d)[ListPath] = List(Items(Merge(d)))
           /\ Items(Merge(d)) \in Seq(ItemConfigs)
           /\ ~Rejected(Merge(d))
<1>1. ~Rejected(Merge(d)) /\ ~AssertsNull(Merge(d))
  BY DEF Load, Failed, Merge
<1>2. Load(d).configMap = Inherit(Merge(d))
  BY <1>1 DEF Load, Merge
<1> QED BY <1>1, <1>2, MergedItems, InheritsNothing

\* A null section of the merged map is one of the file.
LEMMA NullIsTheFiles ==
    ASSUME NEW d \in Documents, NEW path, Lookup(Merge(d), path) = Null
    PROVE  path \in DOMAIN d /\ d[path] = Null
<1>1. path \in DOMAIN Merge(d) /\ Merge(d)[path] = Null
  BY DEF Lookup, EmptyMap, Null
<1> QED BY <1>1, MergedValue, DefaultValues

\* What is above a default is a section, and no default is above another.
LEMMA DefaultPrefixes ==
    /\ Nested(DefaultConfig)
    /\ \A p \in DOMAIN DefaultConfig : \A q \in Seq(Names) \ {<<>>} :
         IsStrictPrefix(q, p) => q \in Sections
<1>0. DOMAIN DefaultConfig \subseteq Seq(Names)
  BY DefaultKeys
<1>1. Nested(DefaultConfig)
  <2>1. SUFFICES ASSUME NEW p \in DOMAIN DefaultConfig, NEW q \in DOMAIN DefaultConfig,
                        IsPrefix(p, q)
                 PROVE  p = q
    BY DEF Nested
  <2>2. Len(p) <= Len(q) /\ \A i \in 1..Len(p) : p[i] = q[i]
    BY <1>0, <2>1, PrefixAgrees
  <2> QED BY <2>2 DEF DefaultConfig
<1>2. ASSUME NEW p \in DOMAIN DefaultConfig, NEW q \in Seq(Names), q # <<>>, IsStrictPrefix(q, p)
      PROVE  q \in Sections
  <2>1. p \in Seq(Names)
    BY <1>0
  <2>2. /\ Len(q) \in Nat \ {0} /\ Len(p) \in Nat /\ Len(q) < Len(p)
        /\ \A i \in 1..Len(q) : q[i] = p[i]
    <3>1. Len(q) <= Len(p) /\ q # p /\ \A i \in 1..Len(q) : q[i] = p[i]
      BY <1>2, <2>1, PrefixAgrees DEF IsStrictPrefix
    <3>2. Len(q) # Len(p)
      BY <2>1, <3>1, SeqEqual
    <3> QED BY <1>2, <2>1, <3>1, <3>2, LenProperties, EmptySeq
  <2>3. \/ Len(p) = 1
        \/ Len(p) = 2 /\ p[1] \in {"web", "exporter_defaults"}
        \/ Len(p) = 3 /\ p[1] = "exporter_defaults" /\ p[2] = "http"
    BY DEF DefaultConfig
  <2>4. CASE Len(q) = 1
    <3>1. Len(<<p[1]>>) = 1 /\ <<p[1]>> \in Seq(Names)
      BY <1>2, <2>2, <2>4, ElementOfSeq
    <3>2. q = <<p[1]>>
      BY <1>2, <2>2, <2>4, <3>1, SeqEqual
    <3>3. Len(p) # 1
      <4> DEFINE n == Len(q)
                 k == Len(p)
      <4>1. n \in Nat /\ k \in Nat /\ n < k /\ n = 1
        BY <2>2, <2>4
      <4> HIDE DEF n, k
      <4>2. k # 1
        BY <4>1
      <4> QED BY <4>2 DEF k
    <3>4. p[1] \in {"web", "exporter_defaults"}
      BY <2>3, <3>3
    <3> QED BY <3>2, <3>4 DEF Sections
  <2>5. CASE Len(q) # 1
    <3>1. Len(q) = 2 /\ Len(p) = 3
      <4> DEFINE n == Len(q)
                 k == Len(p)
      <4>1. n \in Nat \ {0} /\ k \in Nat /\ n < k /\ n # 1 /\ k \in {1, 2, 3}
        BY <2>2, <2>3, <2>5
      <4> HIDE DEF n, k
      <4>2. n = 2 /\ k = 3
        BY <4>1
      <4> QED BY <4>2 DEF n, k
    <3>2. q[1] = "exporter_defaults" /\ q[2] = "http"
      BY <2>2, <2>3, <3>1
    <3>3. q = <<"exporter_defaults", "http">>
      <4> DEFINE a == q[1]
                 b == q[2]
      <4>1. a \in Names /\ b \in Names
        <5>1. q \in [1..2 -> Names]
          BY <1>2, <3>1, LenProperties
        <5> QED BY <5>1
      <4> HIDE DEF a, b
      <4>2. <<a, b>> \in Seq(Names) /\ Len(<<a, b>>) = 2 /\ <<a, b>>[1] = a /\ <<a, b>>[2] = b
        BY <4>1
      <4>3. q = <<a, b>>
        BY <1>2, <3>1, <4>2, SeqEqual DEF a, b
      <4> QED BY <3>2, <4>3 DEF a, b
    <3> QED BY <3>3 DEF Sections, Kinds
  <2> QED BY <2>4, <2>5
<1> QED BY <1>1, <1>2

\* The decoding accepts a merged map if and only if it accepts each key and
\* value of the file.
LEMMA AcceptsTheFile ==
    ASSUME NEW d \in Documents
    PROVE  ~Rejected(Merge(d)) <=> \A p \in DOMAIN d : Accepted(p, d[p])
<1>1. ASSUME \A p \in DOMAIN d : Accepted(p, d[p]) PROVE ~Rejected(Merge(d))
  BY <1>1, MergedValue, DefaultsDecode DEF Rejected
<1>2. ASSUME ~Rejected(Merge(d)), NEW p \in DOMAIN d PROVE Accepted(p, d[p])
  <2>1. CASE p \in DOMAIN Merge(d)
    BY <1>2, <2>1, MergedValue DEF Rejected
  <2>2. CASE p \notin DOMAIN Merge(d)
    <3>1. d[p] = EmptyMap /\ \E q \in DOMAIN DefaultConfig : IsStrictPrefix(p, q)
      BY <2>2 DEF Merge, ConfigMapMerge
    <3> QED BY <3>1, DefaultPrefixes, DocumentKeys, AcceptedSection
  <2> QED BY <2>1, <2>2
<1> QED BY <1>1, <1>2

\* Which files load depends on the file alone: on its keys, on their values,
\* and on nothing being empty that is asserted to be there.  The defaults it is
\* merged with never make it acceptable or unacceptable (loading.go:107-136).
THEOREM LoadsWhatIsLoadable ==
    \A d \in Documents : Load(d).result = "ok" <=> Loadable(d)
<1> SUFFICES ASSUME NEW d \in Documents
             PROVE  Load(d).result = "ok" <=> Loadable(d)
  OBVIOUS
<1> DEFINE m == Merge(d)
<1>1. Load(d).result = "ok" <=> ~Rejected(m) /\ ~AssertsNull(m)
  BY DEF Load, Failed, Merge
<1>2. CASE Rejected(m)
  BY <1>1, <1>2, AcceptsTheFile DEF Loadable
<1>3. CASE ~Rejected(m)
  <2>1. /\ ListPath \in DOMAIN m
        /\ m[ListPath] = IF ListPath \in DOMAIN d THEN d[ListPath] ELSE List(<<>>)
    BY <1>3, ListStays
  <2>2. Lookup(m, <<"exporter_defaults">>) = Null <=> Lookup(d, <<"exporter_defaults">>) = Null
    <3>1. ASSUME <<"exporter_defaults">> \in DOMAIN d, d[<<"exporter_defaults">>] = Null
          PROVE  Lookup(m, <<"exporter_defaults">>) = Null
      BY <3>1, ValueStays DEF Lookup, Null, EmptyMap
    <3> QED BY <3>1, NullIsTheFiles DEF Lookup, Null, EmptyMap
  <2>3. CASE ListPath \in DOMAIN d
    <3>1. m[ListPath] = d[ListPath] /\ Items(m) = Items(d)
      BY <2>1, <2>3 DEF Items, ListPath
    <3> QED BY <1>1, <1>3, <2>2, <2>3, <3>1, AcceptsTheFile DEF AssertsNull, Loadable, ListPath
  <2>4. CASE ListPath \notin DOMAIN d
    <3>1. m[ListPath] # Null /\ Items(m) = <<>>
      BY <2>1, <2>4 DEF List, Items, Null, ListPath
    <3> QED BY <1>1, <1>3, <2>2, <2>4, <3>1, AcceptsTheFile DEF AssertsNull, Loadable, ListPath
  <2> QED BY <2>3, <2>4
<1> QED BY <1>2, <1>3

\* A configuration that was loaded loads again to itself: the defaults and the
\* inheritance are in it already and are not applied a second time.
THEOREM LoadsToItself ==
    ASSUME NEW d \in Documents, Load(d).result = "ok"
    PROVE  Load(Load(d).configMap) = Load(d)
<1> DEFINE m == Merge(d)
<1>1. ~Rejected(m) /\ ~AssertsNull(m) /\ Load(d) = [result |-> "ok", configMap |-> Inherit(m)]
  BY DEF Load, Failed, Merge
<1>2. Inherit(m) = m
  BY <1>1, InheritsNothing
<1>3. Merge(m) = m
  <2>1. DOMAIN d \subseteq Seq(Names) /\ DOMAIN DefaultConfig \subseteq Seq(Names)
    BY DocumentKeys, DefaultKeys
  <2> QED BY <2>1, MergeTwice, DefaultPrefixes DEF Merge
<1> QED BY <1>1, <1>2, <1>3 DEF Load, Merge

-----------------------------------------------------------------------------
(* What the loaded configuration has to do with the file.                  *)

Entries == [kind : Kinds, exporter : ExporterConfigs \union {Null}]

\* The exporters of an item are listed with their kinds, null ones as well.
LEMMA TaggedEntries ==
    ASSUME NEW kind \in Kinds, NEW list \in Seq(ExporterConfigs \union {Null})
    PROVE  Tagged(kind, list) \in Seq(Entries)
<1>1. Len(list) \in Nat /\ DOMAIN list = 1..Len(list)
  BY LenProperties
<1>2. Tagged(kind, list) \in [1..Len(list) -> Entries]
  BY <1>1, ElementOfSeq DEF Tagged, Entries
<1> QED BY <1>1, <1>2, SeqDef

LEMMA AllEntries ==
    ASSUME NEW exporters \in [Kinds -> Seq(ExporterConfigs \union {Null})]
    PROVE  All(exporters) \in Seq(Entries)
<1>1. \A kind \in Kinds : Tagged(kind, exporters[kind]) \in Seq(Entries)
  BY TaggedEntries
<1>2. /\ Tagged("http", exporters.http) \in Seq(Entries)
      /\ Tagged("file", exporters.file) \in Seq(Entries)
      /\ Tagged("exec", exporters.exec) \in Seq(Entries)
      /\ Tagged("exec_cached", exporters.exec_cached) \in Seq(Entries)
  BY <1>1 DEF Kinds
<1> QED BY <1>2, ConcatProperties DEF All

\* The items that are loaded are those of the file.
LEMMA DocumentIsItems ==
    ASSUME document \in Documents, Load(document).result = "ok"
    PROVE  Document = Items(Merge(document))
<1>1. /\ Merge(document)[ListPath] = List(Items(Merge(document)))
      /\ ~Rejected(Merge(document))
  BY LoadIsMerge
<1>2. CASE ListPath \in DOMAIN document
  <2>1. Merge(document)[ListPath] = document[ListPath]
    BY <1>1, <1>2, ListStays
  <2>2. document[ListPath].type = "list" /\ document[ListPath].items = Items(Merge(document))
    BY <1>1, <2>1 DEF List
  <2> QED BY <1>2, <2>2 DEF Document, Lookup, ListPath
<1>3. CASE ListPath \notin DOMAIN document
  <2>1. Merge(document)[ListPath] = List(<<>>)
    BY <1>1, <1>3, ListStays
  <2>2. Items(Merge(document)) = <<>>
    BY <1>1, <2>1 DEF List
  <2> QED BY <1>3, <2>2 DEF Document, Lookup, ListPath, EmptyMap
<1> QED BY <1>2, <1>3

\* The context path in force is the file's.
LEMMA ContextPathStays ==
    ASSUME NEW d \in Documents
    PROVE  Lookup(Merge(d), <<"web", "context_path">>) = Lookup(d, <<"web", "context_path">>)
<1> DEFINE path == <<"web", "context_path">>
<1>1. path \notin DOMAIN DefaultConfig
  BY DEF DefaultConfig
<1>2. CASE path \in DOMAIN d /\ d[path] # EmptyMap
  BY <1>2, ValueStays DEF Lookup
<1>3. CASE path \in DOMAIN d /\ d[path] = EmptyMap
  <2>1. path \in DOMAIN Merge(d) => Merge(d)[path] = EmptyMap
    BY <1>1, <1>3, MergedValue
  <2> QED BY <1>3, <2>1 DEF Lookup
<1>4. CASE path \notin DOMAIN d
  BY <1>1, <1>4 DEF Lookup, Merge, ConfigMapMerge
<1> QED BY <1>2, <1>3, <1>4

\* Loading panics only for something that is empty in the file.
LEMMA LoadPanics ==
    ASSUME document \in Documents, Load(document).result = "panic"
    PROVE  EmptySomewhere
<1> DEFINE m == Merge(document)
<1>1. ~Rejected(m) /\ AssertsNull(m)
  BY DEF Load, Failed, Merge
<1>2. ListPath \in DOMAIN m /\ (m[ListPath] = Null \/ m[ListPath].type = "list")
      /\ m[ListPath] = IF ListPath \in DOMAIN document THEN document[ListPath]
                       ELSE List(<<>>)
  BY <1>1, ListStays, AcceptedList DEF Rejected
<1>3. CASE Lookup(m, <<"exporter_defaults">>) = Null
  BY <1>3, NullIsTheFiles DEF EmptySomewhere
<1>4. CASE m[ListPath] = Null
  <2>1. Lookup(m, ListPath) = Null
    BY <1>2, <1>4 DEF Lookup
  <2> QED BY <2>1, NullIsTheFiles DEF EmptySomewhere
<1>5. CASE m[ListPath] # Null /\ \E i \in DOMAIN Items(m) : Items(m)[i] = Null
  <2>1. ListPath \in DOMAIN document
    BY <1>2, <1>5 DEF List, Items, ListPath
  <2>2. document[ListPath].type = "list"
    BY <1>2, <1>5, <2>1, DocumentsAssumption DEF IsValue, Null, EmptyMap
  <2>3. Document = Items(m)
    BY <1>2, <2>1, <2>2 DEF Document, Lookup, Items, ListPath
  <2> QED BY <1>5, <2>3 DEF EmptySomewhere, EmptyItem
<1> QED BY <1>1, <1>3, <1>4, <1>5 DEF AssertsNull, ListPath

\* What is known of the configuration between the loading and the exit.
LEMMA Configured ==
    ASSUME LoadedState, pc \notin {"load", "exited"}
    PROVE  /\ document \in Documents
           /\ configMap = Merge(document)
           /\ Items(configMap) \in Seq(ItemConfigs)
           /\ Document = Items(configMap)
           /\ ContextPath = Lookup(document, <<"web", "context_path">>)
           /\ Load(document).result = "ok"
BY LoadIsMerge, DocumentIsItems, ContextPathStays DEF LoadedState, ContextPath

\* An item with all its parts is not one that does not decode.
LEMMA NotGarbled ==
    ASSUME NEW it \in ItemConfigs
    PROVE  it # Garbled
<1>1. "path" \in DOMAIN it
  BY DEF ItemConfigs
<1>2. DOMAIN Garbled = {"type"}
  BY DEF Garbled
<1> QED BY <1>1, <1>2

\* The item main is at is one of the configuration.
LEMMA CurrentItem ==
    ASSUME IInv, pc \in {"item", "exporters", "register"}, item <= Len(Items(configMap))
    PROVE  /\ item \in DOMAIN Items(configMap)
           /\ Current \in ItemConfigs
           /\ Current.exporters # Null => All(Current.exporters) \in Seq(Entries)
<1>1. Items(configMap) \in Seq(ItemConfigs)
  BY Configured DEF IInv
<1>2. item \in 1..Len(Items(configMap)) /\ DOMAIN Items(configMap) = 1..Len(Items(configMap))
  BY <1>1, LenProperties DEF IInv, TypeOK
<1>3. Current \in ItemConfigs
  BY <1>1, <1>2, ElementOfSeq DEF Current
<1> QED BY <1>2, <1>3, AllEntries DEF ItemConfigs

-----------------------------------------------------------------------------
(* The inductive invariant.                                                *)

THEOREM InitIInv == Init => IInv
<1> SUFFICES ASSUME Init PROVE IInv
  OBVIOUS
<1>1. Items(configMap) = <<>>
  BY DEF Init, Items, DefaultConfig, List
<1>2. TypeOK
  <2>1. Len(Items(configMap)) = 0 /\ Len(backends) = 0
    BY <1>1, EmptySeq DEF Init
  <2>2. {signalled, ctxDone, listenerError, webDone} \subseteq BOOLEAN
    BY DEF Init
  <2>3. item \in 1..(Len(Items(configMap)) + 1) /\ Len(backends) < next
    BY <2>1 DEF Init
  <2> QED BY <2>2, <2>3 DEF Init, TypeOK, Pcs
<1>3. LoadedState
  BY DEF Init, LoadedState
<1>4. RouterState
  <2>1. DOMAIN router = {}
    BY DEF Init
  <2>2. IsFiniteSet({}) /\ Cardinality({}) = 0
    BY FS_EmptySet
  <2> QED BY <2>1, <2>2 DEF Init, RouterState
<1>5. CrashExplained
  BY DEF Init, CrashExplained
<1> QED BY <1>2, <1>3, <1>4, <1>5 DEF Init, IInv

\* A step that leaves the configuration and the endpoints alone leaves what is
\* said about them true.
LEMMA Kept ==
    ASSUME IInv, UNCHANGED <<document, configMap, buildVars>>
    PROVE  /\ RouterState'
           /\ BuildState => BuildState'
           /\ Len(backends') < next' /\ next' \in Nat \ {0}
           /\ item' \in 1..(Len(Items(configMap)') + 1)
           /\ Current' = Current /\ Items(configMap)' = Items(configMap)
           /\ (EmptySomewhere \/ RouteUnusable) => (EmptySomewhere \/ RouteUnusable)'
BY DEF IInv, TypeOK, RouterState, Registered, RouteOf, ContextPath, BuildState, Current,
       buildVars, EmptySomewhere, EmptyItem, RouteUnusable, Document

\* The program may exit anywhere, if with a panic then for a reason.
LEMMA ExitKeeps ==
    ASSUME IInv, NEW how \in {"0", "1", "panic"}, pc # "exited",
           pc' = "exited", status' = how,
           UNCHANGED <<document, configMap, buildVars, stopVars>>,
           how = "panic" => EmptySomewhere \/ RouteUnusable
    PROVE  IInv'
<1>1. TypeOK'
  BY Kept DEF IInv, TypeOK, Pcs, stopVars
<1>2. LoadedState'
  BY DEF IInv, LoadedState, buildVars
<1>3. CrashExplained'
  BY Kept DEF CrashExplained
<1> QED BY <1>1, <1>2, <1>3, Kept DEF IInv

LEMMA StopStep ==
    ASSUME IInv, Signal \/ CancelOnSignal \/ ListenerFails \/ CancelOnListenerError
    PROVE  IInv'
<1>1. /\ UNCHANGED <<document, pc, configMap, buildVars, status>>
      /\ {signalled, ctxDone, listenerError, webDone}' \subseteq BOOLEAN
  BY DEF IInv, TypeOK, Signal, CancelOnSignal, ListenerFails, CancelOnListenerError
<1>2. TypeOK'
  BY <1>1, Kept DEF IInv, TypeOK, buildVars
<1>3. LoadedState'
  BY <1>1 DEF IInv, LoadedState, buildVars
<1>4. CrashExplained'
  BY <1>1, Kept DEF IInv, CrashExplained
<1> QED BY <1>1, <1>2, <1>3, <1>4, Kept DEF IInv, buildVars

LEMMA LoadStep ==
    ASSUME IInv, ReadFails \/ Loads \/ LoadFails
    PROVE  IInv'
<1>1. CASE ReadFails
  BY <1>1, ExitKeeps DEF ReadFails, Exit, Goto
<1>2. CASE LoadFails
  <2>1. CASE Load(document).result = "error" /\ Exit("load", "1")
    BY <1>2, <2>1, ExitKeeps DEF LoadFails, Exit, Goto
  <2>2. CASE Load(document).result = "panic" /\ Exit("load", "panic")
    <3>1. EmptySomewhere
      BY <2>2, LoadPanics DEF IInv, LoadedState
    <3> QED BY <1>2, <2>2, <3>1, ExitKeeps DEF LoadFails, Exit, Goto
  <2> QED BY <1>2, <2>1, <2>2 DEF LoadFails
<1>3. CASE Loads
  <2>1. /\ pc = "load" /\ pc' = "config" /\ item = 1
        /\ UNCHANGED <<document, buildVars, stopVars, status>>
        /\ Load(document).result = "ok" /\ configMap' = Load(document).configMap
    BY <1>3 DEF Loads, Goto, IInv, LoadedState
  <2>2. Len(Items(configMap)') \in Nat
    BY <2>1, LoadIsMerge, LenProperties DEF IInv, LoadedState
  <2>3. TypeOK'
    BY <2>1, <2>2 DEF IInv, TypeOK, Pcs, buildVars, stopVars
  <2>4. LoadedState'
    BY <2>1 DEF IInv, LoadedState, buildVars
  <2>5. RouterState'
    BY <2>1 DEF IInv, RouterState, buildVars
  <2>6. CrashExplained'
    BY <2>1 DEF IInv, CrashExplained, TypeOK
  <2> QED BY <2>1, <2>3, <2>4, <2>5, <2>6 DEF IInv, buildVars
<1> QED BY <1>1, <1>2, <1>3

\* Steps of main that only move it on.
LEMMA MovesOn ==
    ASSUME IInv, NEW to \in {"item", "register", "listen", "serve", "close"},
           pc \notin {"load", "exited"}, pc' = to,
           UNCHANGED <<document, configMap, buildVars, status>>,
           {signalled, ctxDone, listenerError, webDone}' \subseteq BOOLEAN,
           to = "register" => BuildState /\ next = Len(All(Current.exporters)) + 1,
           to \in {"listen", "serve", "close"} => item = Len(Items(configMap)) + 1
    PROVE  IInv'
<1>1. TypeOK'
  BY Kept DEF IInv, TypeOK, Pcs, BuildState, buildVars
<1>2. LoadedState'
  BY DEF IInv, LoadedState, buildVars
<1>3. CrashExplained'
  BY Kept DEF IInv, CrashExplained
<1> QED BY <1>1, <1>2, <1>3, Kept DEF IInv, buildVars

LEMMA ReadWebStep ==
    ASSUME IInv, ReadWeb
    PROVE  IInv'
<1>1. CASE Lookup(configMap, <<"web">>) = Null
  <2>1. EmptySomewhere
    BY <1>1, Configured, NullIsTheFiles DEF ReadWeb, Exit, Goto, IInv, EmptySomewhere
  <2> QED BY <1>1, <2>1, ExitKeeps DEF ReadWeb, Exit, Goto
<1>2. CASE Lookup(configMap, <<"web">>) # Null
  BY <1>2, MovesOn DEF ReadWeb, Goto, IInv, TypeOK, stopVars
<1> QED BY <1>1, <1>2

LEMMA ServeStep ==
    ASSUME IInv, AllInitialized \/ Listen \/ StopServing \/ CloseListeners
    PROVE  IInv'
<1>1. CASE AllInitialized
  <2>1. item = Len(Items(configMap)) + 1
    <3>1. Len(Items(configMap)) \in Nat
      BY <1>1, Configured, LenProperties DEF AllInitialized, IInv
    <3> QED BY <1>1, <3>1 DEF AllInitialized, IInv, TypeOK
  <2> QED BY <1>1, <2>1, MovesOn DEF AllInitialized, Goto, IInv, TypeOK, stopVars
<1>2. CASE Listen
  BY <1>2, MovesOn DEF Listen, Goto, IInv, TypeOK
<1>3. CASE StopServing
  BY <1>3, MovesOn DEF StopServing, Goto, IInv, TypeOK, stopVars
<1>4. CASE CloseListeners
  BY <1>4, ExitKeeps DEF CloseListeners, Exit, Goto
<1> QED BY <1>1, <1>2, <1>3, <1>4

\* A function on 1..n is a sequence that is extended by one place.
LEMMA OneMore ==
    ASSUME NEW S, NEW n \in Nat, NEW f \in [1..(n + 1) -> S]
    PROVE  /\ Append([k \in 1..n |-> f[k]], f[n + 1]) = f
           /\ Len([k \in 1..n |-> f[k]]) = n /\ Len(f) = n + 1
<1>1. [k \in 1..n |-> f[k]] \in Seq(S) /\ f \in Seq(S)
  BY SeqDef
<1> QED BY <1>1

LEMMA ItemStep ==
    ASSUME IInv, RefusePath \/ NewEndpoint
    PROVE  IInv'
<1>1. CASE RefusePath
  BY <1>1, ExitKeeps DEF RefusePath, Exit, Goto
<1>2. CASE NewEndpoint
  <2>1. /\ item <= Len(Items(configMap)) /\ pc = "item" /\ Current.path \notin initializedPaths
        /\ next' = 1 /\ usedNames' = {} /\ backends' = <<>>
        /\ UNCHANGED <<document, configMap, item, router, initializedPaths, stopVars>>
    BY <1>2 DEF NewEndpoint, Exit, Goto
  <2>2. item \in DOMAIN Items(configMap)
        /\ (Current.exporters # Null => All(Current.exporters) \in Seq(Entries))
    BY <2>1, CurrentItem
  <2>3. RouterState' /\ LoadedState' /\ Current' = Current /\ Len(backends') = 0
        /\ (EmptySomewhere => EmptySomewhere')
    <3>1. Len(<<>>) = 0
      BY EmptySeq
    <3>2. RouterState'
      BY <2>1 DEF IInv, RouterState, Registered, RouteOf, ContextPath
    <3>3. LoadedState'
      BY <1>2, <2>1 DEF IInv, LoadedState, NewEndpoint, Exit, Goto
    <3> QED BY <2>1, <3>1, <3>2, <3>3 DEF Current, EmptySomewhere, EmptyItem, Document
  <2>4. CASE Current.exporters = Null
    <3>1. EmptySomewhere
      <4>1. item \in DOMAIN Document /\ Document[item] = Current
        BY <2>1, <2>2, Configured DEF Current, IInv
      <4>2. Current # Garbled
        BY <2>1, CurrentItem, NotGarbled
      <4> QED BY <2>4, <4>1, <4>2 DEF EmptySomewhere, EmptyItem
    <3>2. pc' = "exited" /\ status' = "panic"
      BY <1>2, <2>4 DEF NewEndpoint, Exit, Goto
    <3>3. TypeOK'
      BY <2>1, <2>3, <3>2 DEF IInv, TypeOK, Pcs, stopVars
    <3> QED BY <2>1, <2>3, <3>1, <3>2, <3>3 DEF IInv, CrashExplained
  <2>5. CASE Current.exporters # Null
    <3>1. pc' = "exporters" /\ status' = status /\ status = "none"
      BY <1>2, <2>1, <2>5 DEF NewEndpoint, Goto, IInv, TypeOK
    <3>2. Len(All(Current.exporters)) \in Nat
      BY <2>2, <2>5, LenProperties
    <3>3. TypeOK'
      BY <2>1, <2>3, <3>1, <3>2 DEF IInv, TypeOK, Pcs, stopVars
    <3>4. BuildState'
      BY <2>1, <2>3, <2>5, <3>2 DEF BuildState, NamesApart
    <3> QED BY <2>1, <2>3, <3>1, <3>3, <3>4 DEF IInv, CrashExplained
  <2> QED BY <2>4, <2>5
<1> QED BY <1>1, <1>2

\* An entry of All is an entry of one of the lists.
LEMMA EntryOfAll ==
    ASSUME NEW exporters \in [Kinds -> Seq(ExporterConfigs \union {Null})],
           NEW n \in 1..Len(All(exporters))
    PROVE  \E kind \in Kinds : \E k \in DOMAIN exporters[kind] :
             All(exporters)[n] = [kind |-> kind, exporter |-> exporters[kind][k]]
<1> DEFINE In(e) == \E kind \in Kinds : \E k \in DOMAIN exporters[kind] :
                      e = [kind |-> kind, exporter |-> exporters[kind][k]]
           S == {e \in Entries : In(e)}
<1>1. ASSUME NEW kind \in Kinds PROVE Tagged(kind, exporters[kind]) \in Seq(S)
  <2> DEFINE list == exporters[kind]
             tagged == Tagged(kind, list)
  <2>1. list \in Seq(ExporterConfigs \union {Null}) /\ Len(list) \in Nat
        /\ DOMAIN list = 1..Len(list)
    BY LenProperties
  <2>2. tagged \in Seq(Entries) /\ tagged = [i \in 1..Len(list) |-> [kind |-> kind, exporter |-> list[i]]]
    BY <2>1, TaggedEntries DEF Tagged
  <2>3. ASSUME NEW i \in 1..Len(list) PROVE tagged[i] \in S
    <3> HIDE DEF tagged
    <3>1. tagged[i] = [kind |-> kind, exporter |-> list[i]] /\ i \in DOMAIN exporters[kind]
      BY <2>1, <2>2
    <3>2. tagged[i] \in Entries
      <4> HIDE DEF list
      <4> QED BY <2>1, <2>2, ElementOfSeq
    <3>3. In(tagged[i])
      <4>1. tagged[i] = [kind |-> kind, exporter |-> exporters[kind][i]]
        BY <3>1
      <4> QED BY <3>1, <4>1
    <3> QED BY <3>2, <3>3
  <2> HIDE DEF S
  <2>4. tagged \in [1..Len(list) -> S]
    BY <2>2, <2>3
  <2> QED BY <2>1, <2>4, SeqDef
<1>2. /\ Tagged("http", exporters.http) \in Seq(S)
      /\ Tagged("file", exporters.file) \in Seq(S)
      /\ Tagged("exec", exporters.exec) \in Seq(S)
      /\ Tagged("exec_cached", exporters.exec_cached) \in Seq(S)
  <2> HIDE DEF S
  <2> QED BY <1>1 DEF Kinds
<1>3. All(exporters) \in Seq(S)
  <2> HIDE DEF S
  <2> QED BY <1>2, ConcatProperties DEF All
<1>4. All(exporters)[n] \in S
  <2> HIDE DEF S
  <2> QED BY <1>3, ElementOfSeq
<1> QED BY <1>4

\* A null entry that main comes to is one of the file.
LEMMA NilStep ==
    ASSUME IInv, NilExporter
    PROVE  IInv'
<1>1. /\ pc = "exporters" /\ BuildState /\ next \in Nat \ {0} /\ next <= Len(All(Current.exporters))
      /\ All(Current.exporters)[next].exporter = Null /\ item <= Len(Items(configMap))
  BY DEF NilExporter, IInv, BuildState
<1>2. /\ item \in DOMAIN Items(configMap) /\ Current \in ItemConfigs /\ Current.exporters # Null
      /\ Len(All(Current.exporters)) \in Nat
  BY <1>1, CurrentItem, LenProperties DEF BuildState
<1>3. item \in DOMAIN Document /\ Document[item] = Current
  BY <1>1, <1>2, Configured DEF Current, IInv
<1>4. Current.exporters \in [Kinds -> Seq(ExporterConfigs \union {Null})]
  BY <1>2 DEF ItemConfigs
<1>5. \E kind \in Kinds : \E k \in DOMAIN Current.exporters[kind] : Current.exporters[kind][k] = Null
  <2>1. next \in 1..Len(All(Current.exporters))
    BY <1>1, <1>2
  <2> DEFINE exporters == Current.exporters
  <2>2. PICK kind \in Kinds : \E k \in DOMAIN exporters[kind] :
          All(exporters)[next] = [kind |-> kind, exporter |-> exporters[kind][k]]
    <3> HIDE DEF exporters
    <3> QED BY <1>4, <2>1, EntryOfAll DEF exporters
  <2> QED BY <1>1, <2>2
<1>6. EmptySomewhere
  <2>1. Current # Garbled
    BY <1>2, NotGarbled
  <2> QED BY <1>2, <1>3, <1>5, <2>1 DEF EmptySomewhere, EmptyItem
<1> QED BY <1>6, ExitKeeps DEF NilExporter, Exit, Goto

LEMMA ExporterStep ==
    ASSUME IInv, AddExporter \/ EndpointReady
    PROVE  IInv'
<1> DEFINE entries == All(Current.exporters)
           entry == entries[next]
<1>1. /\ pc = "exporters" /\ BuildState /\ RouterState
      /\ UNCHANGED <<document, configMap, item, router, initializedPaths, stopVars>>
  BY DEF AddExporter, EndpointReady, Goto, buildVars, IInv
<1>2. entries \in Seq(Entries) /\ Len(entries) \in Nat /\ DOMAIN entries = 1..Len(entries)
      /\ entries' = entries
  BY <1>1, CurrentItem, LenProperties DEF BuildState, Current
<1>3. CASE EndpointReady
  BY <1>1, <1>2, <1>3, MovesOn DEF EndpointReady, Goto, BuildState, IInv, TypeOK, stopVars
<1>4. RouterState' /\ Current' = Current
  BY <1>1 DEF RouterState, Registered, RouteOf, ContextPath, Current
<1>5. ASSUME pc' = "exited", status' = "1", UNCHANGED <<backends, next>> PROVE IInv'
  <2>1. TypeOK'
    BY <1>1, <1>5 DEF IInv, TypeOK, Pcs, stopVars
  <2>2. LoadedState' /\ CrashExplained'
    BY <1>1, <1>5 DEF IInv, LoadedState, CrashExplained
  <2> QED BY <1>1, <1>4, <1>5, <2>1, <2>2 DEF IInv
<1>6. ASSUME next <= Len(entries), entry.exporter.name \notin usedNames,
             NameLabel \notin DOMAIN entry.exporter.labels,
             usedNames' = usedNames \cup {entry.exporter.name},
             backends' = Append(backends, Backend(entry)),
             next' = next + 1, UNCHANGED <<pc, status>>
      PROVE  IInv'
  <2>1. next \in Nat \ {0} /\ next - 1 \in Nat /\ (next - 1) + 1 = next /\ next' - 1 = next
    BY <1>6 DEF IInv
  <2> DEFINE f == [k \in 1..next |-> Backend(entries[k])]
             S == {Backend(entries[k]) : k \in 1..next}
  <2>2. f \in [1..next -> S] /\ f[next] = Backend(entry)
    BY <2>1
  <2>3. backends = [k \in 1..(next - 1) |-> f[k]]
    BY <1>1, <2>1 DEF BuildState
  <2>4. backends' = f /\ Len(backends') = next
    <3> HIDE DEF f, S, entries
    <3>1. Append([k \in 1..(next - 1) |-> f[k]], f[next]) = f /\ Len(f) = next
      BY <2>1, <2>2, OneMore
    <3> QED BY <1>6, <2>2, <2>3, <3>1 DEF entries
  <2>5. NamesApart(entries, next)
    BY <1>1, <1>6, <2>1 DEF BuildState, NamesApart
  <2>6. usedNames' = {entries[k].exporter.name : k \in 1..next}
    BY <1>1, <1>6, <2>1 DEF BuildState
  <2>7. BuildState'
    BY <1>1, <1>2, <1>4, <1>6, <2>1, <2>4, <2>5, <2>6 DEF BuildState
  <2>8. TypeOK'
    BY <1>1, <1>2, <1>6, <2>1, <2>4 DEF IInv, TypeOK, stopVars
  <2>9. LoadedState' /\ CrashExplained'
    BY <1>1, <1>6 DEF IInv, TypeOK, LoadedState, CrashExplained
  <2> QED BY <1>1, <1>4, <1>6, <2>1, <2>7, <2>8, <2>9 DEF IInv
<1>7. CASE AddExporter
  BY <1>5, <1>6, <1>7 DEF AddExporter, Exit, Goto
<1> QED BY <1>3, <1>7

LEMMA RegisterStep ==
    ASSUME IInv, Register
    PROVE  IInv'
<1> DEFINE entries == All(Current.exporters)
           route == RouteOf(item)
<1>1. /\ pc = "register" /\ BuildState /\ RouterState /\ next = Len(entries) + 1
      /\ UNCHANGED <<document, configMap, next, usedNames, backends, stopVars>>
      /\ route = Route(ContextPath, Current.path) /\ status = "none"
  BY DEF Register, IInv, TypeOK, RouteOf, Current
<1>2. /\ item \in DOMAIN Items(configMap) /\ DOMAIN Items(configMap) = 1..Len(Items(configMap))
      /\ Len(Items(configMap)) \in Nat
      /\ Items(configMap) = Document /\ ContextPath = Lookup(document, <<"web", "context_path">>)
      /\ entries \in Seq(Entries)
  BY <1>1, CurrentItem, Configured, LenProperties DEF IInv, BuildState
<1>3. CASE Refuses(route)
  <2>1. /\ pc' = "exited" /\ status' = "panic"
        /\ UNCHANGED <<document, configMap, buildVars, stopVars>>
    BY <1>1, <1>3 DEF Register, Exit, Goto, buildVars
  <2>2. RouteUnusable
    <3>1. ASSUME NEW r \in DOMAIN router, r = route \/ Clash(r, route) PROVE RouteUnusable
      <4>1. PICK i \in 1..(item - 1) : r = RouteOf(i)
        BY <1>1 DEF RouterState
      <4>2. i \in DOMAIN Document /\ item \in DOMAIN Document /\ i < item
        BY <1>2
      <4> QED BY <1>2, <3>1, <4>1, <4>2 DEF RouteUnusable, RouteOf
    <3>2. CASE route \notin Usable
      BY <1>2, <3>2 DEF RouteUnusable, RouteOf
    <3> QED BY <1>3, <3>1, <3>2 DEF Refuses
  <2> QED BY <1>1, <2>1, <2>2, ExitKeeps
<1>4. CASE ~Refuses(route)
  <2>0. route \notin DOMAIN router
    BY <1>4 DEF Refuses
  <2>1. /\ router' = [r \in DOMAIN router \cup {route} |->
                         IF r = route THEN [path |-> Current.path, backends |-> backends]
                         ELSE router[r]]
        /\ initializedPaths' = initializedPaths \cup {Current.path}
        /\ item' = item + 1 /\ pc' = "item" /\ status' = status
    BY <1>1, <1>4 DEF Register, Goto
  <2>2. item \in Nat /\ 1..(item' - 1) = 1..(item - 1) \cup {item}
        /\ \A i : RouteOf(i)' = RouteOf(i)
    BY <1>1, <1>2, <2>1 DEF RouteOf, ContextPath
  <2>3. TypeOK'
    BY <1>1, <1>2, <2>1 DEF IInv, TypeOK, Pcs, stopVars
  <2>4. LoadedState'
    BY <1>1, <2>1 DEF IInv, LoadedState
  <2>5. \A i \in 1..(item' - 1) : Registered(i)'
    <3>1. ASSUME NEW i \in 1..(item - 1) PROVE Registered(i)'
      BY <1>1, <2>0, <2>1, <2>2 DEF RouterState, Registered
    <3>2. ASSUME NEW n, n = item PROVE Registered(n)'
      <4>1. backends = [k \in DOMAIN entries |-> Backend(entries[k])]
            /\ NamesApart(entries, Len(entries)) /\ Current.exporters # Null
        <5>1. DOMAIN entries = 1..(next - 1) /\ next - 1 = Len(entries)
          BY <1>1, <1>2, LenProperties
        <5> HIDE DEF entries
        <5> QED BY <1>1, <5>1 DEF BuildState, entries
      <4>2. Current = Items(configMap)[n] /\ Items(configMap)' = Items(configMap)
        BY <1>1, <3>2 DEF Current
      <4>3. /\ router'[RouteOf(n)'] = [path |-> Current.path, backends |-> backends]
            /\ RouteOf(n)' \in DOMAIN router'
        <5>1. RouteOf(n)' = route
          BY <2>2, <3>2
        <5> HIDE DEF route, entries
        <5> QED BY <2>1, <5>1
      <4> HIDE DEF entries, route
      <4> QED BY <4>1, <4>2, <4>3 DEF Registered, entries
    <3> HIDE DEF entries, route
    <3>3. ASSUME NEW i \in 1..(item' - 1) PROVE Registered(i)'
      <4>1. CASE i \in 1..(item - 1)
        BY <3>1, <4>1
      <4>2. CASE i = item
        BY <3>2, <4>2
      <4> QED BY <2>2, <4>1, <4>2
    <3> QED BY <3>3
  <2>6. RouterState'
    <3>1. \A r \in DOMAIN router' : \E i \in 1..(item' - 1) : r = RouteOf(i)'
      BY <1>1, <2>1, <2>2 DEF RouterState
    <3>2. \A i \in 1..(item - 1) : Items(configMap)[i].path # Items(configMap)[item].path
      BY <1>1 DEF BuildState, RouterState, Current
    <3>3. \A i, j \in 1..(item' - 1) :
            Items(configMap)'[i].path = Items(configMap)'[j].path => i = j
      BY <1>1, <2>2, <3>2 DEF RouterState
    <3>4. initializedPaths' = {Items(configMap)'[i].path : i \in 1..(item' - 1)}
      BY <1>1, <2>1, <2>2 DEF RouterState, Current
    <3>5. IsFiniteSet(DOMAIN router') /\ Cardinality(DOMAIN router') = item' - 1
      <4>1. DOMAIN router' = DOMAIN router \cup {route}
        BY <2>1
      <4> HIDE DEF entries, route
      <4>2. /\ IsFiniteSet(DOMAIN router \cup {route})
            /\ Cardinality(DOMAIN router \cup {route}) = Cardinality(DOMAIN router) + 1
        BY <1>1, <2>0, FS_AddElement DEF RouterState
      <4> QED BY <1>1, <2>1, <2>2, <4>1, <4>2 DEF RouterState
    <3> QED BY <2>5, <3>1, <3>3, <3>4, <3>5 DEF RouterState
  <2>7. CrashExplained'
    BY <1>1, <2>1 DEF CrashExplained
  <2> QED BY <1>1, <2>1, <2>3, <2>4, <2>6, <2>7 DEF IInv
<1> QED BY <1>3, <1>4

\* Every step of main, of the waiting goroutines and of the environment keeps
\* the invariant.
THEOREM StepIInv == IInv /\ [Next]_vars => IInv'
<1> SUFFICES ASSUME IInv, [Next]_vars PROVE IInv'
  OBVIOUS
<1>1. CASE UNCHANGED vars
  <2>1. UNCHANGED <<document, pc, configMap, buildVars, stopVars, status>>
    BY <1>1 DEF vars
  <2>2. TypeOK'
    BY <2>1, Kept DEF IInv, TypeOK, buildVars, stopVars
  <2>3. LoadedState' /\ CrashExplained'
    BY <2>1, Kept DEF IInv, LoadedState, CrashExplained, buildVars
  <2> QED BY <2>1, <2>2, <2>3, Kept DEF IInv, buildVars
<1>2. CASE MainRuns
  BY <1>2, LoadStep, ReadWebStep, ItemStep, NilStep, ExporterStep, RegisterStep, ServeStep DEF MainRuns
<1>3. CASE Signal \/ CancelOnSignal \/ ListenerFails \/ CancelOnListenerError
  BY <1>3, StopStep
<1> QED BY <1>1, <1>2, <1>3 DEF Next

\* From the start to the exit main is where the invariant says: the endpoints
\* registered are those of the items it has been through.
THEOREM Invariant == Spec => []IInv
BY InitIInv, StepIInv, PTL DEF Spec

\* Every variable holds what main can put into it; what it builds never runs
\* ahead of the configuration (main.go:100-126, interface.go:49-113).
THEOREM TypeCorrect == Spec => []TypeOK
<1>1. IInv => TypeOK
  BY DEF IInv
<1> QED BY <1>1, Invariant, PTL

\* The program panics during its start only for something that is empty in the
\* file, an exporter's entry included, or for a route the router refuses,
\* whatever the file and whatever the router refuses (loading.go:107-177,
\* main.go:93-123, interface.go:50-53).
THEOREM CrashesExplained == Spec => []CrashExplained
<1>1. IInv => CrashExplained
  BY DEF IInv
<1> QED BY <1>1, Invariant, PTL

-----------------------------------------------------------------------------
(* What follows for what is served.                                        *)

\* Until main has loaded a file it has no items, and decoded ones afterwards.
LEMMA ItemsAlways ==
    ASSUME LoadedState
    PROVE  Items(configMap) \in Seq(ItemConfigs)
<1>1. Items(DefaultConfig) = <<>>
  BY DEF Items, DefaultConfig, List
<1> QED BY <1>1, EmptySeq, LoadIsMerge DEF LoadedState

\* The exporters EntriesOf finds for a route are those its backends were
\* built from: no two items that are registered have the same path.
LEMMA BuiltFromEntries ==
    ASSUME IInv, NEW r \in DOMAIN router
    PROVE  /\ EntriesOf(r) \in Seq(Entries)
           /\ router[r].backends = [k \in DOMAIN EntriesOf(r) |-> Backend(EntriesOf(r)[k])]
           /\ NamesApart(EntriesOf(r), Len(EntriesOf(r)))
<1> DEFINE Same(k) == Items(configMap)[k].path = router[r].path
<1>1. PICK i \in 1..(item - 1) : r = RouteOf(i)
  BY DEF IInv, RouterState
<1>2. Registered(i)
  BY DEF IInv, RouterState
<1>3. (CHOOSE k \in 1..(item - 1) : Same(k)) = i
  <2>1. Same(i) /\ \A k \in 1..(item - 1) : Same(k) => k = i
    BY <1>1, <1>2 DEF IInv, RouterState, Registered
  <2> HIDE DEF Same
  <2> QED BY <2>1
<1>4. EntriesOf(r) = All(Items(configMap)[i].exporters)
  BY <1>3 DEF EntriesOf
<1>5. All(Items(configMap)[i].exporters) \in Seq(Entries)
  <2>1. Items(configMap)[i] \in ItemConfigs
    <3>1. Items(configMap) \in Seq(ItemConfigs)
      BY ItemsAlways DEF IInv
    <3>2. i \in 1..Len(Items(configMap))
      BY <3>1, LenProperties DEF IInv, TypeOK
    <3> QED BY <3>1, <3>2, ElementOfSeq
  <2> QED BY <1>2, <2>1, AllEntries DEF Registered, ItemConfigs
<1> QED BY <1>1, <1>2, <1>4, <1>5 DEF Registered

\* Once the program listens every path of the file leads to an endpoint built
\* from its own exporters, one route for each, whatever the file, the context
\* path and the cleaning of paths are (main.go:102-123).
THEOREM Served == Spec => []ServedAsConfigured
<1>1. IInv => ServedAsConfigured
  <2> SUFFICES ASSUME IInv, Serving PROVE ServedAsConfigured
    BY DEF ServedAsConfigured
  <2>1. /\ item = Len(Items(configMap)) + 1 /\ Document = Items(configMap) /\ RouterState
        /\ Items(configMap) \in Seq(ItemConfigs)
    BY Configured DEF IInv, Serving
  <2>2. DOMAIN Document = 1..(item - 1) /\ Len(Document) = item - 1
    BY <2>1, LenProperties
  <2>3. ASSUME NEW i \in DOMAIN Document
        PROVE  /\ RouteOf(i) \in DOMAIN router
               /\ BuiltFrom(router[RouteOf(i)], Document[i])
    <3>1. Registered(i)
      BY <2>1, <2>2, <2>3 DEF RouterState
    <3> QED BY <2>1, <3>1 DEF Registered, BuiltFrom, Backend
  <2>4. \A i \in DOMAIN Document : RouteOf(i) = Route(ContextPath, Document[i].path)
    BY <2>1 DEF RouteOf
  <2> QED BY <2>1, <2>2, <2>3, <2>4 DEF ServedAsConfigured, RouterState
<1> QED BY <1>1, Invariant, PTL

\* The backend of each http exporter of the file has the deadline that its own
\* entry in the file says: what Load leaves of the items is what the file has.
LEMMA HttpDeadline ==
    ASSUME IInv, Serving, NEW i \in DOMAIN Document, NEW k \in HttpAt(i)
    PROVE  HasDeadline(i, k, IF Timeout(i, k) = Unset THEN "0" ELSE Timeout(i, k))
<1> DEFINE entries == All(Document[i].exporters)
<1>1. /\ item = Len(Items(configMap)) + 1 /\ Document = Items(configMap)
      /\ Items(configMap) \in Seq(ItemConfigs)
  BY Configured DEF IInv, Serving
<1>2. Registered(i)
  BY <1>1, LenProperties DEF IInv, RouterState
<1>3. RouteOf(i) = Route(ContextPath, Document[i].path) /\ RouteOf(i) \in DOMAIN router
  BY <1>1, <1>2 DEF RouteOf, Registered
<1>4. router[RouteOf(i)].backends = [n \in DOMAIN entries |-> Backend(entries[n])]
  BY <1>1, <1>2 DEF Registered
<1>5. k \in DOMAIN entries /\ entries[k].kind = "http"
  BY DEF HttpAt
<1>6. router[RouteOf(i)].backends[k].deadline = Deadline(entries[k])
  BY <1>4, <1>5 DEF Backend
<1> QED BY <1>3, <1>5, <1>6 DEF HasDeadline, Deadline, Timeout

\* What the file sets is in force when the program listens, down to the
\* timeout of each backend (loading.go:42-74, interface.go:56-73).
THEOREM SettingsKept == Spec => []ExplicitSettingsKept
<1>1. IInv => ExplicitSettingsKept
  <2> SUFFICES ASSUME IInv, Serving PROVE ExplicitSettingsKept
    BY DEF ExplicitSettingsKept
  <2>1. ASSUME NEW p \in DOMAIN document, document[p].type \in {"scalar", "list"}
        PROVE  configMap[p] = document[p]
    <3>1. document \in Documents /\ configMap = Merge(document)
      BY Configured DEF IInv, Serving
    <3>2. document[p] # EmptyMap
      BY <2>1 DEF EmptyMap
    <3> QED BY <3>1, <3>2, ValueStays
  <2> QED BY <2>1, HttpDeadline DEF ExplicitSettingsKept
<1> QED BY <1>1, Invariant, PTL

\* Two exporters of one endpoint never carry the same exporter_name, and no
\* label of the file stands in for it (interface.go:83-102).
THEOREM NamesAreDistinct == Spec => []NamesDistinguish
<1>1. IInv => NamesDistinguish
  <2> SUFFICES ASSUME IInv, NEW r \in DOMAIN router,
                      NEW k \in DOMAIN router[r].backends, NEW l \in DOMAIN router[r].backends,
                      NameLabel \in DOMAIN router[r].backends[k].labels,
                      NameLabel \in DOMAIN router[r].backends[l].labels
               PROVE  /\ router[r].backends[k].labels[NameLabel] = EntriesOf(r)[k].exporter.name
                      /\ router[r].backends[k].labels[NameLabel]
                           = router[r].backends[l].labels[NameLabel] => k = l
    BY DEF NamesDistinguish
  <2> DEFINE entries == EntriesOf(r)
  <2>1. /\ entries \in Seq(Entries) /\ NamesApart(entries, Len(entries))
        /\ router[r].backends = [j \in DOMAIN entries |-> Backend(entries[j])]
    BY BuiltFromEntries
  <2>2. DOMAIN entries = 1..Len(entries)
    BY <2>1, LenProperties
  <2> HIDE DEF entries
  <2>3. ASSUME NEW j \in 1..Len(entries), NameLabel \in DOMAIN Labels(entries[j].exporter)
        PROVE  Labels(entries[j].exporter)[NameLabel] = entries[j].exporter.name
    BY <2>1, <2>3 DEF NamesApart, Labels
  <2>4. /\ router[r].backends[k].labels = Labels(entries[k].exporter)
        /\ router[r].backends[l].labels = Labels(entries[l].exporter)
        /\ k \in 1..Len(entries) /\ l \in 1..Len(entries)
    BY <2>1, <2>2 DEF Backend
  <2> QED BY <2>1, <2>3, <2>4 DEF NamesApart, entries
<1> QED BY <1>1, Invariant, PTL

\* An http exporter that has no timeout in the file is served with no deadline,
\* whatever defaults the file sets, as Load changes no item of it:
\* DefaultTimeoutApplies, which the comments of the code promise, holds for no
\* such exporter unless the default is zero (loading.go:133-164,
\* interface.go:56-73).
THEOREM NoDefaultDeadline == Spec => []DefaultsNeverApply
<1>1. IInv => DefaultsNeverApply
  BY HttpDeadline DEF DefaultsNeverApply
<1> QED BY <1>1, Invariant, PTL

-----------------------------------------------------------------------------
(* What a step of the program may never do.                                *)

\* No later item replaces or removes what was registered for an earlier one,
\* whatever paths clean to the same route (main.go:117-123).
THEOREM RegisteredForGood == Spec => RoutesStay
<1>1. [Next]_vars => [\A r \in DOMAIN router : r \in DOMAIN router' /\ router'[r] = router[r]]_vars
  <2> SUFFICES ASSUME [Next]_vars, NEW r \in DOMAIN router
               PROVE  r \in DOMAIN router' /\ router'[r] = router[r]
    OBVIOUS
  <2>1. CASE Register
    BY <2>1 DEF Register, Refuses
  <2>2. CASE UNCHANGED router
    BY <2>2
  <2>3. CASE ~Register
    BY <2>2, <2>3 DEF Next, MainRuns, ReadFails, Loads, LoadFails, ReadWeb, RefusePath,
          NewEndpoint, NilExporter, AddExporter, EndpointReady, AllInitialized, Listen, StopServing,
          CloseListeners, Signal, CancelOnSignal, ListenerFails, CancelOnListenerError,
          buildVars, vars
  <2> QED BY <2>1, <2>3
<1> QED BY <1>1, PTL DEF Spec, RoutesStay

\* Main goes through the exporters of an item, the items of the file and then
\* the places after them, each once, and stops at the last one: the start ends
\* for every file (main.go:76-159, interface.go:49-113).
THEOREM StartEnds == Spec => MainGoesOn
<1>1. IInv /\ [Next]_vars => [MainRuns => Ahead]_vars
  <2> SUFFICES ASSUME IInv, MainRuns PROVE Ahead
    OBVIOUS
  <2>1. CASE ReadFails \/ Loads \/ LoadFails \/ ReadWeb
    BY <2>1 DEF ReadFails, Loads, LoadFails, ReadWeb, Exit, Goto, Ahead, PcRank, buildVars
  <2>2. CASE RefusePath \/ NewEndpoint
    <3>1. pc = "item" /\ item' = item /\ pc' \in {"exited", "exporters"}
      BY <2>2 DEF RefusePath, NewEndpoint, Exit, Goto, buildVars
    <3> QED BY <3>1 DEF Ahead, PcRank
  <2>3. CASE NilExporter \/ AddExporter
    BY <2>3 DEF NilExporter, AddExporter, Exit, Goto, Ahead, PcRank, buildVars
  <2>4. CASE EndpointReady \/ AllInitialized \/ Listen \/ StopServing \/ CloseListeners
    BY <2>4 DEF EndpointReady, AllInitialized, Listen, StopServing, CloseListeners, Exit,
                Goto, Ahead, PcRank, buildVars
  <2>5. CASE Register
    <3>1. item <= Len(Items(configMap))
      BY <2>5 DEF Register, IInv, BuildState
    <3>2. \/ item' = item + 1
          \/ item' = item /\ pc = "register" /\ pc' = "exited"
      BY <2>5 DEF Register, Exit, Goto
    <3> QED BY <3>1, <3>2 DEF Ahead, PcRank
  <2> QED BY <2>1, <2>2, <2>3, <2>4, <2>5 DEF MainRuns
<1> QED BY <1>1, Invariant, PTL DEF Spec, MainGoesOn
=============================================================================
