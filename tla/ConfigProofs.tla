---------------------------- MODULE ConfigProofs ----------------------------
(***************************************************************************)
(* The laws of the merge of two configuration maps (configMapMerge,        *)
(* src/pkg/config/loading.go:42-74), for maps of any keys and values.  The *)
(* maps are flat, as in Config; a nested map gives one in which no key is  *)
(* above another, which is what Nested says.                               *)
(***************************************************************************)
EXTENDS Config, SequenceTheorems, TLAPS

\* Is this the flat form of a nested map?
Nested(configMap) == \A p, q \in DOMAIN configMap : IsPrefix(p, q) => p = q

-----------------------------------------------------------------------------
(* Prefixes.                                                               *)

\* A prefix agrees with the whole as far as it goes.
LEMMA PrefixAgrees ==
    ASSUME NEW S, NEW s \in Seq(S), NEW t \in Seq(S)
    PROVE  IsPrefix(s, t) <=> Len(s) <= Len(t) /\ \A i \in 1..Len(s) : s[i] = t[i]
<1>1. Len(s) \in Nat /\ Len(t) \in Nat
  BY LenProperties
<1>2. CASE Len(s) <= Len(t)
  <2>1. /\ SubSeq(s, 1, Len(s)) = [i \in 1..Len(s) |-> s[i]]
        /\ SubSeq(t, 1, Len(s)) = [i \in 1..Len(s) |-> t[i]]
    BY <1>1, <1>2
  <2> QED BY <1>2, <2>1 DEF IsPrefix
<1>3. CASE ~(Len(s) <= Len(t))
  BY <1>3 DEF IsPrefix
<1> QED BY <1>2, <1>3

\* Being a prefix is a partial order.
LEMMA PrefixOrder ==
    ASSUME NEW S, NEW s \in Seq(S), NEW t \in Seq(S), NEW u \in Seq(S)
    PROVE  /\ IsPrefix(s, s)
           /\ IsPrefix(s, t) /\ IsPrefix(t, s) => s = t
           /\ IsPrefix(s, t) /\ IsPrefix(t, u) => IsPrefix(s, u)
<1>1. Len(s) \in Nat /\ Len(t) \in Nat /\ Len(u) \in Nat
  BY LenProperties
<1>2. IsPrefix(s, s)
  BY <1>1, PrefixAgrees
<1>3. IsPrefix(s, t) /\ IsPrefix(t, s) => s = t
  BY <1>1, PrefixAgrees, SeqEqual
<1>4. ASSUME IsPrefix(s, t), IsPrefix(t, u) PROVE IsPrefix(s, u)
  <2>1. Len(s) <= Len(t) /\ \A i \in 1..Len(s) : s[i] = t[i]
    BY <1>4, PrefixAgrees
  <2>2. Len(t) <= Len(u) /\ \A i \in 1..Len(t) : t[i] = u[i]
    BY <1>4, PrefixAgrees
  <2>3. Len(s) <= Len(u) /\ \A i \in 1..Len(s) : s[i] = u[i]
    BY <1>1, <2>1, <2>2
  <2> QED BY <2>3, PrefixAgrees
<1> QED BY <1>2, <1>3, <1>4

\* A sequence over a set is one over every larger set.
LEMMA SeqGrows ==
    ASSUME NEW S, NEW T, S \subseteq T, NEW s \in Seq(S)
    PROVE  s \in Seq(T)
<1>1. s \in [1..Len(s) -> T] /\ Len(s) \in Nat
  BY LenProperties, ElementOfSeq
<1> QED BY <1>1, SeqDef

-----------------------------------------------------------------------------
(* The merge.                                                              *)

\* What a merged map holds at a key is the right side's value, or else the
\* left's: the merge makes up no key and no value.
THEOREM MergeInventsNothing ==
    ASSUME NEW left, NEW right, NEW p \in DOMAIN ConfigMapMerge(left, right)
    PROVE  IF p \in DOMAIN right THEN ConfigMapMerge(left, right)[p] = right[p]
           ELSE p \in DOMAIN left /\ ConfigMapMerge(left, right)[p] = left[p]
BY DEF ConfigMapMerge

\* Each value of the right side stays, unless it is an empty map, which the
\* left side may fill.
THEOREM RightSideWins ==
    ASSUME NEW left, NEW right, NEW p \in DOMAIN right, right[p] # EmptyMap
    PROVE  p \in DOMAIN ConfigMapMerge(left, right) /\ ConfigMapMerge(left, right)[p] = right[p]
BY DEF ConfigMapMerge

\* Each value of the left side is taken over where the right has nothing at
\* its key, below it or above it.
THEOREM LeftSideFillsIn ==
    ASSUME NEW left, NEW right, NEW p \in DOMAIN left, p \notin DOMAIN right,
           \A q \in DOMAIN right : ~IsPrefix(p, q) /\ ~IsPrefix(q, p)
    PROVE  p \in DOMAIN ConfigMapMerge(left, right) /\ ConfigMapMerge(left, right)[p] = left[p]
BY DEF ConfigMapMerge

\* Merging two nested maps gives a nested map: descending into a map of the
\* right never leaves a value where there is a section as well.
THEOREM MergeIsNested ==
    ASSUME NEW Names, NEW left, NEW right,
           DOMAIN left \subseteq Seq(Names), DOMAIN right \subseteq Seq(Names),
           Nested(left), Nested(right)
    PROVE  Nested(ConfigMapMerge(left, right))
<1> DEFINE m == ConfigMapMerge(left, right)
           Shadowed(p) == \E q \in DOMAIN right :
                            IsPrefix(p, q) \/ (IsPrefix(q, p) /\ right[q] # EmptyMap)
           Filled(q) == right[q] = EmptyMap /\ \E p \in DOMAIN left : IsStrictPrefix(q, p)
<1>1. \A p : p \in DOMAIN m <=> \/ p \in DOMAIN right /\ ~Filled(p)
                                \/ p \in DOMAIN left /\ ~Shadowed(p)
  BY DEF ConfigMapMerge
<1>2. SUFFICES ASSUME NEW p \in DOMAIN m, NEW q \in DOMAIN m, IsPrefix(p, q)
               PROVE  p = q
  BY DEF Nested
<1>3. CASE p \in DOMAIN right /\ q \in DOMAIN right
  BY <1>2, <1>3 DEF Nested
<1>4. CASE p \in DOMAIN left /\ q \in DOMAIN left
  BY <1>2, <1>4 DEF Nested
<1>5. CASE p \in DOMAIN left /\ ~Shadowed(p) /\ q \in DOMAIN right
  BY <1>2, <1>5
<1>6. CASE p \in DOMAIN right /\ ~Filled(p) /\ q \in DOMAIN left /\ ~Shadowed(q)
  <2>1. right[p] = EmptyMap
    BY <1>2, <1>6
  <2>2. ~IsStrictPrefix(p, q)
    BY <1>6, <2>1
  <2> QED BY <1>2, <2>2 DEF IsStrictPrefix
<1> HIDE DEF m, Shadowed, Filled
<1> QED BY <1>1, <1>3, <1>4, <1>5, <1>6

\* Merging the same defaults a second time changes nothing: a map that has
\* them already neither loses a value nor gains one.
THEOREM MergeTwice ==
    ASSUME NEW Names, NEW left, NEW right,
           DOMAIN left \subseteq Seq(Names), DOMAIN right \subseteq Seq(Names),
           Nested(left)
    PROVE  ConfigMapMerge(left, ConfigMapMerge(left, right)) = ConfigMapMerge(left, right)
<1> DEFINE m == ConfigMapMerge(left, right)
           Shadowed(r, p) == \E q \in DOMAIN r :
                               IsPrefix(p, q) \/ (IsPrefix(q, p) /\ r[q] # EmptyMap)
           Filled(r, q) == r[q] = EmptyMap /\ \E p \in DOMAIN left : IsStrictPrefix(q, p)
           Kept(r) == {q \in DOMAIN r : ~Filled(r, q)} \cup {p \in DOMAIN left : ~Shadowed(r, p)}
<1>1. \A r : ConfigMapMerge(left, r) = [p \in Kept(r) |-> IF p \in DOMAIN r THEN r[p] ELSE left[p]]
  BY DEF ConfigMapMerge
<1>2. DOMAIN m = Kept(right) /\ m = [p \in DOMAIN m |-> m[p]]
  <2> HIDE DEF Kept
  <2> QED BY <1>1
<1>3. ASSUME NEW q \in DOMAIN m PROVE ~Filled(m, q)
  <2>1. CASE q \in DOMAIN right
    <3>1. m[q] = right[q]
      BY <2>1, MergeInventsNothing
    <3>2. ~Filled(right, q) \/ (~Shadowed(right, q) /\ q \in DOMAIN left)
      BY <1>2, <1>3
    <3>3. CASE ~Filled(right, q)
      BY <3>1, <3>3
    <3>4. CASE ~Shadowed(right, q) /\ q \in DOMAIN left
      BY <2>1, <3>4, PrefixOrder
    <3> QED BY <3>2, <3>3, <3>4
  <2>2. CASE q \in DOMAIN left
    BY <2>2 DEF Nested, IsStrictPrefix
  <2> QED BY <1>2, <2>1, <2>2
<1>4. ASSUME NEW p \in DOMAIN left PROVE Shadowed(m, p)
  <2>1. CASE ~Shadowed(right, p)
    BY <1>2, <2>1, PrefixOrder
  <2>2. CASE Shadowed(right, p)
    <3>1. PICK q \in DOMAIN right : IsPrefix(p, q) \/ (IsPrefix(q, p) /\ right[q] # EmptyMap)
      BY <2>2
    <3>2. ~Filled(right, q)
      <4>1. SUFFICES ASSUME right[q] = EmptyMap, NEW u \in DOMAIN left, IsStrictPrefix(q, u)
                     PROVE  FALSE
        OBVIOUS
      <4>2. IsPrefix(p, q) /\ IsPrefix(q, u) /\ q # u
        BY <3>1, <4>1 DEF IsStrictPrefix
      <4>3. IsPrefix(p, u)
        BY <4>2, PrefixOrder
      <4>4. p = u
        BY <4>3 DEF Nested
      <4> QED BY <4>2, <4>4, PrefixOrder
    <3>3. q \in DOMAIN m /\ m[q] = right[q]
      BY <1>2, <3>2, MergeInventsNothing
    <3> QED BY <3>1, <3>3
  <2> QED BY <2>1, <2>2
<1>5. Kept(m) = DOMAIN m
  BY <1>3, <1>4
<1>6. ConfigMapMerge(left, m) = [p \in DOMAIN m |-> m[p]]
  <2> HIDE DEF m, Kept
  <2> QED BY <1>1, <1>5
<1> QED BY <1>2, <1>6
=============================================================================
