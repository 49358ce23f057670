--------------------------- MODULE Overlay_proofs ---------------------------
(***************************************************************************)
(* Proofs about Overlay, for any specs of every kind: its variables have   *)
(* their types, an update keeps what others have put in a resource, a      *)
(* resource that is created says what its spec asks for, the prefixes of a *)
(* virtual network stay, and what was sent is not sent again.              *)
(***************************************************************************)
EXTENDS Overlay, SequenceTheorems, WellFoundedInduction, TLAPS

LEMMA BodyRest == ASSUME NEW k, NEW base, NEW spec
                  PROVE  Body(k, base, spec).rest = base.rest
BY DEF Body

LEMMA NewSpecRest == ASSUME NEW k PROVE NewSpec(k).rest = Plain
BY DEF NewSpec

LEMMA BaseRest ==
    ASSUME NEW remote, remote # Absent => remote.rest \in Rests
    PROVE  Base(remote).rest \in Rests
BY NewSpecRest, OverlayAssumption DEF Base

LEMMA OverlaidFromRemote == \A k \in Overlaid : Builders[k].from = "remote"
BY DEF Overlaid, Builders, ResourceGroup, VirtualNetwork, Subnet, LoadBalancer, VM,
       SQLFirewallRule, StorageAccount, Comparing

LEMMA InitTyped == OverlayInit => OverlayTypeOK
BY OverlayAssumption DEF OverlayInit, OverlayTypeOK

LEMMA LookTyped == ASSUME OverlayTypeOK, Look PROVE OverlayTypeOK'
<1>1. pc' \in {"idle", "put", "down"}
  BY Zenon DEF Look
<1>2. /\ local' = IF pc' = "put" THEN want ELSE Nil
      /\ seen' = IF pc' = "put" THEN (IF Builder.reads THEN azure ELSE Absent) ELSE Absent
      /\ UNCHANGED <<kind, want, azure, edits, changes>>
  BY Zenon DEF Look
<1>3. QED
  BY <1>1, <1>2, OverlayAssumption DEF OverlayTypeOK

LEMMA EnvironmentTyped == ASSUME OverlayTypeOK, Environment PROVE OverlayTypeOK'
<1>1. CASE Edit
  BY <1>1, OverlayAssumption DEF Edit, OverlayTypeOK
<1>2. CASE OthersWrite
  <2>1. PICK spec \in Wants[kind], rest \in Rests :
           azure' = [says |-> Foreign(spec), rest |-> rest]
    BY <1>2, Zenon DEF OthersWrite
  <2>2. azure'.rest \in Rests
    BY <2>1
  <2>3. QED
    BY <1>2, <2>2, OverlayAssumption DEF OthersWrite, Change, OverlayTypeOK
<1>3. CASE OthersTouch
  <2>1. PICK rest \in Rests : azure' = [says |-> azure.says, rest |-> rest]
    BY <1>3 DEF OthersTouch
  <2>2. azure'.rest \in Rests
    BY <2>1
  <2>3. QED
    BY <1>3, <2>2, OverlayAssumption DEF OthersTouch, Change, OverlayTypeOK
<1>4. CASE OthersRemove
  BY <1>4, OverlayAssumption DEF OthersRemove, Change, OverlayTypeOK
<1>5. CASE PutLost
  BY <1>5, OverlayAssumption DEF PutLost, Change, Done, OverlayTypeOK
<1>6. QED
  BY <1>1, <1>2, <1>3, <1>4, <1>5 DEF Environment

\* Only two actions end a worker's sending.
LEMMA SendingIsPut ==
    ASSUME [OverlayNext]_vars, Sending
    PROVE  Put \/ PutLost
<1>1. ~Look /\ ~Restart /\ ~(UNCHANGED vars)
  BY Zenon DEF Sending, Look, Restart, vars
<1>2. ~Edit /\ ~OthersWrite /\ ~OthersTouch /\ ~OthersRemove
  BY Zenon DEF Sending, Edit, OthersWrite, OthersTouch, OthersRemove
<1>3. QED
  BY <1>1, <1>2 DEF OverlayNext, Manager, Environment

LEMMA PutWrites ==
    ASSUME Put
    PROVE  azure' \in {azure, Body(kind, Base(seen), local)}
BY Zenon DEF Put

LEMMA PutTyped == ASSUME OverlayTypeOK, Put PROVE OverlayTypeOK'
<1>1. azure' # Absent => azure'.rest \in Rests
  BY PutWrites, BodyRest, BaseRest DEF OverlayTypeOK
<1>2. Done /\ UNCHANGED <<kind, want, edits, changes>>
  BY Zenon DEF Put
<1>3. QED
  BY <1>1, <1>2 DEF Done, OverlayTypeOK

LEMMA NextTyped == ASSUME OverlayTypeOK, [OverlayNext]_vars PROVE OverlayTypeOK'
<1>1. CASE Restart
  BY <1>1 DEF Restart, Done, OverlayTypeOK
<1>2. CASE UNCHANGED vars
  BY <1>2 DEF vars, OverlayTypeOK
<1>3. QED
  BY <1>1, <1>2, EnvironmentTyped, LookTyped, PutTyped DEF OverlayNext, Manager

\* The variables have their types, and a worker holds the spec it has read exactly
\* while it is between the GET and the PUT of one Ensure.
THEOREM OverlayTypeCorrect == OverlaySpec => []OverlayTypeOK
<1>1. OverlayTypeOK /\ [OverlayNext]_vars => OverlayTypeOK'
  BY NextTyped
<1>2. QED
  BY <1>1, InitTyped, PTL DEF OverlaySpec

\* For every spec of every kind that overlays: an update keeps all that others have put
\* in the resource and the GET of that reconcile has shown (NewSpecWithRemote).
THEOREM OthersKept == OverlaySpec => KeepsOthers
<1> DEFINE Keeps == Sending /\ kind \in Overlaid /\ seen # Absent /\ azure = seen
                    => azure'.rest = azure.rest
<1>1. [OverlayNext]_vars => Keeps
  <2> SUFFICES ASSUME [OverlayNext]_vars, Sending, kind \in Overlaid,
                      seen # Absent, azure = seen
               PROVE  azure'.rest = azure.rest
    OBVIOUS
  <2>1. Put \/ PutLost
    BY SendingIsPut
  <2>2. Base(seen) = azure
    BY OverlaidFromRemote DEF Base, Builder
  <2>3. QED
    BY <2>1, <2>2, PutWrites, BodyRest DEF PutLost
<1>2. QED
  BY <1>1, PTL DEF OverlaySpec, KeepsOthers

-----------------------------------------------------------------------------
(* The prefixes of a virtual network.  What AddressSpaces builds is shown    *)
(* by induction over the spec's list: were the statement false after some of *)
(* its prefixes, there would be a least number of them it is false after.    *)

LEMMA LeastNatural ==
    ASSUME NEW T \in SUBSET Nat, T # {}
    PROVE  \E m \in T : \A k \in T : m <= k
<1>1. IsWellFoundedOn(OpToRel(<, Nat), Nat)
  BY NatLessThanWellFounded
<1>2. PICK m \in T : \A k \in T : ~(<<k, m>> \in OpToRel(<, Nat))
  BY <1>1, WFMin
<1>3. ASSUME NEW k \in T PROVE m <= k
  <2>1. k < m => <<k, m>> \in OpToRel(<, Nat)
    BY DEF OpToRel
  <2>2. ~(k < m)
    BY <1>2, <2>1, Zenon
  <2>3. QED
    BY <2>2
<1>4. QED
  BY <1>3

\* Induction up to a bound, for the set of the numbers a statement holds of.
LEMMA Stepwise ==
    ASSUME NEW top \in Nat, NEW Good, 0 \in Good,
           \A n \in 1 .. top : n - 1 \in Good => n \in Good
    PROVE  0 .. top \subseteq Good
<1> DEFINE Bad == {n \in 0 .. top : n \notin Good}
<1> SUFFICES ASSUME Bad # {} PROVE FALSE
  OBVIOUS
<1>1. PICK m \in Bad : \A k \in Bad : m <= k
  <2>1. Bad \in SUBSET Nat
    OBVIOUS
  <2> HIDE DEF Bad
  <2>2. QED
    BY <2>1, LeastNatural
<1>2. m \in 1 .. top /\ m - 1 \in 0 .. top /\ ~(m <= m - 1)
  OBVIOUS
<1>3. m - 1 \in Good
  BY <1>1, <1>2
<1>4. QED
  BY <1>2, <1>3

\* The list after n prefixes of cidrs, given the lists g after fewer.
After(prefixes, cidrs, g, n) ==
    IF n = 0 THEN prefixes ELSE WithPrefix(g[n - 1], cidrs[n])

\* g holds the lists after 0 to n prefixes of cidrs.
Builds(prefixes, cidrs, g, n) ==
    g = [i \in 0 .. n |-> After(prefixes, cidrs, g, i)]

LEMMA BuildExists ==
    ASSUME NEW p, NEW c, NEW top \in Nat
    PROVE  \E g : Builds(p, c, g, top)
<1> DEFINE Good == {n \in 0 .. top : \E g : Builds(p, c, g, n)}
<1>1. 0 \in Good
  <2>1. Builds(p, c, [i \in 0 .. 0 |-> p], 0)
    BY DEF Builds, After
  <2>2. QED
    BY <2>1
<1>2. ASSUME NEW n \in 1 .. top, n - 1 \in Good PROVE n \in Good
  <2>1. PICK g : Builds(p, c, g, n - 1)
    BY <1>2
  <2> DEFINE h == [i \in 0 .. n |-> IF i = n THEN WithPrefix(g[n - 1], c[n]) ELSE g[i]]
  <2>2. ASSUME NEW i \in 0 .. n PROVE h[i] = After(p, c, h, i)
    <3>1. CASE i = n
      BY <3>1 DEF After
    <3>2. CASE i # n
      <4>1. i \in 0 .. n - 1
        BY <3>2
      <4>2. h[i] = g[i] /\ g[i] = After(p, c, g, i)
        BY <2>1, <3>2, <4>1 DEF Builds
      <4>3. i # 0 => h[i - 1] = g[i - 1]
        BY <4>1
      <4>4. QED
        BY <4>2, <4>3 DEF After
    <3>3. QED
      BY <3>1, <3>2
  <2>3. Builds(p, c, h, n)
    <3> HIDE DEF h
    <3>1. h = [i \in 0 .. n |-> h[i]]
      BY DEF h
    <3>2. QED
      BY <2>2, <3>1 DEF Builds
  <2>4. QED
    BY <2>3
<1>3. top \in Good
  <2> HIDE DEF Good
  <2>1. 0 .. top \subseteq Good
    BY <1>1, <1>2, Stepwise
  <2>2. QED
    BY <2>1
<1>4. QED
  BY <1>3

LEMMA AddressSpacesBuilt ==
    ASSUME NEW p, NEW c, Len(c) \in Nat
    PROVE  \E g : Builds(p, c, g, Len(c)) /\ AddressSpaces(p, c) = g[Len(c)]
<1> DEFINE after == CHOOSE g : Builds(p, c, g, Len(c))
<1>1. Builds(p, c, after, Len(c))
  BY BuildExists
<1>2. AddressSpaces(p, c) = after[Len(c)]
  BY DEF AddressSpaces, Builds, After
<1>3. QED
  BY <1>1, <1>2

LEMMA PrefixMeans ==
    ASSUME NEW S, NEW s \in Seq(S), NEW t \in Seq(S)
    PROVE  IsPrefix(s, t) <=> Len(s) <= Len(t) /\ \A i \in 1 .. Len(s) : s[i] = t[i]
<1>1. Len(s) \in Nat /\ Len(t) \in Nat
  OBVIOUS
<1>2. SubSeq(s, 1, Len(s)) = [i \in 1 .. Len(s) |-> s[i]]
  BY <1>1
<1>3. Len(s) <= Len(t) => SubSeq(t, 1, Len(s)) = [i \in 1 .. Len(s) |-> t[i]]
  BY <1>1
<1>4. QED
  BY <1>2, <1>3 DEF IsPrefix

\* One more prefix: nothing moves, and nothing comes twice.
LEMMA WithPrefixAdds ==
    ASSUME NEW s \in Lists, NEW v \in Values
    PROVE  /\ WithPrefix(s, v) \in Lists
           /\ Len(s) <= Len(WithPrefix(s, v))
           /\ \A i \in 1 .. Len(s) : WithPrefix(s, v)[i] = s[i]
           /\ ToSet(WithPrefix(s, v)) = ToSet(s) \cup {v}
           /\ IsInjective(s) => IsInjective(WithPrefix(s, v))
<1>1. s \in Seq(Values)
  BY DEF Lists
<1>2. CASE Contains(s, v)
  <2>1. WithPrefix(s, v) = s
    BY <1>2 DEF WithPrefix
  <2>2. v \in ToSet(s)
    BY <1>1, <1>2 DEF Contains, ToSet
  <2>3. QED
    BY <1>1, <2>1, <2>2 DEF Lists
<1>3. CASE ~Contains(s, v)
  <2> DEFINE t == Append(s, v)
  <2>1. WithPrefix(s, v) = t
    BY <1>3 DEF WithPrefix
  <2>2. /\ t \in Seq(Values) /\ Len(t) = Len(s) + 1 /\ t[Len(s) + 1] = v
        /\ \A i \in 1 .. Len(s) : t[i] = s[i]
        /\ DOMAIN t = 1 .. Len(s) + 1 /\ DOMAIN s = 1 .. Len(s) /\ Len(s) \in Nat
    BY <1>1
  <2>3. \A i \in 1 .. Len(s) : s[i] # v
    BY <1>3 DEF Contains
  <2> HIDE DEF t
  <2>4. ToSet(t) = ToSet(s) \cup {v}
    <3>1. ASSUME NEW x \in ToSet(t) PROVE x \in ToSet(s) \cup {v}
      BY <2>2 DEF ToSet
    <3>2. ASSUME NEW x \in ToSet(s) \cup {v} PROVE x \in ToSet(t)
      BY <2>2 DEF ToSet
    <3>3. QED
      BY <3>1, <3>2
  <2>5. ASSUME IsInjective(s) PROVE IsInjective(t)
    <3> SUFFICES ASSUME NEW a \in 1 .. Len(s) + 1, NEW b \in 1 .. Len(s) + 1, t[a] = t[b]
                 PROVE  a = b
      BY <2>2 DEF IsInjective
    <3>1. CASE a \in 1 .. Len(s) /\ b \in 1 .. Len(s)
      BY <2>2, <2>5, <3>1 DEF IsInjective
    <3>2. CASE ~(a \in 1 .. Len(s) /\ b \in 1 .. Len(s))
      BY <2>2, <2>3, <3>2
    <3>3. QED
      BY <3>1, <3>2
  <2>6. QED
    BY <2>1, <2>2, <2>4, <2>5 DEF Lists
<1>4. QED
  BY <1>2, <1>3

\* AddressSpaces, for any lists: the resource's prefixes stay where they are, those of
\* the spec are all there, no other is, and none comes twice unless one did before.
LEMMA AddressSpacesAdds ==
    ASSUME NEW p \in Lists, NEW c \in Lists
    PROVE  /\ AddressSpaces(p, c) \in Lists
           /\ IsPrefix(p, AddressSpaces(p, c))
           /\ ToSet(AddressSpaces(p, c)) = ToSet(p) \cup ToSet(c)
           /\ IsInjective(p) => IsInjective(AddressSpaces(p, c))
<1> DEFINE Right(l, n) == /\ l \in Lists
                          /\ Len(p) <= Len(l) /\ \A i \in 1 .. Len(p) : l[i] = p[i]
                          /\ ToSet(l) = ToSet(p) \cup {c[i] : i \in 1 .. n}
                          /\ IsInjective(p) => IsInjective(l)
<1>1. /\ Len(p) \in Nat /\ Len(c) \in Nat
      /\ \A i \in 1 .. Len(c) : c[i] \in Values
      /\ DOMAIN c = 1 .. Len(c)
  BY DEF Lists
<1>2. PICK g : Builds(p, c, g, Len(c)) /\ AddressSpaces(p, c) = g[Len(c)]
  BY <1>1, AddressSpacesBuilt
<1>3. \A n \in 0 .. Len(c) : g[n] = After(p, c, g, n)
  BY <1>2 DEF Builds
<1> DEFINE Good == {n \in 0 .. Len(c) : Right(g[n], n)}
<1>4. 0 \in Good
  <2>1. g[0] = p
    BY <1>1, <1>3 DEF After
  <2>2. {c[i] : i \in 1 .. 0} = {}
    OBVIOUS
  <2>3. Right(p, 0)
    BY <1>1, <2>2
  <2>4. QED
    BY <1>1, <2>1, <2>3
<1>5. ASSUME NEW n \in 1 .. Len(c), n - 1 \in Good PROVE n \in Good
  <2> DEFINE l == g[n - 1]
  <2>1. g[n] = WithPrefix(l, c[n])
    BY <1>1, <1>3 DEF After
  <2>2. Right(l, n - 1) /\ c[n] \in Values
    BY <1>1, <1>5
  <2>3. /\ WithPrefix(l, c[n]) \in Lists
        /\ Len(l) <= Len(WithPrefix(l, c[n]))
        /\ \A i \in 1 .. Len(l) : WithPrefix(l, c[n])[i] = l[i]
        /\ ToSet(WithPrefix(l, c[n])) = ToSet(l) \cup {c[n]}
        /\ IsInjective(l) => IsInjective(WithPrefix(l, c[n]))
    BY <2>2, WithPrefixAdds
  <2>4. {c[i] : i \in 1 .. n} = {c[i] : i \in 1 .. n - 1} \cup {c[n]}
    BY <1>1
  <2>5. Len(l) \in Nat /\ Len(WithPrefix(l, c[n])) \in Nat
    BY <2>2, <2>3 DEF Lists
  <2>6. Right(WithPrefix(l, c[n]), n)
    <3> HIDE DEF l
    <3>1. \A i \in 1 .. Len(p) : i \in 1 .. Len(l)
      BY <1>1, <2>2, <2>5
    <3>2. QED
      BY <1>1, <2>2, <2>3, <2>4, <2>5, <3>1
  <2>7. QED
    BY <1>1, <2>1, <2>6
<1>6. Right(g[Len(c)], Len(c))
  <2>1. 0 .. Len(c) \subseteq Good
    <3> HIDE DEF Good
    <3>1. QED
      BY <1>1, <1>4, <1>5, Stepwise
  <2>2. Len(c) \in Good
    BY <1>1, <2>1
  <2> HIDE DEF Right
  <2>3. QED
    BY <2>2
<1>7. {c[i] : i \in 1 .. Len(c)} = ToSet(c)
  BY <1>1 DEF ToSet
<1>8. IsPrefix(p, g[Len(c)])
  BY <1>6, PrefixMeans DEF Lists
<1>9. QED
  BY <1>2, <1>6, <1>7, <1>8

\* A spec that only adds to the resource's prefixes is what the resource then has.
LEMMA AddressSpacesExtends ==
    ASSUME NEW p \in Lists, NEW c \in Lists, IsPrefix(p, c), IsInjective(c)
    PROVE  AddressSpaces(p, c) = c
<1> DEFINE Right(l, n) == /\ l \in Lists
                          /\ Len(l) = IF n <= Len(p) THEN Len(p) ELSE n
                          /\ \A i \in 1 .. Len(l) : l[i] = c[i]
<1>1. /\ Len(p) \in Nat /\ Len(c) \in Nat /\ Len(p) <= Len(c)
      /\ \A i \in 1 .. Len(p) : p[i] = c[i]
      /\ \A i \in 1 .. Len(c) : c[i] \in Values
      /\ DOMAIN c = 1 .. Len(c)
  BY PrefixMeans DEF Lists
<1>2. PICK g : Builds(p, c, g, Len(c)) /\ AddressSpaces(p, c) = g[Len(c)]
  BY <1>1, AddressSpacesBuilt
<1>3. \A n \in 0 .. Len(c) : g[n] = After(p, c, g, n)
  BY <1>2 DEF Builds
<1> DEFINE Good == {n \in 0 .. Len(c) : Right(g[n], n)}
<1>4. 0 \in Good
  <2>1. g[0] = p
    BY <1>1, <1>3 DEF After
  <2>2. Right(p, 0)
    BY <1>1
  <2>3. QED
    BY <1>1, <2>1, <2>2
<1>5. ASSUME NEW n \in 1 .. Len(c), n - 1 \in Good PROVE n \in Good
  <2> DEFINE l == g[n - 1]
  <2>1. g[n] = WithPrefix(l, c[n])
    BY <1>1, <1>3 DEF After
  <2>2. Right(l, n - 1) /\ c[n] \in Values
    BY <1>1, <1>5
  <2>3. Right(WithPrefix(l, c[n]), n)
    <3> HIDE DEF l
    <3>1. CASE n <= Len(p)
      <4>1. n \in 1 .. Len(l) /\ l[n] = c[n]
        BY <1>1, <2>2, <3>1
      <4>2. WithPrefix(l, c[n]) = l
        BY <4>1 DEF WithPrefix, Contains
      <4>3. QED
        BY <1>1, <2>2, <3>1, <4>2
    <3>2. CASE ~(n <= Len(p))
      <4>1. Len(l) = n - 1
        BY <1>1, <2>2, <3>2
      <4>2. \A i \in 1 .. Len(l) : l[i] # c[n]
        BY <1>1, <2>2, <4>1 DEF IsInjective
      <4>3. WithPrefix(l, c[n]) = Append(l, c[n])
        BY <4>2 DEF WithPrefix, Contains
      <4>4. /\ Append(l, c[n]) \in Seq(Values) /\ Len(Append(l, c[n])) = n
            /\ \A i \in 1 .. n - 1 : Append(l, c[n])[i] = l[i]
            /\ Append(l, c[n])[n] = c[n]
        BY <2>2, <4>1 DEF Lists
      <4>5. \A i \in 1 .. n : Append(l, c[n])[i] = c[i]
        BY <2>2, <4>1, <4>4
      <4>6. QED
        BY <1>1, <3>2, <4>3, <4>4, <4>5 DEF Lists
    <3>3. QED
      BY <3>1, <3>2
  <2>4. QED
    BY <1>1, <2>1, <2>3
<1>6. Right(g[Len(c)], Len(c))
  <2>1. 0 .. Len(c) \subseteq Good
    <3> HIDE DEF Good
    <3>1. QED
      BY <1>1, <1>4, <1>5, Stepwise
  <2>2. QED
    BY <1>1, <2>1
<1>7. g[Len(c)] = c
  <2> DEFINE l == g[Len(c)]
  <2>1. l \in Seq(Values) /\ Len(l) = Len(c) /\ \A i \in 1 .. Len(l) : l[i] = c[i]
    BY <1>1, <1>6 DEF Lists
  <2>2. c \in Seq(Values)
    BY DEF Lists
  <2> HIDE DEF l
  <2>3. l = c
    BY <2>1, <2>2, SeqEqual
  <2>4. QED
    BY <2>3 DEF l
<1>8. QED
  BY <1>2, <1>7

-----------------------------------------------------------------------------
(* Lists of addresses of the loop variable.                                *)

\* A list whose elements all show the last one has different elements only when it
\* has one at most: then it shows what it should.
LEMMA OneAtMost ==
    ASSUME NEW S, NEW list \in Seq(S),
           \A i, j \in DOMAIN list : i = j
    PROVE  \A i \in DOMAIN list : list[i] = Last(list)
BY DEF Last

LEMMA AliasedHarmless ==
    ASSUME NEW S, NEW list \in Seq(S), IsInjective(Aliased(list))
    PROVE  Aliased(list) = list
<1>1. \A i, j \in DOMAIN list : i = j
  BY DEF IsInjective, Aliased
<1>2. QED
  BY <1>1, OneAtMost DEF Aliased

LEMMA NamedOnce ==
    ASSUME NEW S, NEW list \in Seq(S), NEW sent, DOMAIN sent = DOMAIN list,
           \A i \in DOMAIN list : sent[i].name = Last(list).name,
           IsInjective(NamesOf(sent))
    PROVE  \A i, j \in DOMAIN list : i = j
BY DEF IsInjective, NamesOf

LEMMA RulesHarmless ==
    ASSUME NEW rules \in Seq(Rule), IsInjective(NamesOf(Rules(rules))), rules # Nil
    PROVE  Rules(rules) = rules
<1>1. Rules(rules) = [i \in DOMAIN rules |-> [Last(rules) EXCEPT !.port = rules[i].port]]
  BY DEF Rules, Optional
<1>2. ASSUME NEW i \in DOMAIN rules
      PROVE  Last(rules) \in Rule /\ rules[i] \in Rule
  BY DEF Last
<1>3. \A i \in DOMAIN rules : Rules(rules)[i].name = Last(rules).name
  BY <1>1, <1>2 DEF Rule
<1>4. \A i, j \in DOMAIN rules : i = j
  BY <1>1, <1>3, NamedOnce
<1>5. \A i \in DOMAIN rules : [Last(rules) EXCEPT !.port = rules[i].port] = rules[i]
  BY <1>2, <1>4, OneAtMost DEF Rule
<1>6. QED
  BY <1>1, <1>5

LEMMA RulesAsAsked ==
    ASSUME NEW rules \in Maybe(Seq(Rule)), IsInjective(NamesOf(Rules(rules)))
    PROVE  Rules(rules) = Optional(rules)
<1>1. CASE rules = Nil
  BY <1>1 DEF Rules, Optional
<1>2. CASE rules # Nil
  BY <1>2, RulesHarmless DEF Optional, Maybe
<1>3. QED
  BY <1>1, <1>2

LEMMA FrontendsAsAsked ==
    ASSUME NEW frontends \in Lists, Len(frontends) <= 1
    PROVE  Frontends(frontends) =
              [i \in DOMAIN frontends |-> [name |-> frontends[i], id |-> frontends[i]]]
<1>1. \A i, j \in DOMAIN frontends : i = j
  BY DEF Lists
<1>2. \A i \in DOMAIN frontends : frontends[i] = Last(frontends)
  BY <1>1, OneAtMost DEF Lists
<1>3. QED
  BY <1>2 DEF Frontends

\* Two frontends or more: the first points to the last one's address.
LEMMA FrontendsGarbled ==
    ASSUME NEW frontends \in Lists, Len(frontends) > 1,
           IsInjective(NamesOf(Frontends(frontends)))
    PROVE  Frontends(frontends)[1] # [name |-> frontends[1], id |-> frontends[1]]
<1>1. /\ 1 \in DOMAIN frontends /\ Len(frontends) \in DOMAIN frontends
      /\ 1 # Len(frontends) /\ Last(frontends) = frontends[Len(frontends)]
  BY DEF Lists, Last
<1>2. NamesOf(Frontends(frontends)) = [i \in DOMAIN frontends |-> frontends[i]]
  BY DEF NamesOf, Frontends
<1>3. frontends[1] # Last(frontends)
  BY <1>1, <1>2 DEF IsInjective
<1>4. Frontends(frontends)[1].id = Last(frontends)
  BY <1>1 DEF Frontends
<1>5. QED
  BY <1>3, <1>4

\* Each setter of a load balancer, whatever the spec.
LEMMA LoadBalancerAsAsked ==
    ASSUME kind = "LoadBalancer", NEW spec \in LoadBalancerSpec, NEW base, NEW remote,
           Accepts(remote, Body(kind, base, spec)), NEW f \in Fields(spec)
    PROVE  AsAsked(spec, Rendered(kind, base.says, spec), f) <=> f \notin Garbled(spec)
<1> DEFINE sent == [spec EXCEPT !.frontends = Frontends(@), !.backends = Aliased(@),
                                !.probes = Probes(@), !.rules = Rules(@)]
<1>1. Rendered(kind, base.says, spec) = sent
  BY Zenon DEF Rendered
<1>2. f \in {"location", "frontends", "backends", "probes", "rules"}
  BY DEF Fields, LoadBalancerSpec
<1>3. f \in Garbled(spec) <=> f = "frontends" /\ Len(spec.frontends) > 1
  BY DEF Garbled
<1>4. Accepts(remote, [says |-> sent, rest |-> base.rest])
  BY <1>1 DEF Body
<1>5. /\ IsInjective(sent.backends) /\ IsInjective(NamesOf(sent.rules))
      /\ IsInjective(NamesOf(sent.frontends))
  BY <1>4 DEF Accepts
<1>6. /\ spec.frontends \in Lists /\ spec.backends \in Lists
      /\ spec.rules \in Maybe(Seq(Rule))
  BY DEF LoadBalancerSpec
<1>7. /\ sent.location = spec.location /\ sent.frontends = Frontends(spec.frontends)
      /\ sent.backends = Aliased(spec.backends) /\ sent.probes = Optional(spec.probes)
      /\ sent.rules = Rules(spec.rules)
  BY DEF LoadBalancerSpec, Probes
<1>8. sent.backends = spec.backends /\ sent.rules = Optional(spec.rules)
  BY <1>5, <1>6, <1>7, AliasedHarmless, RulesAsAsked DEF Lists
<1> HIDE DEF sent
<1>9. CASE f \in {"location", "backends", "probes", "rules"}
  BY <1>1, <1>3, <1>7, <1>8, <1>9 DEF AsAsked, OptionalLists, Single
<1>10. CASE f = "frontends"
  <2> DEFINE list == spec.frontends
             right == /\ Len(sent.frontends) = Len(list)
                      /\ \A i \in DOMAIN list :
                            sent.frontends[i] = [name |-> list[i], id |-> list[i]]
  <2>1. AsAsked(spec, sent, f) <=> right
    BY <1>10 DEF AsAsked, OptionalLists, Single
  <2>2. Len(list) \in Nat /\ DOMAIN list = 1 .. Len(list)
    BY <1>6 DEF Lists
  <2>3. ASSUME Len(list) <= 1 PROVE right
    <3>1. sent.frontends = [i \in 1 .. Len(list) |-> [name |-> list[i], id |-> list[i]]]
      BY <1>6, <1>7, <2>2, <2>3, FrontendsAsAsked
    <3>2. QED
      BY <2>2, <3>1
  <2>4. ASSUME Len(list) > 1 PROVE ~right
    <3>1. 1 \in DOMAIN list
      BY <2>2, <2>4
    <3>2. sent.frontends[1] # [name |-> list[1], id |-> list[1]]
      BY <1>5, <1>6, <1>7, <2>4, FrontendsGarbled
    <3>3. QED
      BY <3>1, <3>2
  <2>5. QED
    BY <1>1, <1>3, <1>10, <2>1, <2>2, <2>3, <2>4
<1>11. QED
  BY <1>2, <1>9, <1>10

LEMMA NICsAsAsked ==
    ASSUME NEW primary \in Values, NEW secondaries \in Maybe(Lists),
           IsInjective(NICs(primary, secondaries))
    PROVE  NICs(primary, secondaries) = <<primary>> \o Optional(secondaries)
<1> DEFINE list == Optional(secondaries)
<1>1. list \in Seq(Values)
  BY DEF Optional, Maybe, Lists
<1>2. Aliased(list) \in Seq(Values) /\ Len(Aliased(list)) = Len(list)
      /\ DOMAIN Aliased(list) = 1..Len(list)
  <2>1. \A i \in 1..Len(list) : Last(list) \in Values
    BY <1>1 DEF Last
  <2>2. DOMAIN list = 1..Len(list) /\ Len(list) \in Nat
    BY <1>1
  <2>3. Aliased(list) = [i \in 1..Len(list) |-> Last(list)]
    BY <2>2 DEF Aliased
  <2>4. QED
    BY <2>1, <2>2, <2>3
<1>3. \A i \in 1..Len(list) : /\ (<<primary>> \o Aliased(list))[i + 1] = Aliased(list)[i]
                              /\ i + 1 \in DOMAIN (<<primary>> \o Aliased(list))
  BY <1>2
<1>4. IsInjective(<<primary>> \o Aliased(list))
  BY DEF NICs
<1>5. IsInjective(Aliased(list))
  <2> SUFFICES ASSUME NEW i \in 1..Len(list), NEW j \in 1..Len(list),
                      Aliased(list)[i] = Aliased(list)[j]
               PROVE  i = j
    BY <1>2, Zenon DEF IsInjective
  <2>1. i + 1 = j + 1
    BY <1>3, <1>4, Zenon DEF IsInjective
  <2>2. QED
    BY <2>1
<1>6. Aliased(list) = list
  BY <1>1, <1>5, AliasedHarmless
<1>7. QED
  BY <1>6 DEF NICs

LEMMA VMAsAsked ==
    ASSUME kind = "VM", NEW spec \in VMSpec, NEW remote,
           Accepts(remote, Body(kind, NewSpec(kind), spec)), NEW f \in Fields(spec)
    PROVE  AsAsked(spec, Rendered(kind, NewSpec(kind).says, spec), f) <=> f \notin Garbled(spec)
<1> DEFINE base == NewSpec(kind).says
           sent == [location |-> spec.location, sku |-> spec.sku, zone |-> Zone(base, spec),
                    nics |-> NICs(spec.primary, spec.secondaries)]
<1>1. Rendered(kind, base, spec) = sent
  BY Zenon DEF Rendered
<1>2. f \in {"location", "sku", "zone", "nics"} /\ f \notin Garbled(spec)
  BY DEF Fields, Garbled
<1>3. base = [zone |-> Nil]
  BY Zenon DEF NewSpec
<1>4. Zone(base, spec) = spec.zone
  BY <1>3 DEF Zone
<1>5. IsInjective(NICs(spec.primary, spec.secondaries))
  <2>1. Accepts(remote, [says |-> sent, rest |-> NewSpec(kind).rest])
    BY <1>1 DEF Body
  <2>2. QED
    BY <2>1 DEF Accepts
<1>6. sent.nics = <<spec.primary>> \o Optional(spec.secondaries)
  BY <1>5, NICsAsAsked DEF VMSpec
<1>7. sent.location = spec.location /\ sent.sku = spec.sku /\ sent.zone = spec.zone
  BY <1>4
<1> HIDE DEF sent
<1>8. AsAsked(spec, sent, f)
  BY <1>2, <1>6, <1>7 DEF AsAsked, OptionalLists, Single
<1>9. QED
  BY <1>1, <1>2, <1>8

LEMMA SecurityGroupAsAsked ==
    ASSUME kind = "SecurityGroup", NEW spec \in SecurityGroupSpec, Nil \notin Seq(SecurityRule),
           NEW base, NEW remote, Accepts(remote, Body(kind, base, spec)), NEW f \in Fields(spec)
    PROVE  AsAsked(spec, Rendered(kind, base.says, spec), f) <=> f \notin Garbled(spec)
<1> DEFINE sent == [spec EXCEPT !.rules = SecurityRules(@)]
<1>1. Rendered(kind, base.says, spec) = sent
  BY Zenon DEF Rendered
<1>2. f \in {"location", "rules"} /\ f \notin Garbled(spec)
  BY DEF Fields, Garbled, SecurityGroupSpec
<1>3. spec.rules \in Seq(SecurityRule)
  BY DEF SecurityGroupSpec
<1>4. sent.location = spec.location /\ sent.rules = SecurityRules(spec.rules)
  BY DEF SecurityGroupSpec
<1>5. IsInjective(NamesOf(SecurityRules(spec.rules)))
  <2>1. Accepts(remote, [says |-> sent, rest |-> base.rest])
    BY <1>1 DEF Body
  <2>2. QED
    BY <2>1, <1>4 DEF Accepts
<1>6. SecurityRules(spec.rules) = spec.rules
  <2> DEFINE rules == spec.rules
  <2>1. ASSUME NEW i \in DOMAIN rules PROVE rules[i] \in SecurityRule
    BY <1>3
  <2>2. SecurityRules(rules) = [i \in DOMAIN rules |-> [rules[i] EXCEPT !.name = Last(rules).name]]
    BY DEF SecurityRules
  <2>3. \A i \in DOMAIN rules : SecurityRules(rules)[i].name = Last(rules).name
    BY <2>1, <2>2 DEF SecurityRule
  <2>4. \A i, j \in DOMAIN rules : i = j
    BY <1>3, <1>5, <2>2, <2>3, NamedOnce
  <2>5. \A i \in DOMAIN rules : rules[i] = Last(rules)
    BY <1>3, <2>4, OneAtMost
  <2>6. \A i \in DOMAIN rules : [rules[i] EXCEPT !.name = Last(rules).name] = rules[i]
    BY <2>1, <2>5 DEF SecurityRule
  <2>7. rules = [i \in DOMAIN rules |-> rules[i]]
    BY <1>3
  <2>8. QED
    BY <2>2, <2>6, <2>7
<1>7. Optional(spec.rules) = spec.rules
  BY <1>3 DEF Optional
<1> HIDE DEF sent
<1>8. AsAsked(spec, sent, f)
  BY <1>2, <1>4, <1>6, <1>7 DEF AsAsked, OptionalLists, Single
<1>9. QED
  BY <1>1, <1>2, <1>8

LEMMA TrafficManagerAsAsked ==
    ASSUME kind = "TrafficManager", NEW spec \in TrafficManagerSpec, NEW base,
           ~(spec.headers # Nil /\ spec.codes = Nil), NEW f \in Fields(spec)
    PROVE  AsAsked(spec, Rendered(kind, base.says, spec), f) <=> f \notin Garbled(spec)
<1> DEFINE sent == [headers |-> Optional(spec.headers), codes |-> Codes(spec),
                    endpoints |-> Optional(spec.endpoints)]
<1>1. Rendered(kind, base.says, spec) = sent
  BY Zenon DEF Rendered
<1>2. f \in {"headers", "codes", "endpoints"}
  BY DEF Fields, TrafficManagerSpec
<1>3. f \in Garbled(spec)
         <=> f = "codes" /\ spec.headers = Nil /\ Optional(spec.codes) # <<>>
  BY DEF Garbled
<1>4. AsAsked(spec, sent, f) <=> sent[f] = Optional(spec[f])
  BY <1>2 DEF AsAsked, OptionalLists, Single
<1>5. spec.headers # Nil => Codes(spec) = Optional(spec.codes)
  BY DEF Codes, Optional
<1>6. spec.headers = Nil => Codes(spec) = <<>>
  BY DEF Codes
<1>7. QED
  BY <1>1, <1>2, <1>3, <1>4, <1>5, <1>6

\* Each configuration of an interface, in its place; the first is the primary one.
LEMMA NetworkInterfaceAsAsked ==
    ASSUME kind = "NetworkInterface", NEW spec \in NetworkInterfaceSpec, NEW base, NEW remote,
           Accepts(remote, Body(kind, base, spec)), NEW f \in Fields(spec)
    PROVE  AsAsked(spec, Rendered(kind, base.says, spec), f) <=> f \notin Garbled(spec)
<1> DEFINE sent == [spec EXCEPT !.configs = IPConfigurations(@)]
           list == Optional(spec.configs)
           says == IPConfigurations(spec.configs)
<1>1. Rendered(kind, base.says, spec) = sent
  BY Zenon DEF Rendered
<1>2. f \in {"location", "configs"}
  BY DEF Fields, NetworkInterfaceSpec
<1>3. sent.location = spec.location /\ sent.configs = says
  BY DEF NetworkInterfaceSpec
<1>4. list \in Seq(IPConfig) /\ DOMAIN list = 1 .. Len(list) /\ Len(list) \in Nat
  BY DEF NetworkInterfaceSpec, Optional, Maybe
<1>5. says = [i \in 1 .. Len(list) |-> IPConfiguration(spec.configs[i], i)]
  BY <1>4 DEF IPConfigurations
<1>6. says # <<>>
  <2>1. Accepts(remote, [says |-> sent, rest |-> base.rest])
    BY <1>1 DEF Body
  <2>2. QED
    BY <2>1, <1>3 DEF Accepts
<1>7. Len(list) > 0 /\ list = spec.configs
  <2>1. Len(list) # 0
    <3>1. ASSUME Len(list) = 0 PROVE FALSE
      BY <1>5, <1>6, <3>1
    <3>2. QED
      BY <3>1
  <2>2. QED
    BY <1>4, <2>1 DEF Optional
<1>8. \A i \in 1 .. Len(list) :
        /\ says[i].name = i /\ (says[i].primary <=> i = 1)
        /\ says[i].private = list[i].private /\ says[i].pools = Optional(list[i].pools)
        /\ says[i].method = "Dynamic" <=> list[i].private = Nil
        /\ says[i].public = list[i].public
              <=> ~(list[i].public # Nil /\ ~list[i].public.own)
  <2> SUFFICES ASSUME NEW i \in 1 .. Len(list)
               PROVE  /\ says[i].name = i /\ (says[i].primary <=> i = 1)
                      /\ says[i].private = list[i].private /\ says[i].pools = Optional(list[i].pools)
                      /\ says[i].method = "Dynamic" <=> list[i].private = Nil
                      /\ says[i].public = list[i].public
                            <=> ~(list[i].public # Nil /\ ~list[i].public.own)
    OBVIOUS
  <2>1. says[i] = [name |-> i, primary |-> i = 1, public |-> PublicIPAddress(list[i].public),
                   method |-> IF list[i].private = Nil THEN "Dynamic" ELSE "static",
                   private |-> list[i].private, pools |-> Optional(list[i].pools)]
    BY <1>5, <1>7 DEF IPConfiguration
  <2>2. list[i].public \in Maybe(Reference)
    <3> HIDE DEF list
    <3>1. list[i] \in IPConfig
      BY <1>4
    <3>2. QED
      BY <3>1 DEF IPConfig
  <2>3. PublicIPAddress(list[i].public) = list[i].public
           <=> ~(list[i].public # Nil /\ ~list[i].public.own)
    BY <2>2 DEF PublicIPAddress, Maybe, Reference
  <2> HIDE DEF says, list
  <2>4. says[i].primary = (i = 1)
    BY <2>1
  <2>5. says[i].public = PublicIPAddress(list[i].public)
    BY <2>1
  <2>6. /\ says[i].name = i
        /\ says[i].private = list[i].private /\ says[i].pools = Optional(list[i].pools)
        /\ says[i].method = IF list[i].private = Nil THEN "Dynamic" ELSE "static"
    BY <2>1
  <2>7. says[i].method = "Dynamic" <=> list[i].private = Nil
    BY <2>6
  <2>8. says[i].public = list[i].public <=> ~(list[i].public # Nil /\ ~list[i].public.own)
    BY <2>3, <2>5
  <2>9. QED
    BY <2>4, <2>6, <2>7, <2>8
<1>9. DOMAIN says = 1 .. Len(list) /\ Len(says) = Len(list)
  BY <1>4, <1>5
<1>10. IsInjective(NamesOf(says))
  BY <1>8, <1>9 DEF IsInjective, NamesOf
<1>11. f \in Garbled(spec)
          <=> f = "configs" /\ \E i \in 1 .. Len(list) :
                                  list[i].public # Nil /\ ~list[i].public.own
  BY <1>4, <1>7 DEF Garbled
<1> HIDE DEF sent, says, list
<1>12. CASE f = "location"
  BY <1>1, <1>3, <1>11, <1>12 DEF AsAsked, OptionalLists, Single
<1>13. CASE f = "configs"
  <2> DEFINE Primary == \E p \in DOMAIN says : \A i \in DOMAIN says : says[i].primary <=> i = p
             Member(i) == /\ says[i].public = spec.configs[i].public
                          /\ says[i].private = spec.configs[i].private
                          /\ says[i].method = "Dynamic" <=> spec.configs[i].private = Nil
                          /\ says[i].pools = Optional(spec.configs[i].pools)
  <2>1. AsAsked(spec, sent, f)
           <=> /\ \E p \in 1 .. Len(list) : \A i \in 1 .. Len(list) : says[i].primary <=> i = p
               /\ \A i \in 1 .. Len(list) : says[i].public = list[i].public
    <3>1. AsAsked(spec, sent, f)
             <=> /\ Len(says) = Len(list) /\ IsInjective(NamesOf(says))
                 /\ Primary /\ \A i \in DOMAIN says : Member(i)
      BY <1>3, <1>13 DEF AsAsked, OptionalLists, Single, list
    <3>2. ASSUME NEW i \in 1 .. Len(list)
          PROVE  Member(i) <=> says[i].public = list[i].public
      BY <1>7, <1>8
    <3>3. Primary
             <=> \E p \in 1 .. Len(list) : \A i \in 1 .. Len(list) : says[i].primary <=> i = p
      BY <1>9
    <3> HIDE DEF Member, Primary
    <3>4. (\A i \in DOMAIN says : Member(i))
             <=> \A i \in 1 .. Len(list) : says[i].public = list[i].public
      BY <1>9, <3>2
    <3>5. QED
      BY <1>9, <1>10, <3>1, <3>3, <3>4
  <2>2. \A i \in 1 .. Len(list) : says[i].primary <=> i = 1
    BY <1>8
  <2>3. 1 \in 1 .. Len(list)
    BY <1>4, <1>7 DEF list
  <2>4. QED
    BY <1>1, <1>8, <1>11, <1>13, <2>1, <2>2, <2>3
<1>14. QED
  BY <1>2, <1>12, <1>13

\* The prefixes of a new network: all those the spec asks for, and each once.
LEMMA VirtualNetworkAsAsked ==
    ASSUME kind = "VirtualNetwork", NEW spec \in VirtualNetworkSpec, NEW f \in Fields(spec)
    PROVE  AsAsked(spec, Rendered(kind, NewSpec(kind).says, spec), f) <=> f \notin Garbled(spec)
<1> DEFINE base == NewSpec(kind).says
           sent == [spec EXCEPT !.addresses = AddressSpaces(base.addresses, @)]
<1>1. Rendered(kind, base, spec) = sent
  BY Zenon DEF Rendered
<1>2. f \in {"location", "addresses"} /\ f \notin Garbled(spec)
  BY DEF Fields, Garbled, VirtualNetworkSpec
<1>3. base = [addresses |-> <<>>]
  BY Zenon DEF NewSpec
<1>4. /\ sent.location = spec.location
      /\ sent.addresses = AddressSpaces(<<>>, spec.addresses)
      /\ spec.addresses \in Lists
  BY <1>3 DEF VirtualNetworkSpec
<1>5. <<>> \in Lists /\ ToSet(<<>>) = {} /\ IsInjective(<<>>)
  <2>1. DOMAIN <<>> = {} /\ <<>> \in Seq(Values)
    OBVIOUS
  <2>2. ToSet(<<>>) = {}
    BY <2>1 DEF ToSet
  <2>3. IsInjective(<<>>)
    BY <2>1 DEF IsInjective
  <2>4. QED
    BY <2>1, <2>2, <2>3 DEF Lists
<1> HIDE DEF sent
<1>6. ToSet(sent.addresses) = ToSet(spec.addresses) /\ IsInjective(sent.addresses)
  <2>1. \A p \in Lists :
           /\ ToSet(AddressSpaces(p, spec.addresses)) = ToSet(p) \cup ToSet(spec.addresses)
           /\ IsInjective(p) => IsInjective(AddressSpaces(p, spec.addresses))
    BY <1>4, AddressSpacesAdds
  <2>2. /\ ToSet(AddressSpaces(<<>>, spec.addresses)) = ToSet(<<>>) \cup ToSet(spec.addresses)
        /\ IsInjective(AddressSpaces(<<>>, spec.addresses))
    BY <1>5, <2>1, Zenon
  <2>3. QED
    BY <1>4, <1>5, <2>2
<1>7. AsAsked(spec, sent, f)
  BY <1>2, <1>4, <1>6 DEF AsAsked, OptionalLists, Single
<1>8. QED
  BY <1>1, <1>2, <1>7

LEMMA PublicIPAsAsked ==
    ASSUME kind = "PublicIP", NEW spec \in PublicIPSpec, spec.location # Nil,
           NEW base, NEW f \in Fields(spec)
    PROVE  AsAsked(spec, Rendered(kind, base.says, spec), f) <=> f \notin Garbled(spec)
<1> DEFINE sent == [spec EXCEPT !.sku = IF @ = Nil THEN "Standard" ELSE @]
<1>1. Rendered(kind, base.says, spec) = sent
  BY Zenon DEF Rendered
<1>2. f \in {"location", "sku"} /\ f \notin Garbled(spec)
  BY DEF Fields, Garbled, PublicIPSpec
<1>3. /\ sent.location = spec.location
      /\ sent.sku = IF spec.sku = Nil THEN "Standard" ELSE spec.sku
  BY DEF PublicIPSpec
<1> HIDE DEF sent
<1>4. AsAsked(spec, sent, f)
  BY <1>2, <1>3 DEF AsAsked, OptionalLists, Single
<1>5. QED
  BY <1>1, <1>2, <1>4

\* The kinds whose fields are sent as they stand.
LEMMA OthersAsAsked ==
    ASSUME kind \in DOMAIN Builders,
           kind \notin {"LoadBalancer", "VM", "SecurityGroup", "TrafficManager",
                       "NetworkInterface", "VirtualNetwork", "PublicIP"},
           NEW spec \in Specs[kind], NEW f \in Fields(spec)
    PROVE  AsAsked(spec, Rendered(kind, NewSpec(kind).says, spec), f) <=> f \notin Garbled(spec)
<1>1. kind \in {"ResourceGroup", "Subnet", "SQLFirewallRule", "StorageAccount", "Identity",
                "Keyvault", "Redis", "ServiceBusNamespace"}
  BY DEF Builders
<1>2. f \in Single \ {"addresses", "frontends", "nics", "configs"} /\ f \notin OptionalLists
  <2>1. f \in DOMAIN spec
    BY DEF Fields
  <2>2. CASE kind \in {"ResourceGroup", "StorageAccount", "Identity", "Keyvault"}
    <3>1. kind = "ResourceGroup" => spec \in [location : Values]
      BY DEF Specs, ResourceGroupSpec
    <3>2. kind = "StorageAccount" => spec \in [location : Values]
      BY DEF Specs, StorageAccountSpec
    <3>3. kind = "Identity" => spec \in [location : Values]
      BY DEF Specs, IdentitySpec
    <3>4. kind = "Keyvault" => spec \in [location : Values]
      BY DEF Specs, KeyvaultSpec
    <3>5. QED
      BY <2>1, <2>2, <3>1, <3>2, <3>3, <3>4 DEF Single, OptionalLists
  <2>3. CASE kind = "Subnet"
    BY <2>1, <2>3 DEF Specs, Single, OptionalLists, SubnetSpec
  <2>4. CASE kind = "SQLFirewallRule"
    BY <2>1, <2>4 DEF Specs, Single, OptionalLists, SQLFirewallRuleSpec
  <2>5. CASE kind = "Redis"
    BY <2>1, <2>5 DEF Specs, Single, OptionalLists, RedisSpec
  <2>6. CASE kind = "ServiceBusNamespace"
    BY <2>1, <2>6 DEF Specs, Single, OptionalLists, ServiceBusNamespaceSpec
  <2>7. QED
    BY <1>1, <2>2, <2>3, <2>4, <2>5, <2>6
<1>3. f \notin Garbled(spec)
  BY DEF Garbled
<1>4. Rendered(kind, NewSpec(kind).says, spec) = spec
  <2>1. CASE kind = "StorageAccount"
    <3>1. NewSpec(kind).says = [location |-> Nil]
      BY <2>1, Zenon DEF NewSpec
    <3>2. Rendered(kind, NewSpec(kind).says, spec)
             = [spec EXCEPT !.location = AccountLocation(NewSpec(kind).says, @)]
      BY <2>1, Zenon DEF Rendered
    <3>3. spec \in StorageAccountSpec
      BY <2>1 DEF Specs
    <3>4. QED
      BY <3>1, <3>2, <3>3 DEF AccountLocation, StorageAccountSpec
  <2>2. CASE kind # "StorageAccount"
    BY <1>1, <2>2, Zenon DEF Rendered
  <2>3. QED
    BY <2>1, <2>2
<1>5. AsAsked(spec, spec, f)
  BY <1>1, <1>2 DEF AsAsked
<1>6. QED
  BY <1>3, <1>4, <1>5

\* What a client sends when it has seen no resource.
LEMMA SaysAsked ==
    ASSUME kind \in DOMAIN Wants, NEW spec \in Wants[kind], NEW remote,
           ~Panics(kind, FALSE, Absent, spec),
           Accepts(remote, Body(kind, NewSpec(kind), spec)),
           NEW f \in Fields(spec)
    PROVE  AsAsked(spec, Rendered(kind, NewSpec(kind).says, spec), f) <=> f \notin Garbled(spec)
<1>1. spec \in Specs[kind] /\ kind \in DOMAIN Builders
  BY OverlayAssumption
<1>2. CASE kind = "LoadBalancer"
  BY <1>1, <1>2, LoadBalancerAsAsked DEF Specs
<1>3. CASE kind = "VM"
  BY <1>1, <1>3, VMAsAsked DEF Specs
<1>4. CASE kind = "SecurityGroup"
  BY <1>1, <1>4, SecurityGroupAsAsked, OverlayAssumption DEF Specs
<1>5. CASE kind = "TrafficManager"
  BY <1>1, <1>5, TrafficManagerAsAsked DEF Specs, Panics
<1>6. CASE kind = "NetworkInterface"
  BY <1>1, <1>6, NetworkInterfaceAsAsked DEF Specs
<1>7. CASE kind = "VirtualNetwork"
  BY <1>1, <1>7, VirtualNetworkAsAsked DEF Specs
<1>8. CASE kind = "PublicIP"
  BY <1>1, <1>8, PublicIPAsAsked, OverlayAssumption DEF Specs, PublicIPSpec
<1>9. QED
  BY <1>1, <1>2, <1>3, <1>4, <1>5, <1>6, <1>7, <1>8, OthersAsAsked

\* A worker that is about to send has read a spec that builds without a panic.
Sound == pc = "put" => local \in Wants[kind] /\ ~Panics(kind, seen # Absent, seen, local)

LEMMA SoundNext ==
    ASSUME OverlayTypeOK, Sound, [OverlayNext]_vars
    PROVE  Sound'
<1>1. CASE Look
  <2> DEFINE remote == IF Builder.reads THEN azure ELSE Absent
  <2> SUFFICES ASSUME pc' = "put"
               PROVE  local' \in Wants[kind] /\ ~Panics(kind, seen' # Absent, seen', local')
    BY <1>1, Zenon DEF Sound, Look
  <2>1. local' = want /\ seen' = remote
    BY <1>1 DEF Look
  <2>2. ~Panics(kind, remote # Absent, remote, want)
    <3>1. CASE Panics(kind, remote # Absent, remote, want)
      <4>1. pc' = "down"
        BY <1>1, <3>1, Zenon DEF Look
      <4>2. QED
        BY <4>1
    <3>2. QED
      BY <3>1
  <2>3. QED
    BY <2>1, <2>2 DEF OverlayTypeOK
<1>2. CASE Put \/ PutLost \/ Restart
  <2>1. pc' = "idle"
    BY <1>2, Zenon DEF Put, PutLost, Restart, Done
  <2>2. QED
    BY <2>1 DEF Sound
<1>3. CASE Edit \/ OthersWrite \/ OthersTouch \/ OthersRemove \/ UNCHANGED vars
  <2>1. UNCHANGED <<kind, pc, local, seen>>
    BY <1>3, Zenon DEF Edit, OthersWrite, OthersTouch, OthersRemove, vars
  <2>2. QED
    BY <2>1, Zenon DEF Sound
<1>4. QED
  BY <1>1, <1>2, <1>3 DEF OverlayNext, Manager, Environment

\* For every spec of every kind: a field of a resource that Ensure creates, or overwrites
\* without having seen it, is as the types of api/v1alpha1 ask exactly when Garbled does
\* not name it, whatever the length of the lists the builders walk with the address of
\* one loop variable.
THEOREM AskedIsCreated == OverlaySpec => CreatedAsAsked
<1> DEFINE Inv == OverlayTypeOK /\ Sound
           Creates == Sending /\ seen = Absent /\ azure' # azure
              => \A f \in Fields(local) :
                    AsAsked(local, azure'.says, f) <=> f \notin Garbled(local)
<1>1. OverlayInit => Inv
  BY InitTyped DEF OverlayInit, Sound
<1>2. Inv /\ [OverlayNext]_vars => Inv'
  BY NextTyped, SoundNext
<1>3. Inv /\ [OverlayNext]_vars => Creates
  <2> SUFFICES ASSUME Inv, [OverlayNext]_vars, Sending, seen = Absent, azure' # azure,
                      NEW f \in Fields(local)
               PROVE  AsAsked(local, azure'.says, f) <=> f \notin Garbled(local)
    BY Zenon
  <2> DEFINE body == Body(kind, NewSpec(kind), local)
  <2>1. Put
    BY SendingIsPut DEF PutLost
  <2>2. Base(seen) = NewSpec(kind)
    BY DEF Base
  <2>3. azure' = body /\ Accepts(azure, body)
    BY <2>1, <2>2, Zenon DEF Put
  <2>4. kind \in DOMAIN Wants /\ local \in Wants[kind] /\ ~Panics(kind, FALSE, Absent, local)
    BY <2>1 DEF Put, Sound, OverlayTypeOK
  <2>5. AsAsked(local, Rendered(kind, NewSpec(kind).says, local), f) <=> f \notin Garbled(local)
    BY <2>3, <2>4, SaysAsked
  <2>6. azure'.says = Rendered(kind, NewSpec(kind).says, local)
    BY <2>3 DEF Body
  <2>7. QED
    BY <2>5, <2>6
<1>4. QED
  BY <1>1, <1>2, <1>3, PTL DEF OverlaySpec, CreatedAsAsked
-----------------------------------------------------------------------------
(* The prefixes of a virtual network, over its life.                        *)

\* The prefixes of a virtual network, and of the one last read, form a list.
Listed ==
    kind = "VirtualNetwork" =>
        /\ azure # Absent => azure.says.addresses \in Lists
        /\ seen # Absent => seen.says.addresses \in Lists

LEMMA VirtualNetworkBody ==
    ASSUME kind = "VirtualNetwork", OverlayTypeOK, NEW base, NEW spec \in Wants[kind]
    PROVE  /\ spec.addresses \in Lists
           /\ Body(kind, base, spec).says.addresses
                 = AddressSpaces(base.says.addresses, spec.addresses)
           /\ Body(kind, base, spec).says.location = spec.location
<1>1. spec \in VirtualNetworkSpec
  BY OverlayAssumption DEF OverlayTypeOK, Specs
<1>2. Body(kind, base, spec).says =
         [spec EXCEPT !.addresses = AddressSpaces(base.says.addresses, @)]
  BY Zenon DEF Body, Rendered
<1>3. QED
  BY <1>1, <1>2 DEF VirtualNetworkSpec

LEMMA NewVirtualNetwork ==
    ASSUME kind = "VirtualNetwork"
    PROVE  NewSpec(kind).says.addresses = <<>>
<1>1. NewSpec(kind).says = [addresses |-> <<>>]
  BY Zenon DEF NewSpec
<1>2. QED
  BY <1>1

LEMMA BaseListed ==
    ASSUME OverlayTypeOK, Listed, kind = "VirtualNetwork"
    PROVE  Base(seen).says.addresses \in Lists
<1>1. <<>> \in Lists
  BY DEF Lists
<1>2. QED
  BY <1>1, NewVirtualNetwork DEF Base, Listed

LEMMA ListedNext ==
    ASSUME OverlayTypeOK, Listed, [OverlayNext]_vars
    PROVE  Listed'
<1> SUFFICES ASSUME kind = "VirtualNetwork"
             PROVE  /\ azure' # Absent => azure'.says.addresses \in Lists
                    /\ seen' # Absent => seen'.says.addresses \in Lists
  <2>1. kind' = kind
    BY Zenon DEF OverlayNext, Environment, Manager, Edit, OthersWrite, OthersTouch,
                 OthersRemove, PutLost, Look, Put, Restart, vars
  <2>2. QED
    BY <2>1 DEF Listed
<1>1. CASE Put
  <2>1. seen' = Absent /\ local \in Wants[kind]
    BY <1>1 DEF Put, Done, OverlayTypeOK
  <2>2. Body(kind, Base(seen), local).says.addresses \in Lists
    BY <2>1, VirtualNetworkBody, BaseListed, AddressSpacesAdds
  <2>3. QED
    BY <1>1, <2>1, <2>2, PutWrites DEF Listed
<1>2. CASE Look
  <2>1. azure' = azure /\ seen' \in {azure, Absent}
    BY <1>2, Zenon DEF Look
  <2>2. QED
    BY <2>1 DEF Listed
<1>3. CASE OthersWrite
  <2>1. PICK spec \in Wants[kind], rest \in Rests :
           azure' = [says |-> Foreign(spec), rest |-> rest]
    BY <1>3, Zenon DEF OthersWrite
  <2>2. Foreign(spec) = Rendered(kind, NewSpec(kind).says, spec)
    BY Zenon DEF Foreign
  <2>3. Body(kind, NewSpec(kind), spec).says = Rendered(kind, NewSpec(kind).says, spec)
    BY DEF Body
  <2>4. <<>> \in Lists
    BY DEF Lists
  <2>5. azure'.says.addresses \in Lists
    BY <2>1, <2>2, <2>3, <2>4, VirtualNetworkBody, NewVirtualNetwork, AddressSpacesAdds
  <2>6. seen' = seen
    BY <1>3 DEF OthersWrite
  <2>7. QED
    BY <2>5, <2>6 DEF Listed
<1>4. CASE OthersTouch
  <2>1. azure # Absent /\ azure'.says = azure.says /\ seen' = seen
    BY <1>4 DEF OthersTouch
  <2>2. QED
    BY <2>1 DEF Listed
<1>5. CASE OthersRemove \/ PutLost \/ Restart \/ Edit \/ UNCHANGED vars
  <2>1. azure' \in {azure, Absent} /\ seen' \in {seen, Absent}
    BY <1>5, Zenon DEF OthersRemove, PutLost, Restart, Done, Edit, vars
  <2>2. QED
    BY <2>1 DEF Listed
<1>6. QED
  BY <1>1, <1>2, <1>3, <1>4, <1>5 DEF OverlayNext, Environment, Manager

\* Whatever its spec says, before and after any number of edits: an update of a virtual
\* network leaves every prefix it has found where it was (AddressSpaces only appends).
THEOREM PrefixesStay == OverlaySpec => PrefixesOnlyGrow
<1> DEFINE Inv == OverlayTypeOK /\ Listed
           Stay == Sending /\ kind = "VirtualNetwork" /\ seen # Absent /\ azure = seen
                   => IsPrefix(azure.says.addresses, azure'.says.addresses)
<1>1. OverlayInit => Inv
  BY InitTyped DEF OverlayInit, Listed
<1>2. Inv /\ [OverlayNext]_vars => Inv'
  BY NextTyped, ListedNext
<1>3. Inv /\ [OverlayNext]_vars => Stay
  <2> SUFFICES ASSUME Inv, [OverlayNext]_vars, Sending, kind = "VirtualNetwork",
                      seen # Absent, azure = seen
               PROVE  IsPrefix(azure.says.addresses, azure'.says.addresses)
    OBVIOUS
  <2>1. Base(seen) = azure
    BY OverlaidFromRemote DEF Base, Builder, Overlaid
  <2>2. azure.says.addresses \in Lists
    BY DEF Listed
  <2>3. CASE azure' = azure
    BY <2>2, <2>3, PrefixMeans DEF Lists
  <2>4. CASE Put
    <3>1. local \in Wants[kind]
      BY <2>4 DEF Put, OverlayTypeOK
    <3>2. IsPrefix(azure.says.addresses, Body(kind, Base(seen), local).says.addresses)
      BY <2>1, <2>2, <3>1, VirtualNetworkBody, AddressSpacesAdds
    <3>3. QED
      BY <2>3, <2>4, <3>2, PutWrites
  <2>5. QED
    BY <2>3, <2>4, SendingIsPut DEF PutLost
<1>4. QED
  BY <1>1, <1>2, <1>3, PTL DEF OverlaySpec, PrefixesOnlyGrow

-----------------------------------------------------------------------------
(* What a PUT writes does not differ from the spec it was made from.         *)

LEMMA LoadBalancerSettles ==
    ASSUME kind = "LoadBalancer", NEW spec \in LoadBalancerSpec, NEW base, NEW remote,
           Accepts(remote, Body(kind, base, spec))
    PROVE  LET sent == Body(kind, base, spec)
           IN  /\ sent.says.location = spec.location
               /\ spec.rules # Nil => sent.says.rules = spec.rules
<1> DEFINE sent == [spec EXCEPT !.frontends = Frontends(@), !.backends = Aliased(@),
                                !.probes = Probes(@), !.rules = Rules(@)]
<1>1. Body(kind, base, spec).says = sent
  BY Zenon DEF Body, Rendered
<1>2. /\ spec.rules \in Maybe(Seq(Rule))
      /\ sent.location = spec.location /\ sent.rules = Rules(spec.rules)
  BY DEF LoadBalancerSpec
<1>3. IsInjective(NamesOf(sent.rules))
  BY <1>1, Zenon DEF Accepts
<1>4. Rules(spec.rules) = Optional(spec.rules)
  BY <1>2, <1>3, RulesAsAsked
<1>5. QED
  BY <1>1, <1>2, <1>4 DEF Optional

\* What the clients of the quiet kinds compare, and when they send again.
LEMMA QuietCompares ==
    ASSUME kind \in Quiet, NEW remote, NEW spec, Resends(kind, remote, spec)
    PROVE  /\ kind \notin {"NetworkInterface", "Identity"}
           /\ \E f \in CASE kind = "ResourceGroup" -> {"location"}
                         [] kind = "VirtualNetwork" -> {"location", "addresses"}
                         [] kind = "Subnet" -> {"prefix"}
                         [] kind = "LoadBalancer" -> {"location", "rules"}
                         [] kind = "VM" -> {"sku"} :
                  remote.says[f] # spec[f]
BY DEF Quiet, Resends, NeedsUpdate, Builders, ResourceGroup, VirtualNetwork, Subnet,
       LoadBalancer, VM, NetworkInterface, Identity, Comparing, Creating

\* For every spec of the quiet kinds, and whatever others do between GET and PUT: what a
\* PUT has changed does not read as one more difference, so the same spec is not sent
\* again (NeedsUpdate of spec.go against the setters of the same file).
THEOREM SentOnce == OverlaySpec => PutSettles
<1> DEFINE Inv == OverlayTypeOK /\ Listed
           Settles == Sending /\ azure' # azure /\ kind \in Quiet /\ Extends
               => ~Resends(kind, azure', local) \/ Panics(kind, TRUE, azure', local)
<1>1. OverlayInit => Inv
  BY InitTyped DEF OverlayInit, Listed
<1>2. Inv /\ [OverlayNext]_vars => Inv'
  BY NextTyped, ListedNext
<1>3. Inv /\ [OverlayNext]_vars => Settles
  <2> SUFFICES ASSUME Inv, [OverlayNext]_vars, Sending, azure' # azure, kind \in Quiet,
                      Extends, Resends(kind, azure', local)
               PROVE  Panics(kind, TRUE, azure', local)
    OBVIOUS
  <2> DEFINE body == Body(kind, Base(seen), local)
  <2>1. azure' = body /\ Accepts(azure, body) /\ pc = "put"
    <3>1. Put
      BY SendingIsPut DEF PutLost
    <3>2. QED
      BY <3>1, Zenon DEF Put
  <2>2. local \in Wants[kind] /\ local \in Specs[kind]
    BY <2>1, OverlayAssumption DEF OverlayTypeOK
  <2>3. CASE kind = "LoadBalancer"
    <3>1. local \in LoadBalancerSpec
      BY <2>2, <2>3 DEF Specs
    <3>2. /\ body.says.location = local.location
          /\ local.rules # Nil => body.says.rules = local.rules
      BY <2>1, <2>3, <3>1, LoadBalancerSettles
    <3>3. local.rules = Nil
      <4>1. \E f \in {"location", "rules"} : azure'.says[f] # local[f]
        BY <2>3, QuietCompares
      <4>2. QED
        BY <2>1, <3>2, <4>1
    <3>4. QED
      BY <2>1, <2>3, <3>2, <3>3 DEF Panics
  <2>4. CASE kind = "VirtualNetwork"
    <3>1. /\ body.says.location = local.location /\ local.addresses \in Lists
          /\ body.says.addresses = AddressSpaces(Base(seen).says.addresses, local.addresses)
      BY <2>2, <2>4, VirtualNetworkBody
    <3>2. body.says.addresses = local.addresses
      BY <2>4, <3>1, BaseListed, AddressSpacesExtends DEF Extends
    <3>3. \E f \in {"location", "addresses"} : azure'.says[f] # local[f]
      BY <2>4, QuietCompares
    <3>4. QED
      BY <2>1, <3>1, <3>2, <3>3
  <2>5. CASE kind = "VM"
    <3>1. body.says.sku = local.sku
      BY <2>5, Zenon DEF Body, Rendered
    <3>2. \E f \in {"sku"} : azure'.says[f] # local[f]
      BY <2>5, QuietCompares
    <3>3. QED
      BY <2>1, <3>1, <3>2
  <2>6. CASE kind \in {"ResourceGroup", "Subnet"}
    <3>1. body.says = local
      BY <2>6, Zenon DEF Body, Rendered
    <3>2. \E f \in {"location", "prefix"} : azure'.says[f] # local[f]
      BY <2>6, QuietCompares
    <3>3. QED
      BY <2>1, <3>1, <3>2
  <2>7. QED
    BY <2>3, <2>4, <2>5, <2>6, QuietCompares DEF Quiet
<1>4. QED
  BY <1>1, <1>2, <1>3, PTL DEF OverlaySpec, PutSettles
=============================================================================
