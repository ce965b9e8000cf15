--------------------------- MODULE ConfigStoreProofs ---------------------------
(***************************************************************************)
(* Theorems about ConfigStore, for any admins, users, inbounds and drafts: *)
(* the rows of one config stay apart from those of every other, a save     *)
(* never lands on the config of somebody else, and the six tables with     *)
(* their surrogate ids keep the promise of ConfigProfiles.                 *)
(***************************************************************************)
EXTENDS ConfigStore, FiniteSetTheorems, SequenceTheorems, WellFoundedInduction, TLAPS

Unique(table) == \A r, s \in table : r.id = s.id => r = s
Anchored(table, A) == \A r \in table : \E x \in A : x.id = r.config

(* References to rows of the same config, among groups G, providers P and  *)
(* rules R.                                                                *)
Has(table, id, c) == \E r \in table : r.id = id /\ r.config = c
Within(ref, c, G) == ref.kind = "group" => Has(G, ref.to, c)
RuleWithin(r, G, P, R) ==
    /\ Within(r.target, r.config, G)
    /\ r.provider # 0 => Has(P, r.provider, r.config)
    /\ r.parent # 0 => Has(R, r.parent, r.config) /\ r.parent < r.id
MemberWithin(m, G) == \E g \in G : g.id = m.group /\ Within(m.ref, g.config, G)
Reaches(rows, I) == \A ref \in rows : ref.kind = "inbound" => ref.to \in I

Rows ==
    /\ Unique(groups) /\ Unique(providers) /\ Unique(rules)
    /\ Anchored(groups, anchors) /\ Anchored(providers, anchors) /\ Anchored(rules, anchors)
    /\ \A m, n \in members : m.group = n.group /\ m.pos = n.pos => m = n
Refs ==
    /\ \A r \in rules : RuleWithin(r, groups, providers, rules)
    /\ \A m \in members : MemberWithin(m, groups)
    /\ Reaches({m.ref : m \in members}, inbounds)
    /\ Reaches({r.target : r \in rules}, inbounds)

(* Configs: one per owner, and one can still be made for the base.         *)
Anchors ==
    /\ Unique(anchors)
    /\ \A x, y \in anchors : x.owner = y.owner => x = y
    /\ lastId.anchors <= MaxConfigs
    /\ (\A x \in anchors : x.owner # Base) => lastId.anchors < MaxConfigs

(* Ids in use were handed out, so the next ones are new.                   *)
Issued ==
    /\ lastId \in [anchors : Nat, groups : Nat, providers : Nat]
    /\ \A x \in anchors : x.id <= lastId.anchors
    /\ \A g \in groups : g.id <= lastId.groups
    /\ \A p \in providers : p.id <= lastId.providers
Finite == /\ IsFiniteSet(groups) /\ IsFiniteSet(members)
          /\ IsFiniteSet(providers) /\ IsFiniteSet(rules)

(* The config a request was resolved to is its owner's, or gone for good.  *)
Owned ==
    \A a \in Admin :
        /\ req[a] # Idle => req[a].draft \in ValidDrafts
        /\ req[a].pc = "save" =>
             /\ req[a].config <= lastId.anchors
             /\ \A x \in anchors : x.id = req[a].config => x.owner = req[a].owner

IInv == TypeOK /\ Rows /\ Refs /\ Anchors /\ Issued /\ Finite /\ Owned

-----------------------------------------------------------------------------
(* Numbers of a finite set, and their places in it. *)

LEMMA LeastNat ==
    ASSUME NEW T \in SUBSET Nat, T # {}
    PROVE  \E n \in T : \A m \in T : n <= m
<1> DEFINE less == OpToRel(<, Nat)
<1>0. IsWellFoundedOn(less, Nat) /\ T \subseteq Nat
  BY NatLessThanWellFounded
<1> HIDE DEF less
<1>1. PICK n \in T : \A m \in T : ~(<<m, n>> \in less)
  BY <1>0, WFMin
<1>2. ASSUME NEW m \in T PROVE n <= m
  <2>1. ~(m < n)
    BY <1>1 DEF OpToRel, less
  <2> QED BY <2>1
<1> QED BY <1>2

LEMMA GreatestNat ==
    ASSUME NEW S \in SUBSET Nat, IsFiniteSet(S), S # {}
    PROVE  \E x \in S : \A y \in S : y <= x
<1> DEFINE Bad(X) == IsFiniteSet(X) /\ X # {} /\ ~\E x \in X : \A y \in X : y <= x
           T == {n \in Nat : \E X \in SUBSET Nat : Bad(X) /\ Cardinality(X) = n}
<1> SUFFICES ASSUME T # {} PROVE FALSE
  <2>1. ~Bad(S)
    BY FS_CardinalityType
  <2> QED BY <2>1
<1>1. PICK n \in T : \A m \in T : n <= m
  BY LeastNat
<1>2. PICK X \in SUBSET Nat : Bad(X) /\ Cardinality(X) = n
  BY <1>1
<1>3. PICK x \in X : TRUE
  BY <1>2
<1> DEFINE Y == X \ {x}
<1>4. IsFiniteSet(Y) /\ Cardinality(Y) = n - 1
  BY <1>2, <1>3, FS_RemoveElement
<1>5. ~Bad(Y)
  <2>1. Bad(Y) => n - 1 \in T
    BY <1>4, FS_CardinalityType
  <2> QED BY <1>1, <2>1
<1>6. CASE Y = {}
  BY <1>2, <1>3, <1>6
<1>7. CASE Y # {}
  <2>1. PICK z \in Y : \A y \in Y : y <= z
    BY <1>4, <1>5, <1>7
  <2>2. \E w \in X : \A y \in X : y <= w
    <3>1. CASE x <= z
      BY <2>1, <3>1
    <3>2. CASE ~(x <= z)
      BY <1>3, <2>1, <3>2
    <3> QED BY <3>1, <3>2
  <2> QED BY <1>2, <2>2
<1> QED BY <1>6, <1>7

LEMMA PlaceRange ==
    ASSUME NEW S \in SUBSET Nat, IsFiniteSet(S), NEW x \in S
    PROVE  /\ Cardinality(S) \in Nat /\ Place(S, x) \in Nat
           /\ 1 <= Place(S, x) /\ Place(S, x) <= Cardinality(S)
<1> DEFINE B == {y \in S : y <= x}
<1>1. IsFiniteSet(B) /\ Cardinality(B) <= Cardinality(S) /\ Cardinality(B) # 0
  <2>1. x \in B
    OBVIOUS
  <2> QED BY <2>1, FS_Subset, FS_EmptySet
<1> QED BY <1>1, FS_CardinalityType DEF Place

LEMMA PlaceGrows ==
    ASSUME NEW S \in SUBSET Nat, IsFiniteSet(S), NEW x \in S, NEW y \in S, x < y
    PROVE  Place(S, x) < Place(S, y)
<1> DEFINE A == {z \in S : z <= x}
           B == {z \in S : z <= y}
<1>0. B \in SUBSET S /\ A \in SUBSET B /\ y \in B /\ y \notin A
  <2>1. \A z \in S : z <= x => z <= y
    OBVIOUS
  <2>2. y <= y /\ ~(y <= x)
    OBVIOUS
  <2> QED BY <2>1, <2>2
<1> HIDE DEF A, B
<1>1. IsFiniteSet(B) /\ A \in SUBSET B /\ y \in B /\ y \notin A
  BY <1>0, FS_Subset
<1>2. Cardinality(A) <= Cardinality(B) /\ Cardinality(A) # Cardinality(B)
  BY <1>1, FS_Subset
<1>3. Cardinality(A) \in Nat /\ Cardinality(B) \in Nat
  BY <1>1, FS_Subset, FS_CardinalityType
<1> QED BY <1>2, <1>3 DEF Place, A, B

LEMMA PlaceApart ==
    ASSUME NEW S \in SUBSET Nat, IsFiniteSet(S), NEW x \in S, NEW y \in S,
           Place(S, x) = Place(S, y)
    PROVE  x = y
<1>1. Place(S, x) \in Nat /\ Place(S, y) \in Nat
  BY PlaceRange
<1>2. ~(x < y) /\ ~(y < x)
  BY <1>1, PlaceGrows
<1> QED BY <1>2

(* The ids of finitely many rows. *)
LEMMA IdsFinite ==
    ASSUME NEW rows, IsFiniteSet(rows)
    PROVE  /\ IsFiniteSet({r.id : r \in rows})
           /\ Cardinality({r.id : r \in rows}) <= Cardinality(rows)
<1> DEFINE h == [r \in rows |-> r.id]
           ids == {r.id : r \in rows}
<1>1. h \in Surjection(rows, ids)
  BY DEF Surjection
<1> HIDE DEF h, ids
<1>2. IsFiniteSet(ids) /\ Cardinality(ids) <= Cardinality(rows)
  BY <1>1, FS_Surjection
<1> QED BY <1>2 DEF ids

LEMMA MaxRuleIdBounds ==
    ASSUME NEW S, IsFiniteSet(S), \A r \in S : r.id \in Nat, NEW c
    PROVE  MaxRuleId(S, c) \in Nat /\ \A r \in S : r.id <= MaxRuleId(S, c)
<1> DEFINE ids == {r.id : r \in S}
<1>1. IsFiniteSet(ids) /\ ids \in SUBSET Nat
  BY IdsFinite
<1>2. CASE ids = {}
  BY <1>2 DEF MaxRuleId
<1>3. CASE ids # {}
  <2>1. PICK x \in ids : \A y \in ids : y <= x
    BY <1>1, <1>3, GreatestNat
  <2>2. {y \in ids : y <= x} = ids
    BY <2>1
  <2>3. Place(ids, x) = Cardinality(ids)
    BY <2>2 DEF Place
  <2>4. PICK z \in ids : z = Nth(ids, Cardinality(ids)) /\ Place(ids, z) = Cardinality(ids)
    BY <2>3 DEF Nth
  <2>5. z = x
    BY <1>1, <2>3, <2>4, PlaceApart
  <2>6. MaxRuleId(S, c) = z
    BY <1>3, <2>4 DEF MaxRuleId
  <2> QED BY <1>1, <2>1, <2>5, <2>6
<1> QED BY <1>2, <1>3

-----------------------------------------------------------------------------
(* The depth-first order, in which the rules of a draft are numbered. *)

LEMMA PrecedesTotal ==
    ASSUME NEW p \in Seq(Nat), NEW q \in Seq(Nat)
    PROVE  Precedes(p, q) \/ Precedes(q, p)
<1> DEFINE D == {k \in Nat : k \in 1 .. Len(p) /\ k <= Len(q) /\ p[k] # q[k]}
<1>1. CASE D = {}
  <2>1. \A k \in 1 .. Len(p) : k <= Len(q) => p[k] = q[k]
    BY <1>1
  <2>2. CASE Len(p) <= Len(q)
    BY <2>1, <2>2 DEF Precedes
  <2>3. CASE ~(Len(p) <= Len(q))
    BY <2>1, <2>3 DEF Precedes
  <2> QED BY <2>2, <2>3
<1>2. CASE D # {}
  <2>1. PICK k \in D : \A j \in D : k <= j
    BY <1>2, LeastNat
  <2>2. k \in 1 .. Len(p) /\ k \in 1 .. Len(q) /\ p[k] \in Nat /\ q[k] \in Nat /\ p[k] # q[k]
    BY <2>1
  <2>3. \A j \in 1 .. k - 1 : p[j] = q[j]
    <3>1. SUFFICES ASSUME NEW j \in 1 .. k - 1, p[j] # q[j] PROVE FALSE
      OBVIOUS
    <3>2. j \in Nat /\ j \in 1 .. Len(p) /\ j <= Len(q) /\ ~(k <= j)
      BY <2>2
    <3>3. j \in D
      BY <3>1, <3>2
    <3> QED BY <2>1, <3>2, <3>3
  <2>4. CASE p[k] < q[k]
    BY <2>2, <2>3, <2>4 DEF Precedes
  <2>5. CASE q[k] < p[k]
    BY <2>2, <2>3, <2>5 DEF Precedes
  <2> QED BY <2>2, <2>4, <2>5
<1> QED BY <1>1, <1>2

LEMMA PrecedesAntisymmetric ==
    ASSUME NEW p \in Seq(Nat), NEW q \in Seq(Nat), Precedes(p, q), Precedes(q, p)
    PROVE  p = q
<1>1. /\ \A i \in 1 .. Len(p) : p[i] \in Nat /\ p[i] \in Int
      /\ \A i \in 1 .. Len(q) : q[i] \in Nat /\ q[i] \in Int
      /\ Len(p) \in Nat /\ Len(q) \in Nat
  OBVIOUS
<1>2. CASE \E k \in 1 .. Len(p) : /\ k <= Len(q) /\ p[k] < q[k]
                                  /\ \A j \in 1 .. k - 1 : p[j] = q[j]
  <2>1. PICK k \in 1 .. Len(p) : /\ k <= Len(q) /\ p[k] < q[k]
                                 /\ \A j \in 1 .. k - 1 : p[j] = q[j]
    BY <1>2
  <2>2. ~\A j \in 1 .. Len(q) : p[j] = q[j]
    BY <1>1, <2>1
  <2>3. PICK l \in 1 .. Len(q) : /\ l <= Len(p) /\ q[l] < p[l]
                                 /\ \A j \in 1 .. l - 1 : q[j] = p[j]
    BY <2>2 DEF Precedes
  <2>4. k < l \/ l < k \/ k = l
    OBVIOUS
  <2>5. CASE k < l
    <3>1. k \in 1 .. l - 1 /\ p[k] < q[k]
      BY <2>1, <2>5
    <3>2. q[k] = p[k]
      BY <2>3, <3>1
    <3>3. p[k] \in Nat
      BY <1>1
    <3> QED BY <3>1, <3>2, <3>3
  <2>6. CASE l < k
    <3>1. l \in 1 .. k - 1 /\ q[l] < p[l]
      BY <2>3, <2>6
    <3>2. p[l] = q[l]
      BY <2>1, <3>1
    <3>3. q[l] \in Nat
      BY <1>1
    <3> QED BY <3>1, <3>2, <3>3
  <2>7. CASE k = l
    <3>1. p[k] < q[k] /\ q[k] < p[k] /\ p[k] \in Nat /\ q[k] \in Nat
      BY <1>1, <2>1, <2>3, <2>7
    <3> QED BY <3>1
  <2> QED BY <2>4, <2>5, <2>6, <2>7
<1>3. CASE Len(p) <= Len(q) /\ \A j \in 1 .. Len(p) : p[j] = q[j]
  <2>1. ~\E l \in 1 .. Len(q) : l <= Len(p) /\ q[l] < p[l]
    BY <1>1, <1>3
  <2>2. Len(q) <= Len(p)
    BY <2>1 DEF Precedes
  <2> QED BY <1>1, <1>3, <2>2, SeqEqual
<1> QED BY <1>2, <1>3 DEF Precedes

LEMMA Chain ==
    ASSUME NEW x \in Nat, NEW y \in Nat, NEW z \in Nat, x < y, y < z \/ y = z
    PROVE  x < z
OBVIOUS

LEMMA PrecedesTransitive ==
    ASSUME NEW p \in Seq(Nat), NEW q \in Seq(Nat), NEW r \in Seq(Nat),
           Precedes(p, q), Precedes(q, r)
    PROVE  Precedes(p, r)
<1>1. /\ \A i \in 1 .. Len(p) : p[i] \in Nat
      /\ \A i \in 1 .. Len(q) : q[i] \in Nat
      /\ \A i \in 1 .. Len(r) : r[i] \in Nat
      /\ Len(p) \in Nat /\ Len(q) \in Nat /\ Len(r) \in Nat
  OBVIOUS
<1>2. ASSUME NEW k \in 1 .. Len(p), k <= Len(q), p[k] < q[k],
             \A j \in 1 .. k - 1 : p[j] = q[j]
      PROVE  Precedes(p, r)
  <2>1. CASE \E l \in 1 .. Len(q) : /\ l <= Len(r) /\ q[l] < r[l]
                                    /\ \A j \in 1 .. l - 1 : q[j] = r[j]
    <3>1. PICK l \in 1 .. Len(q) : /\ l <= Len(r) /\ q[l] < r[l]
                                   /\ \A j \in 1 .. l - 1 : q[j] = r[j]
      BY <2>1
    <3>2. CASE k <= l
      <4>1. k <= Len(r) /\ p[k] < r[k]
        <5>1. k \in 1 .. Len(q) /\ k \in 1 .. Len(r) /\ k \in Nat /\ l \in Nat
          BY <1>1, <1>2, <3>1, <3>2
        <5>2. p[k] \in Nat /\ q[k] \in Nat /\ r[k] \in Nat /\ p[k] < q[k]
          BY <1>1, <1>2, <5>1
        <5>3. k = l \/ k \in 1 .. l - 1
          BY <3>2, <5>1
        <5>4. q[k] < r[k] \/ q[k] = r[k]
          <6>1. CASE k = l
            BY <3>1, <6>1
          <6>2. CASE k \in 1 .. l - 1
            BY <3>1, <6>2
          <6> QED BY <5>3, <6>1, <6>2
        <5>5. p[k] < r[k]
          BY <5>2, <5>4, Chain
        <5> QED BY <5>1, <5>5
      <4>2. \A j \in 1 .. k - 1 : p[j] = r[j]
        BY <1>2, <3>1, <3>2
      <4> QED BY <4>1, <4>2 DEF Precedes
    <3>3. CASE l < k
      <4>1. l \in 1 .. Len(p) /\ p[l] = q[l]
        BY <1>1, <1>2, <3>3
      <4>2. \A j \in 1 .. l - 1 : p[j] = r[j]
        BY <1>2, <3>1, <3>3
      <4> QED BY <3>1, <4>1, <4>2 DEF Precedes
    <3> QED BY <3>2, <3>3
  <2>2. CASE Len(q) <= Len(r) /\ \A j \in 1 .. Len(q) : q[j] = r[j]
    <3>1. k \in 1 .. Len(q) /\ k <= Len(r) /\ p[k] < r[k]
      BY <1>1, <1>2, <2>2
    <3>2. \A j \in 1 .. k - 1 : p[j] = r[j]
      BY <1>2, <2>2, <3>1
    <3> QED BY <3>1, <3>2 DEF Precedes
  <2> QED BY <2>1, <2>2 DEF Precedes
<1>3. CASE Len(p) <= Len(q) /\ \A j \in 1 .. Len(p) : p[j] = q[j]
  <2>1. CASE \E l \in 1 .. Len(q) : /\ l <= Len(r) /\ q[l] < r[l]
                                    /\ \A j \in 1 .. l - 1 : q[j] = r[j]
    <3>1. PICK l \in 1 .. Len(q) : /\ l <= Len(r) /\ q[l] < r[l]
                                   /\ \A j \in 1 .. l - 1 : q[j] = r[j]
      BY <2>1
    <3>2. CASE l <= Len(p)
      <4>1. l \in 1 .. Len(p) /\ p[l] < r[l]
        BY <1>3, <3>1, <3>2
      <4>2. \A j \in 1 .. l - 1 : p[j] = r[j]
        BY <1>1, <1>3, <3>1, <3>2
      <4> QED BY <3>1, <4>1, <4>2 DEF Precedes
    <3>3. CASE Len(p) < l
      <4>1. Len(p) <= Len(r) /\ \A j \in 1 .. Len(p) : p[j] = r[j]
        BY <1>1, <1>3, <3>1, <3>3
      <4> QED BY <4>1 DEF Precedes
    <3> QED BY <1>1, <3>2, <3>3
  <2>2. CASE Len(q) <= Len(r) /\ \A j \in 1 .. Len(q) : q[j] = r[j]
    BY <1>1, <1>3, <2>2 DEF Precedes
  <2> QED BY <2>1, <2>2 DEF Precedes
<1> QED BY <1>2, <1>3 DEF Precedes

LEMMA RankGrows ==
    ASSUME NEW paths \in SUBSET Seq(Nat), IsFiniteSet(paths),
           NEW p \in paths, NEW q \in paths, Precedes(p, q), p # q
    PROVE  Rank(paths, p) < Rank(paths, q)
<1> DEFINE A == {x \in paths : Precedes(x, p)}
           B == {x \in paths : Precedes(x, q)}
<1>1. B \in SUBSET paths /\ A \in SUBSET B /\ q \in B /\ q \notin A
  <2>1. \A x \in paths : Precedes(x, p) => Precedes(x, q)
    BY PrecedesTransitive
  <2>2. Precedes(q, q) /\ ~Precedes(q, p)
    BY PrecedesTotal, PrecedesAntisymmetric
  <2> QED BY <2>1, <2>2
<1> HIDE DEF A, B
<1>2. IsFiniteSet(B) /\ IsFiniteSet(A) /\ Cardinality(A) <= Cardinality(B)
      /\ Cardinality(A) # Cardinality(B)
  BY <1>1, FS_Subset
<1>3. Cardinality(A) \in Nat /\ Cardinality(B) \in Nat
  BY <1>2, FS_CardinalityType
<1> QED BY <1>2, <1>3 DEF Rank, A, B

LEMMA RankRange ==
    ASSUME NEW paths \in SUBSET Seq(Nat), IsFiniteSet(paths), NEW q \in paths
    PROVE  Rank(paths, q) \in Nat \ {0}
<1> DEFINE B == {x \in paths : Precedes(x, q)}
<1>1. B \in SUBSET paths /\ q \in B
  BY PrecedesTotal
<1> HIDE DEF B
<1>2. IsFiniteSet(B) /\ Cardinality(B) # 0
  BY <1>1, FS_Subset, FS_EmptySet
<1> QED BY <1>2, FS_CardinalityType DEF Rank, B

LEMMA RankApart ==
    ASSUME NEW paths \in SUBSET Seq(Nat), IsFiniteSet(paths),
           NEW p \in paths, NEW q \in paths, Rank(paths, p) = Rank(paths, q)
    PROVE  p = q
<1>1. Rank(paths, p) \in Nat /\ Rank(paths, q) \in Nat
  BY RankRange
<1> QED BY <1>1, PrecedesTotal, RankGrows

LEMMA PrefixPrecedes ==
    ASSUME NEW q \in Seq(Nat), Len(q) > 1
    PROVE  Prefix(q) \in Seq(Nat) /\ Precedes(Prefix(q), q) /\ Prefix(q) # q
<1>1. /\ Prefix(q) \in Seq(Nat) /\ Len(Prefix(q)) = Len(q) - 1
      /\ \A i \in 1 .. Len(q) - 1 : Prefix(q)[i] = q[i]
  BY DEF Prefix
<1> QED BY <1>1 DEF Precedes

-----------------------------------------------------------------------------
(* The rows of a draft. *)

LEMMA ValidRef ==
    ASSUME NEW ref \in TargetOf(Int), NEW n \in Nat, validateRef(ref, n)
    PROVE  ref \in Target
<1>1. CASE ref \in [kind : {"group"}, to : Int]
  <2>1. ref.to \in 1 .. n
    BY <1>1 DEF validateRef
  <2>2. ref \in [kind : {"group"}, to : Nat]
    BY <1>1, <2>1
  <2> QED BY <2>2 DEF Target, TargetOf, PolicyOf
<1>2. CASE ref \notin [kind : {"group"}, to : Int]
  BY <1>2 DEF Target, TargetOf, PolicyOf
<1> QED BY <1>1, <1>2

LEMMA DraftTypes ==
    ASSUME NEW d \in ValidDrafts
    PROVE  /\ d \in Draft /\ d.value \in STRING
           /\ Len(d.groups) \in Nat /\ DOMAIN d.groups = 1 .. Len(d.groups)
           /\ Len(d.providers) \in Nat /\ DOMAIN d.providers = 1 .. Len(d.providers)
           /\ \A k \in 1 .. Len(d.providers) : d.providers[k] \in STRING
           /\ \A k \in 1 .. Len(d.groups) :
                /\ d.groups[k].name \in STRING
                /\ Len(d.groups[k].members) \in Nat
                /\ DOMAIN d.groups[k].members = 1 .. Len(d.groups[k].members)
                /\ \A j \in 1 .. Len(d.groups[k].members) :
                     /\ d.groups[k].members[j] \in Target
                     /\ validateRef(d.groups[k].members[j], Len(d.groups))
           /\ IsFiniteSet(DOMAIN d.rules) /\ DOMAIN d.rules \in SUBSET Seq(Nat)
           /\ \A q \in DOMAIN d.rules :
                /\ q \in Seq(Nat) /\ Len(q) \in Nat \ {0} /\ q[Len(q)] \in Nat
                /\ d.rules[q].provider \in 0 .. Len(d.providers)
                /\ d.rules[q].target \in Target
                /\ validateRef(d.rules[q].target, Len(d.groups))
                /\ Len(q) > 1 => Prefix(q) \in DOMAIN d.rules
<1>1. d \in Draft /\ Decoded(d) /\ Valid(d)
  BY DraftAssumption DEF ValidDrafts, DraftAssumption
<1>2. /\ d.groups \in Seq([name : STRING, members : Seq(PolicyOf(Int))])
      /\ d.providers \in Seq(STRING) /\ d.value \in STRING
      /\ IsFiniteSet(DOMAIN d.rules)
  BY <1>1 DEF Decoded
<1>3. \A k \in 1 .. Len(d.groups) :
        d.groups[k] \in [name : STRING, members : Seq(PolicyOf(Int))]
  <2> DEFINE Group == [name : STRING, members : Seq(PolicyOf(Int))]
  <2>1. d.groups \in Seq(Group)
    BY <1>2
  <2> HIDE DEF Group
  <2>2. \A k \in 1 .. Len(d.groups) : d.groups[k] \in Group
    BY <2>1
  <2> QED BY <2>2 DEF Group
<1>4. /\ Len(d.groups) \in Nat /\ DOMAIN d.groups = 1 .. Len(d.groups)
      /\ Len(d.providers) \in Nat /\ DOMAIN d.providers = 1 .. Len(d.providers)
      /\ \A k \in 1 .. Len(d.providers) : d.providers[k] \in STRING
  BY <1>2
<1>5. \A k \in 1 .. Len(d.groups) :
        /\ d.groups[k].name \in STRING
        /\ Len(d.groups[k].members) \in Nat
        /\ DOMAIN d.groups[k].members = 1 .. Len(d.groups[k].members)
        /\ \A j \in 1 .. Len(d.groups[k].members) : d.groups[k].members[j] \in PolicyOf(Int)
  BY <1>3
<1>6. \A k \in 1 .. Len(d.groups) : \A j \in 1 .. Len(d.groups[k].members) :
        validateRef(d.groups[k].members[j], Len(d.groups))
  BY <1>1, <1>4, <1>5 DEF Valid, ValidateProxyGroups
<1>7. ASSUME NEW q \in DOMAIN d.rules
      PROVE  /\ q \in Seq(Nat) /\ Len(q) \in Nat \ {0} /\ q[Len(q)] \in Nat
             /\ d.rules[q] \in [provider : Int, target : TargetOf(Int)]
             /\ d.rules[q].provider \in 0 .. Len(d.providers)
             /\ validateRef(d.rules[q].target, Len(d.groups))
             /\ Len(q) > 1 => Prefix(q) \in DOMAIN d.rules
  <2>1. q \in Seq(Nat \ {0}) /\ q # <<>>
    BY <1>1 DEF Decoded
  <2>2. Len(q) \in Nat /\ Len(q) # 0 /\ \A i \in 1 .. Len(q) : q[i] \in Nat
    BY <2>1
  <2>3. q \in Seq(Nat)
    BY <2>1, <2>2
  <2>4. d.rules[q] \in [provider : Int, target : TargetOf(Int)]
    BY <1>1 DEF Decoded
  <2> QED BY <1>1, <2>2, <2>3, <2>4 DEF Valid, ValidateRoutingRules
<1>8. DOMAIN d.rules \in SUBSET Seq(Nat)
  BY <1>7
<1>9. /\ \A k \in 1 .. Len(d.groups) : \A j \in 1 .. Len(d.groups[k].members) :
           d.groups[k].members[j] \in Target
      /\ \A q \in DOMAIN d.rules : d.rules[q].target \in Target
  <2>1. ASSUME NEW k \in 1 .. Len(d.groups), NEW j \in 1 .. Len(d.groups[k].members)
        PROVE  d.groups[k].members[j] \in Target
    <3>1. d.groups[k].members[j] \in TargetOf(Int)
      BY <1>5 DEF TargetOf
    <3>2. validateRef(d.groups[k].members[j], Len(d.groups)) /\ Len(d.groups) \in Nat
      BY <1>4, <1>6
    <3> QED BY <3>1, <3>2, ValidRef
  <2>2. ASSUME NEW q \in DOMAIN d.rules PROVE d.rules[q].target \in Target
    <3>1. d.rules[q].target \in TargetOf(Int) /\ validateRef(d.rules[q].target, Len(d.groups))
      BY <1>7
    <3>2. Len(d.groups) \in Nat
      BY <1>4
    <3> QED BY <3>1, <3>2, ValidRef
  <2> QED BY <2>1, <2>2
<1> QED BY <1>1, <1>2, <1>4, <1>5, <1>6, <1>7, <1>8, <1>9

(* A member and the target of a top-level rule are policies. *)
LEMMA DraftPolicies ==
    ASSUME NEW d \in ValidDrafts
    PROVE  /\ \A k \in DOMAIN d.groups : \A j \in DOMAIN d.groups[k].members :
                d.groups[k].members[j].kind \in {"direct", "inbound", "group"}
           /\ \A q \in DOMAIN d.rules :
                /\ Len(q) = 1 => d.rules[q].target.kind \in {"direct", "inbound", "group"}
                /\ q[1] \in Nat
<1>1. d \in Draft /\ Decoded(d) /\ Valid(d)
  BY DraftAssumption DEF ValidDrafts, DraftAssumption
<1>2. \A ref \in PolicyOf(Int) : ref.kind \in {"direct", "inbound", "group"}
  BY DEF PolicyOf, Direct, Ref
<1>3. ASSUME NEW k \in DOMAIN d.groups, NEW j \in DOMAIN d.groups[k].members
      PROVE  d.groups[k].members[j] \in PolicyOf(Int)
  <2> DEFINE Group == [name : STRING, members : Seq(PolicyOf(Int))]
  <2>1. d.groups \in Seq(Group)
    BY <1>1 DEF Decoded
  <2> HIDE DEF Group
  <2>2. d.groups[k] \in Group
    BY <2>1
  <2>3. d.groups[k].members \in Seq(PolicyOf(Int))
    BY <2>2 DEF Group
  <2> HIDE DEF Group
  <2> QED BY <2>3
<1>4. ASSUME NEW q \in DOMAIN d.rules, Len(q) = 1
      PROVE  d.rules[q].target \in PolicyOf(Int)
  <2>1. d.rules[q].target \in TargetOf(Int)
    BY <1>1 DEF Decoded
  <2>2. d.rules[q].target # NoRef
    <3>1. \A p \in DOMAIN d.rules : d.rules[p].target = NoRef <=> Len(p) > 1
      BY <1>1 DEF Valid, ValidateRoutingRules
    <3>2. ~(Len(q) > 1)
      BY <1>4
    <3> QED BY <3>1, <3>2
  <2> QED BY <2>1, <2>2 DEF TargetOf
<1>5. ASSUME NEW q \in DOMAIN d.rules PROVE q[1] \in Nat
  <2>1. q \in Seq(Nat) /\ Len(q) \in Nat \ {0}
    BY DraftTypes
  <2> QED BY <2>1
<1> QED BY <1>2, <1>3, <1>4, <1>5

LEMMA ResolvedRef ==
    ASSUME NEW ref \in Target, NEW base \in Nat, NEW n \in Nat, validateRef(ref, n)
    PROVE  /\ Resolved(ref, base) \in Target
           /\ Resolved(ref, base).kind = "group" =>
                \E k \in 1 .. n : Resolved(ref, base).to = base + k
           /\ ref.kind # "group" => Resolved(ref, base) = ref
<1>1. CASE ref.kind = "group"
  <2>1. ref.to \in 1 .. n /\ Resolved(ref, base) = Ref("group", base + ref.to)
    BY <1>1 DEF validateRef, Resolved
  <2>2. Resolved(ref, base).to = base + ref.to
    BY <2>1 DEF Ref
  <2>3. Resolved(ref, base) \in Target
    BY <2>1 DEF Ref, Target, TargetOf, PolicyOf
  <2> QED BY <1>1, <2>1, <2>2, <2>3
<1>2. CASE ref.kind # "group"
  BY <1>2 DEF Resolved
<1> QED BY <1>1, <1>2

LEMMA ImageFinite ==
    ASSUME NEW S, IsFiniteSet(S), NEW f, DOMAIN f = S
    PROVE  IsFiniteSet({f[x] : x \in S})
<1> DEFINE h == [x \in S |-> f[x]]
           T == {f[x] : x \in S}
<1>1. h \in Surjection(S, T)
  BY DEF Surjection
<1> HIDE DEF h, T
<1>2. IsFiniteSet(T)
  BY <1>1, FS_Surjection
<1> QED BY <1>2 DEF T

LEMMA Numbered ==
    ASSUME NEW n \in Nat, NEW f, DOMAIN f = 1 .. n
    PROVE  IsFiniteSet({f[k] : k \in 1 .. n})
<1>1. IsFiniteSet(1 .. n)
  BY FS_Interval
<1> QED BY <1>1, ImageFinite

GroupType == [id : Nat \ {0}, config : ConfigId, pos : Nat, name : STRING]
MemberType == [group : Nat, pos : Nat, ref : Target]
ProviderType == [id : Nat \ {0}, config : ConfigId, name : STRING]
RuleType == [id : Nat \ {0}, config : ConfigId, parent : Nat, pos : Nat,
             provider : Nat, target : Target]

LEMMA GroupRows ==
    ASSUME NEW d \in ValidDrafts, NEW c \in ConfigId, lastId.groups \in Nat,
           NEW N, N = DraftGroups(d, c)
    PROVE  /\ N \subseteq GroupType /\ IsFiniteSet(N) /\ Unique(N)
           /\ \A g \in N : /\ g.config = c /\ g.id > lastId.groups
                           /\ g.id <= lastId.groups + Len(d.groups)
           /\ \A k \in 1 .. Len(d.groups) : Has(N, lastId.groups + k, c)
<1> DEFINE n == Len(d.groups)
           row == [k \in 1 .. n |->
                     [id |-> lastId.groups + k, config |-> c, pos |-> k,
                      name |-> d.groups[k].name]]
<1>1. n \in Nat /\ N = {row[k] : k \in 1 .. n}
  BY DraftTypes DEF DraftGroups
<1>2. IsFiniteSet(N)
  <2>1. DOMAIN row = 1 .. n
    OBVIOUS
  <2> HIDE DEF row, n
  <2> QED BY <1>1, <2>1, Numbered
<1>3. ASSUME NEW k \in 1 .. n
      PROVE  row[k] \in GroupType /\ row[k].id = lastId.groups + k /\ row[k].config = c
  <2>1. d.groups[k].name \in STRING
    BY DraftTypes
  <2>2. k \in Nat /\ lastId.groups + k \in Nat \ {0}
    BY <1>1
  <2> QED BY <2>1, <2>2 DEF GroupType
<1> HIDE DEF row, n
<1>4. \A g \in N : \E k \in 1 .. n : g = row[k]
  BY <1>1
<1>5. Unique(N)
  BY <1>1, <1>3, <1>4 DEF Unique
<1>6. \A k \in 1 .. n : Has(N, lastId.groups + k, c)
  BY <1>1, <1>3 DEF Has
<1>7. \A g \in N : /\ g \in GroupType /\ g.config = c /\ g.id > lastId.groups
                  /\ g.id <= lastId.groups + n
  BY <1>1, <1>3, <1>4
<1> QED BY <1>2, <1>5, <1>6, <1>7 DEF n

LEMMA ProviderRows ==
    ASSUME NEW d \in ValidDrafts, NEW c \in ConfigId, lastId.providers \in Nat,
           NEW N, N = DraftProviders(d, c)
    PROVE  /\ N \subseteq ProviderType /\ IsFiniteSet(N) /\ Unique(N)
           /\ \A p \in N : /\ p.config = c /\ p.id > lastId.providers
                           /\ p.id <= lastId.providers + Len(d.providers)
           /\ \A k \in 1 .. Len(d.providers) : Has(N, lastId.providers + k, c)
<1> DEFINE n == Len(d.providers)
           row == [k \in 1 .. n |->
                     [id |-> lastId.providers + k, config |-> c, name |-> d.providers[k]]]
<1>1. n \in Nat /\ N = {row[k] : k \in 1 .. n}
  BY DraftTypes DEF DraftProviders
<1>2. IsFiniteSet(N)
  <2>1. DOMAIN row = 1 .. n
    OBVIOUS
  <2> HIDE DEF row, n
  <2> QED BY <1>1, <2>1, Numbered
<1>3. ASSUME NEW k \in 1 .. n
      PROVE  row[k] \in ProviderType /\ row[k].id = lastId.providers + k /\ row[k].config = c
  <2>1. d.providers[k] \in STRING
    BY DraftTypes
  <2>2. k \in Nat /\ lastId.providers + k \in Nat \ {0}
    BY <1>1
  <2> QED BY <2>1, <2>2 DEF ProviderType
<1> HIDE DEF row, n
<1>4. \A p \in N : \E k \in 1 .. n : p = row[k]
  BY <1>1
<1>5. Unique(N)
  BY <1>1, <1>3, <1>4 DEF Unique
<1>6. \A k \in 1 .. n : Has(N, lastId.providers + k, c)
  BY <1>1, <1>3 DEF Has
<1>7. \A p \in N : /\ p \in ProviderType /\ p.config = c /\ p.id > lastId.providers
                  /\ p.id <= lastId.providers + n
  BY <1>1, <1>3, <1>4
<1> QED BY <1>2, <1>5, <1>6, <1>7 DEF n

LEMMA MemberRows ==
    ASSUME NEW d \in ValidDrafts, NEW c \in ConfigId, lastId.groups \in Nat
    PROVE  /\ DraftMembers(d) \subseteq MemberType /\ IsFiniteSet(DraftMembers(d))
           /\ \A m \in DraftMembers(d) :
                m.group > lastId.groups /\ MemberWithin(m, DraftGroups(d, c))
           /\ \A m, n \in DraftMembers(d) : m.group = n.group /\ m.pos = n.pos => m = n
<1> DEFINE N == DraftMembers(d)
           K == 1 .. Len(d.groups)
           J(k) == 1 .. Len(d.groups[k].members)
           row(k, j) == [group |-> lastId.groups + k, pos |-> j,
                         ref |-> Resolved(d.groups[k].members[j], lastId.groups)]
           of == [k \in K |-> {row(k, j) : j \in J(k)}]
<1>1. Len(d.groups) \in Nat /\ \A k \in K : Len(d.groups[k].members) \in Nat
  BY DraftTypes
<1>2. N = UNION {of[k] : k \in K}
  <2>1. \A x : x \in N <=> \E k \in DOMAIN d.groups :
                             \E j \in DOMAIN d.groups[k].members : x = row(k, j)
    BY DEF DraftMembers
  <2>2. DOMAIN d.groups = K /\ \A k \in K : DOMAIN d.groups[k].members = J(k)
    BY DraftTypes
  <2> HIDE DEF row, J, K
  <2>3. \A x : x \in N <=> \E k \in K : \E j \in J(k) : x = row(k, j)
    BY <2>1, <2>2
  <2>4. \A x : x \in UNION {of[k] : k \in K} <=> \E k \in K : \E j \in J(k) : x = row(k, j)
    OBVIOUS
  <2> QED BY <2>3, <2>4
<1>3. \A k \in K : IsFiniteSet(of[k])
  <2> SUFFICES ASSUME NEW k \in K PROVE IsFiniteSet(of[k])
    OBVIOUS
  <2> DEFINE f == [j \in J(k) |-> row(k, j)]
  <2>1. IsFiniteSet({f[j] : j \in J(k)})
    BY <1>1, Numbered
  <2>2. {f[j] : j \in J(k)} = of[k]
    OBVIOUS
  <2> QED BY <2>1, <2>2
<1>4. ASSUME NEW k \in K, NEW j \in J(k)
      PROVE  /\ row(k, j) \in MemberType
             /\ row(k, j).group = lastId.groups + k /\ row(k, j).pos = j
             /\ MemberWithin(row(k, j), DraftGroups(d, c))
  <2> DEFINE ref == Resolved(d.groups[k].members[j], lastId.groups)
  <2>0. d.groups[k].members[j] \in Target /\ validateRef(d.groups[k].members[j], Len(d.groups))
    BY DraftTypes
  <2>1. /\ ref \in Target
        /\ ref.kind = "group" => \E i \in K : ref.to = lastId.groups + i
    BY <1>1, <2>0, ResolvedRef
  <2> HIDE DEF ref
  <2>2. row(k, j) \in MemberType
    BY <2>1 DEF MemberType, ref
  <2>3. Within(ref, c, DraftGroups(d, c))
    BY <2>1, GroupRows DEF Within
  <2>4. PICK g \in DraftGroups(d, c) : g.id = lastId.groups + k /\ g.config = c
    BY GroupRows DEF Has
  <2>5. row(k, j).group = lastId.groups + k /\ row(k, j).ref = ref /\ row(k, j).pos = j
    BY DEF ref
  <2> QED BY <2>2, <2>3, <2>4, <2>5 DEF MemberWithin
<1>5. \A m \in N : \E k \in K : \E j \in J(k) : m = row(k, j)
  BY <1>2
<1>6. IsFiniteSet(N)
  <2>1. IsFiniteSet({of[k] : k \in K})
    BY <1>1, Numbered
  <2> QED BY <1>2, <1>3, <2>1, FS_UNION
<1> HIDE DEF N, row, of
<1>7. \A m \in N : m \in MemberType /\ m.group > lastId.groups
                   /\ MemberWithin(m, DraftGroups(d, c))
  BY <1>1, <1>4, <1>5
<1>8. \A m, n \in N : m.group = n.group /\ m.pos = n.pos => m = n
  <2> SUFFICES ASSUME NEW m \in N, NEW n \in N, m.group = n.group, m.pos = n.pos
               PROVE  m = n
    OBVIOUS
  <2>1. PICK k \in K : \E j \in J(k) : m = row(k, j)
    BY <1>5
  <2>2. PICK j \in J(k) : m = row(k, j)
    BY <2>1
  <2>3. PICK l \in K : \E i \in J(l) : n = row(l, i)
    BY <1>5
  <2>4. PICK i \in J(l) : n = row(l, i)
    BY <2>3
  <2>5. lastId.groups + k = lastId.groups + l /\ j = i
    <3>1. row(k, j).group = lastId.groups + k /\ row(k, j).pos = j
      BY <1>4
    <3>2. row(l, i).group = lastId.groups + l /\ row(l, i).pos = i
      BY <1>4
    <3> QED BY <2>2, <2>4, <3>1, <3>2
  <2>6. k = l
    BY <1>1, <2>5
  <2> QED BY <2>2, <2>4, <2>5, <2>6
<1> QED BY <1>6, <1>7, <1>8 DEF N

LEMMA RuleRows ==
    ASSUME NEW d \in ValidDrafts, NEW c \in ConfigId,
           lastId \in [anchors : Nat, groups : Nat, providers : Nat],
           rules \subseteq RuleType, IsFiniteSet(rules),
           NEW N, N = DraftRules(d, c)
    PROVE  /\ N \subseteq RuleType /\ IsFiniteSet(N) /\ Unique(N)
           /\ \A r \in N : /\ r.config = c
                           /\ \A s \in rules \ Of(rules, c) : s.id < r.id
                           /\ RuleWithin(r, DraftGroups(d, c), DraftProviders(d, c), N)
<1> DEFINE Q == DOMAIN d.rules
           rest == rules \ Of(rules, c)
           base == MaxRuleId(rest, c)
           G == DraftGroups(d, c)
           P == DraftProviders(d, c)
           idOf(q) == base + Rank(Q, q)
           parent(q) == IF Len(q) = 1 THEN 0 ELSE idOf(Prefix(q))
           provider(q) == IF d.rules[q].provider = 0 THEN 0
                          ELSE lastId.providers + d.rules[q].provider
           target(q) == Resolved(d.rules[q].target, lastId.groups)
           row == [q \in Q |-> [id |-> idOf(q), config |-> c, parent |-> parent(q),
                                pos |-> q[Len(q)], provider |-> provider(q),
                                target |-> target(q)]]
<1>1. base \in Nat /\ \A s \in rest : s.id \in Nat /\ s.id <= base
  <2>1. IsFiniteSet(rest) /\ rest \subseteq rules
    BY FS_Subset
  <2>2. \A s \in rest : s.id \in Nat
    BY <2>1 DEF RuleType
  <2> HIDE DEF rest
  <2> QED BY <2>1, <2>2, MaxRuleIdBounds
<1>2. lastId.groups \in Nat /\ lastId.providers \in Nat
  OBVIOUS
<1>3. N = {row[q] : q \in Q}
  BY DEF DraftRules
<1>4. IsFiniteSet(Q) /\ Q \in SUBSET Seq(Nat)
  BY DraftTypes
<1>5. IsFiniteSet(N)
  <2>1. DOMAIN row = Q
    OBVIOUS
  <2> HIDE DEF row, Q
  <2> QED BY <1>3, <1>4, <2>1, ImageFinite
<1>6. \A q \in Q : /\ row[q].id = idOf(q) /\ row[q].config = c
                   /\ row[q].parent = parent(q) /\ row[q].pos = q[Len(q)]
                   /\ row[q].provider = provider(q) /\ row[q].target = target(q)
                   /\ row[q] = [id |-> idOf(q), config |-> c, parent |-> parent(q),
                                pos |-> q[Len(q)], provider |-> provider(q),
                                target |-> target(q)]
  OBVIOUS
<1> HIDE DEF row, rest, base
<1>7. \A q \in Q : Rank(Q, q) \in Nat /\ idOf(q) \in Nat \ {0} /\ base < idOf(q)
  <2> SUFFICES ASSUME NEW q \in Q
               PROVE  Rank(Q, q) \in Nat /\ idOf(q) \in Nat \ {0} /\ base < idOf(q)
    OBVIOUS
  <2> HIDE DEF Q
  <2>1. Rank(Q, q) \in Nat \ {0}
    BY <1>4, RankRange
  <2> QED BY <1>1, <2>1
<1>8. ASSUME NEW q \in Q
      PROVE  parent(q) \in Nat /\ (parent(q) # 0 => Has(N, parent(q), c) /\ parent(q) < idOf(q))
  <2>1. CASE Len(q) = 1
    BY <2>1
  <2>2. CASE Len(q) # 1
    <3>1. Len(q) > 1
      <4>1. Len(q) \in Nat \ {0}
        BY DraftTypes
      <4>2. \A n \in Nat \ {0} : n # 1 => n > 1
        OBVIOUS
      <4> QED BY <2>2, <4>1, <4>2
    <3>2. Prefix(q) \in Q /\ parent(q) = idOf(Prefix(q))
      <4>1. Prefix(q) \in Q
        BY <3>1, DraftTypes
      <4> QED BY <2>2, <4>1
    <3>3. Rank(Q, Prefix(q)) < Rank(Q, q)
      <4>1. q \in Seq(Nat)
        BY <1>4
      <4>2. Precedes(Prefix(q), q) /\ Prefix(q) # q
        BY <3>1, <4>1, PrefixPrecedes
      <4> HIDE DEF Q
      <4> QED BY <1>4, <3>2, <4>2, RankGrows
    <3>4. idOf(Prefix(q)) \in Nat /\ idOf(Prefix(q)) < idOf(q)
      BY <1>1, <1>7, <3>2, <3>3
    <3>5. Has(N, idOf(Prefix(q)), c)
      BY <1>3, <1>6, <3>2 DEF Has
    <3> QED BY <3>2, <3>4, <3>5
  <2> QED BY <2>1, <2>2
<1>9. ASSUME NEW q \in Q
      PROVE  /\ provider(q) \in Nat /\ (provider(q) # 0 => Has(P, provider(q), c))
             /\ target(q) \in Target /\ Within(target(q), c, G)
             /\ q[Len(q)] \in Nat
  <2>1. /\ d.rules[q].target \in Target /\ validateRef(d.rules[q].target, Len(d.groups))
        /\ q[Len(q)] \in Nat
    BY DraftTypes
  <2>2. d.rules[q].provider \in 0 .. Len(d.providers) /\ Len(d.providers) \in Nat
    BY DraftTypes
  <2>3. Len(d.groups) \in Nat
    BY DraftTypes
  <2> HIDE DEF Q
  <2>4. provider(q) \in Nat /\ (provider(q) # 0 => Has(P, provider(q), c))
    <3>1. \A k \in 1 .. Len(d.providers) : Has(P, lastId.providers + k, c)
      BY <1>2, ProviderRows
    <3> HIDE DEF P
    <3> QED BY <1>2, <2>2, <3>1
  <2>5. /\ target(q) \in Target
        /\ target(q).kind = "group" =>
             \E k \in 1 .. Len(d.groups) : target(q).to = lastId.groups + k
    <3> DEFINE ref == d.rules[q].target
               n == Len(d.groups)
    <3>1. ref \in Target /\ validateRef(ref, n) /\ n \in Nat
      BY <2>1, <2>3
    <3> HIDE DEF ref, n
    <3>2. /\ Resolved(ref, lastId.groups) \in Target
          /\ Resolved(ref, lastId.groups).kind = "group" =>
               \E k \in 1 .. n : Resolved(ref, lastId.groups).to = lastId.groups + k
      BY <1>2, <3>1, ResolvedRef
    <3> QED BY <3>2 DEF ref, n
  <2>6. Within(target(q), c, G)
    <3>1. \A k \in 1 .. Len(d.groups) : Has(G, lastId.groups + k, c)
      BY <1>2, GroupRows
    <3> HIDE DEF G, target
    <3> QED BY <2>5, <3>1 DEF Within
  <2> QED BY <2>1, <2>4, <2>5, <2>6
<1> HIDE DEF parent, provider, target, G, P, Q
<1>10. \A r \in N : \E q \in Q : r = row[q]
  BY <1>3
<1>11. Unique(N)
  <2> SUFFICES ASSUME NEW p \in Q, NEW q \in Q, row[p].id = row[q].id PROVE p = q
    BY <1>10 DEF Unique
  <2>1. base + Rank(Q, p) = base + Rank(Q, q)
    BY <1>6
  <2>2. Rank(Q, p) = Rank(Q, q)
    BY <1>1, <1>7, <2>1
  <2> QED BY <1>4, <2>2, RankApart
<1>12. ASSUME NEW q \in Q
       PROVE  /\ row[q] \in RuleType
              /\ \A s \in rest : s.id < row[q].id
              /\ RuleWithin(row[q], G, P, N)
  <2>0. idOf(q) \in Nat \ {0} /\ base < idOf(q)
    BY <1>7
  <2> HIDE DEF idOf
  <2>1. row[q] \in RuleType
    <3>1. row[q] = [id |-> idOf(q), config |-> c, parent |-> parent(q), pos |-> q[Len(q)],
                    provider |-> provider(q), target |-> target(q)]
      BY <1>6
    <3>2. /\ parent(q) \in Nat /\ provider(q) \in Nat
          /\ target(q) \in Target /\ q[Len(q)] \in Nat
      BY <1>8, <1>9
    <3> QED BY <2>0, <3>1, <3>2 DEF RuleType
  <2>2. \A s \in rest : s.id < row[q].id
    <3>1. row[q].id = idOf(q)
      BY <1>6
    <3> QED BY <1>1, <2>0, <3>1
  <2>3. RuleWithin(row[q], G, P, N)
    BY <1>6, <1>8, <1>9 DEF RuleWithin
  <2> QED BY <2>1, <2>2, <2>3
<1>13. \A q \in Q : row[q].config = c
  BY <1>6
<1>14. \A r \in N : r \in RuleType /\ r.config = c /\ \A s \in rest : s.id < r.id
  BY <1>10, <1>12, <1>13
<1>15. N \subseteq RuleType
  BY <1>14
<1>16. ASSUME NEW r \in N
       PROVE  /\ r.config = c
              /\ \A s \in rules \ Of(rules, c) : s.id < r.id
              /\ RuleWithin(r, DraftGroups(d, c), DraftProviders(d, c), N)
  <2>1. r.config = c
    BY <1>14
  <2>2. \A s \in rules \ Of(rules, c) : s.id < r.id
    BY <1>14 DEF rest
  <2>3. RuleWithin(r, DraftGroups(d, c), DraftProviders(d, c), N)
    <3>1. RuleWithin(r, G, P, N)
      <4>1. PICK q \in Q : r = row[q]
        BY <1>10
      <4>2. RuleWithin(row[q], G, P, N)
        BY <1>12
      <4> QED BY <4>1, <4>2
    <3>2. G = DraftGroups(d, c) /\ P = DraftProviders(d, c)
      BY DEF G, P
    <3> QED BY <3>1, <3>2
  <2> QED BY <2>1, <2>2, <2>3
<1> QED BY <1>5, <1>11, <1>15, <1>16

-----------------------------------------------------------------------------
(* Writing the content of a config: the rows it had go, new ones come.     *)
(* config_save does it, CloneConfig with a config that had none, and a     *)
(* cascade with no new ones.                                               *)

New(c, G, M, P, R, V) ==
    /\ G \subseteq GroupType /\ IsFiniteSet(G) /\ Unique(G)
    /\ M \subseteq MemberType /\ IsFiniteSet(M)
    /\ P \subseteq ProviderType /\ IsFiniteSet(P) /\ Unique(P)
    /\ R \subseteq RuleType /\ IsFiniteSet(R) /\ Unique(R)
    /\ V \subseteq [config : ConfigId, value : STRING]
    /\ \A g \in G : g.config = c /\ g.id > lastId.groups
    /\ \A m \in M : m.group > lastId.groups /\ MemberWithin(m, G)
    /\ \A m, n \in M : m.group = n.group /\ m.pos = n.pos => m = n
    /\ \A p \in P : p.config = c /\ p.id > lastId.providers
    /\ \A r \in R : /\ r.config = c /\ RuleWithin(r, G, P, R)
                    /\ \A s \in rules \ Of(rules, c) : s.id < r.id
    /\ Reaches({m.ref : m \in M}, inbounds) /\ Reaches({r.target : r \in R}, inbounds)

Replaces(c, G, M, P, R, V) ==
    /\ groups' = (groups \ Of(groups, c)) \cup G
    /\ members' = (members \ MembersOf(c)) \cup M
    /\ providers' = (providers \ Of(providers, c)) \cup P
    /\ rules' = (rules \ Of(rules, c)) \cup R
    /\ values' = (values \ Of(values, c)) \cup V
    /\ inbounds' = inbounds
    /\ \A x \in anchors : x.id # c => x \in anchors'
    /\ (\E x \in anchors' : x.id = c) \/ (G = {} /\ P = {} /\ R = {})

TablesTyped ==
    /\ groups \subseteq GroupType /\ members \subseteq MemberType
    /\ providers \subseteq ProviderType /\ rules \subseteq RuleType
    /\ values \subseteq [config : ConfigId, value : STRING]

LEMMA UniqueUnion ==
    ASSUME NEW K, NEW N, Unique(K), Unique(N), \A r \in K, s \in N : r.id # s.id
    PROVE  Unique(K \cup N)
BY DEF Unique

LEMMA HasKept ==
    ASSUME NEW table, NEW c, NEW id, NEW e, e # c, Has(table, id, e), NEW N
    PROVE  Has((table \ Of(table, c)) \cup N, id, e)
BY DEF Has, Of

LEMMA HasNew ==
    ASSUME NEW K, NEW N, NEW id, NEW c, Has(N, id, c)
    PROVE  Has(K \cup N, id, c)
BY DEF Has

LEMMA Typed ==
    ASSUME TypeOK PROVE TablesTyped
BY DEF TypeOK, TablesTyped, GroupType, MemberType, ProviderType, RuleType

LEMMA ReplacedTables ==
    ASSUME IInv, NEW c, NEW G, NEW M, NEW P, NEW R, NEW V,
           New(c, G, M, P, R, V), Replaces(c, G, M, P, R, V)
    PROVE  TablesTyped' /\ Finite'
<1>1. TablesTyped /\ Finite
  BY Typed DEF IInv
<1>2. TablesTyped'
  BY <1>1 DEF TablesTyped, New, Replaces
<1>3. Finite'
  <2>1. /\ IsFiniteSet(groups \ Of(groups, c)) /\ IsFiniteSet(members \ MembersOf(c))
        /\ IsFiniteSet(providers \ Of(providers, c)) /\ IsFiniteSet(rules \ Of(rules, c))
    BY <1>1, FS_Difference DEF Finite
  <2>2. IsFiniteSet(G) /\ IsFiniteSet(M) /\ IsFiniteSet(P) /\ IsFiniteSet(R)
    BY DEF New
  <2>3. /\ IsFiniteSet((groups \ Of(groups, c)) \cup G)
        /\ IsFiniteSet((members \ MembersOf(c)) \cup M)
        /\ IsFiniteSet((providers \ Of(providers, c)) \cup P)
        /\ IsFiniteSet((rules \ Of(rules, c)) \cup R)
    BY <2>1, <2>2, FS_Union
  <2> QED BY <2>3 DEF Finite, Replaces
<1> QED BY <1>2, <1>3

(* A member belongs to a group that was issued an id. *)
LEMMA MemberIssued ==
    ASSUME IInv, NEW m \in members
    PROVE  m.group \in Nat /\ m.group <= lastId.groups
BY DEF IInv, Refs, MemberWithin, Issued, TypeOK

LEMMA ReplacedRows ==
    ASSUME IInv, NEW c, NEW G, NEW M, NEW P, NEW R, NEW V,
           New(c, G, M, P, R, V), Replaces(c, G, M, P, R, V)
    PROVE  Rows'
<1>1. /\ \A g \in groups : g.id \in Nat /\ g.id <= lastId.groups
      /\ \A p \in providers : p.id \in Nat /\ p.id <= lastId.providers
      /\ lastId.groups \in Nat /\ lastId.providers \in Nat
  BY DEF IInv, Issued, TypeOK
<1>2. /\ \A g \in G : g.id \in Nat /\ g.id > lastId.groups
      /\ \A p \in P : p.id \in Nat /\ p.id > lastId.providers
      /\ \A r \in R : \A s \in rules \ Of(rules, c) : s.id < r.id
  BY DEF New, GroupType, ProviderType
<1>3. Unique(groups')
  <2>1. Unique(groups \ Of(groups, c)) /\ Unique(G)
    BY DEF IInv, Rows, New, Unique
  <2>2. \A r \in groups \ Of(groups, c), s \in G : r.id # s.id
    BY <1>1, <1>2
  <2> QED BY <2>1, <2>2, UniqueUnion DEF Replaces
<1>4. Unique(providers')
  <2>1. Unique(providers \ Of(providers, c)) /\ Unique(P)
    BY DEF IInv, Rows, New, Unique
  <2>2. \A r \in providers \ Of(providers, c), s \in P : r.id # s.id
    BY <1>1, <1>2
  <2> QED BY <2>1, <2>2, UniqueUnion DEF Replaces
<1>5. Unique(rules')
  <2>1. Unique(rules \ Of(rules, c)) /\ Unique(R)
    BY DEF IInv, Rows, New, Unique
  <2>2. \A r \in rules \ Of(rules, c), s \in R : r.id # s.id
    <3>1. \A r \in rules : r.id \in Nat
      BY DEF IInv, TypeOK
    <3>2. \A s \in R : s.id \in Nat
      BY DEF New, RuleType
    <3> QED BY <1>2, <3>1, <3>2
  <2> QED BY <2>1, <2>2, UniqueUnion DEF Replaces
<1>6. Anchored(groups', anchors') /\ Anchored(providers', anchors') /\ Anchored(rules', anchors')
  <2>1. /\ Anchored(groups, anchors) /\ Anchored(providers, anchors)
        /\ Anchored(rules, anchors)
    BY DEF IInv, Rows
  <2>2. ASSUME NEW table, NEW N, Anchored(table, anchors), \A r \in N : r.config = c,
               (\E x \in anchors' : x.id = c) \/ N = {}
        PROVE  Anchored((table \ Of(table, c)) \cup N, anchors')
    BY <2>2 DEF Anchored, Of, Replaces
  <2>3. /\ \A g \in G : g.config = c
        /\ \A p \in P : p.config = c
        /\ \A r \in R : r.config = c
    BY DEF New
  <2> QED BY <2>1, <2>2, <2>3 DEF Replaces
<1>7. \A m, n \in members' : m.group = n.group /\ m.pos = n.pos => m = n
  <2>1. \A m \in members : m.group \in Nat /\ m.group <= lastId.groups
    BY MemberIssued
  <2>2. \A m \in M : m.group \in Nat /\ m.group > lastId.groups
    BY DEF New, MemberType
  <2>3. /\ \A m, n \in members : m.group = n.group /\ m.pos = n.pos => m = n
        /\ \A m, n \in M : m.group = n.group /\ m.pos = n.pos => m = n
    BY DEF IInv, Rows, New
  <2>4. members' \subseteq members \cup M
    BY DEF Replaces
  <2>5. \A m \in members, n \in M : m.group # n.group
    BY <1>1, <2>1, <2>2
  <2> QED BY <2>3, <2>4, <2>5
<1> QED BY <1>3, <1>4, <1>5, <1>6, <1>7 DEF Rows

LEMMA ReplacedRefs ==
    ASSUME IInv, NEW c, NEW G, NEW M, NEW P, NEW R, NEW V,
           New(c, G, M, P, R, V), Replaces(c, G, M, P, R, V)
    PROVE  Refs'
<1>1. ASSUME NEW ref, NEW e, e # c, Within(ref, e, groups) PROVE Within(ref, e, groups')
  BY <1>1, HasKept DEF Within, Replaces
<1>2. ASSUME NEW ref, Within(ref, c, G) PROVE Within(ref, c, groups')
  BY <1>2, HasNew DEF Within, Replaces
<1>3. ASSUME NEW r \in rules' PROVE RuleWithin(r, groups', providers', rules')
  <2>1. CASE r \in R
    <3>1. RuleWithin(r, G, P, R) /\ r.config = c
      BY <2>1 DEF New
    <3> QED BY <1>2, <3>1, HasNew DEF RuleWithin, Replaces
  <2>2. CASE r \in rules \ Of(rules, c)
    <3>1. RuleWithin(r, groups, providers, rules) /\ r.config # c
      BY <2>2 DEF IInv, Refs, Of
    <3> QED BY <1>1, <3>1, HasKept DEF RuleWithin, Replaces
  <2> QED BY <2>1, <2>2 DEF Replaces
<1>4. ASSUME NEW m \in members' PROVE MemberWithin(m, groups')
  <2>1. CASE m \in M
    <3>1. PICK g \in G : g.id = m.group /\ Within(m.ref, g.config, G)
      BY <2>1 DEF New, MemberWithin
    <3>2. g.config = c /\ g \in groups'
      BY DEF New, Replaces
    <3> QED BY <1>2, <3>1, <3>2 DEF MemberWithin
  <2>2. CASE m \in members \ MembersOf(c)
    <3>1. PICK g \in groups : g.id = m.group /\ Within(m.ref, g.config, groups)
      BY <2>2 DEF IInv, Refs, MemberWithin
    <3>2. g.config # c /\ g \in groups'
      BY <2>2, <3>1 DEF MembersOf, Of, Replaces
    <3> QED BY <1>1, <3>1, <3>2 DEF MemberWithin
  <2> QED BY <2>1, <2>2 DEF Replaces
<1>5. Reaches({m.ref : m \in members'}, inbounds')
      /\ Reaches({r.target : r \in rules'}, inbounds')
  BY DEF IInv, Refs, Reaches, New, Replaces
<1> QED BY <1>3, <1>4, <1>5 DEF Refs

-----------------------------------------------------------------------------
(* SaveMihomoConfig. *)

LEMMA DraftIsNew ==
    ASSUME IInv, NEW d \in ValidDrafts, NEW c \in ConfigId,
           InboundsIn(DraftMembers(d), DraftRules(d, c)) \subseteq inbounds
    PROVE  New(c, DraftGroups(d, c), DraftMembers(d), DraftProviders(d, c),
               DraftRules(d, c), {[config |-> c, value |-> d.value]})
<1> DEFINE G == DraftGroups(d, c)
           M == DraftMembers(d)
           P == DraftProviders(d, c)
           R == DraftRules(d, c)
<1>0. /\ lastId \in [anchors : Nat, groups : Nat, providers : Nat]
      /\ lastId.groups \in Nat /\ lastId.providers \in Nat
      /\ rules \subseteq RuleType /\ IsFiniteSet(rules)
  BY Typed DEF IInv, Issued, TablesTyped, Finite
<1>1. /\ G \subseteq GroupType /\ IsFiniteSet(G) /\ Unique(G)
      /\ \A g \in G : g.config = c /\ g.id > lastId.groups
  BY <1>0, GroupRows
<1>2. /\ M \subseteq MemberType /\ IsFiniteSet(M)
      /\ \A m \in M : m.group > lastId.groups /\ MemberWithin(m, G)
      /\ \A m, n \in M : m.group = n.group /\ m.pos = n.pos => m = n
  BY <1>0, MemberRows
<1>3. /\ P \subseteq ProviderType /\ IsFiniteSet(P) /\ Unique(P)
      /\ \A p \in P : p.config = c /\ p.id > lastId.providers
  BY <1>0, ProviderRows
<1>4. /\ R \subseteq RuleType /\ IsFiniteSet(R) /\ Unique(R)
      /\ \A r \in R : /\ r.config = c /\ RuleWithin(r, G, P, R)
                      /\ \A s \in rules \ Of(rules, c) : s.id < r.id
  BY <1>0, RuleRows
<1>5. d.value \in STRING
  BY DraftTypes
<1>6. Reaches({m.ref : m \in M}, inbounds) /\ Reaches({r.target : r \in R}, inbounds)
  BY DEF Reaches, InboundsIn
<1>7. {[config |-> c, value |-> d.value]} \subseteq [config : ConfigId, value : STRING]
  BY <1>5
<1> QED BY <1>1, <1>2, <1>3, <1>4, <1>6, <1>7 DEF New

-----------------------------------------------------------------------------
(* CloneConfig: copies keep the order of the originals, so references are  *)
(* mapped one to one. *)

LEMMA CopyIds ==
    ASSUME NEW table, IsFiniteSet(table), \A r \in table : r.id \in Nat,
           NEW c, NEW base \in Nat, NEW r \in Of(table, c)
    PROVE  /\ CopyOf(table, c, base, r.id) \in Nat \ {0}
           /\ base < CopyOf(table, c, base, r.id)
           /\ Cardinality(Of(table, c)) \in Nat
           /\ CopyOf(table, c, base, r.id) <= base + Cardinality(Of(table, c))
           /\ \A s \in Of(table, c) :
                /\ CopyOf(table, c, base, r.id) = CopyOf(table, c, base, s.id) => r.id = s.id
                /\ r.id < s.id => CopyOf(table, c, base, r.id) < CopyOf(table, c, base, s.id)
<1> DEFINE T == Of(table, c)
           ids == {x.id : x \in T}
<1>1. IsFiniteSet(T) /\ \A s \in T : s.id \in Nat
  <2>1. T \in SUBSET table
    BY DEF Of
  <2> QED BY <2>1, FS_Subset
<1> HIDE DEF T
<1>2. IsFiniteSet(ids) /\ Cardinality(ids) <= Cardinality(T) /\ Cardinality(T) \in Nat
  BY <1>1, IdsFinite, FS_CardinalityType
<1>3. ids \in SUBSET Nat /\ \A s \in T : s.id \in ids
  BY <1>1
<1>4. r \in T
  BY DEF T
<1>5. \A s \in T : CopyOf(table, c, base, s.id) = base + Place(ids, s.id)
  BY DEF CopyOf, T
<1> HIDE DEF ids
<1>6. \A s \in T : /\ Place(ids, s.id) \in Nat /\ 1 <= Place(ids, s.id)
                   /\ Place(ids, s.id) <= Cardinality(T)
  <2> SUFFICES ASSUME NEW s \in T
               PROVE  /\ Place(ids, s.id) \in Nat /\ 1 <= Place(ids, s.id)
                      /\ Place(ids, s.id) <= Cardinality(T)
    OBVIOUS
  <2>1. s.id \in ids
    BY <1>3
  <2>2. /\ Cardinality(ids) \in Nat /\ Place(ids, s.id) \in Nat
        /\ 1 <= Place(ids, s.id) /\ Place(ids, s.id) <= Cardinality(ids)
    BY <1>2, <1>3, <2>1, PlaceRange
  <2> QED BY <1>2, <2>2
<1>7. ASSUME NEW s \in T
      PROVE  /\ CopyOf(table, c, base, r.id) = CopyOf(table, c, base, s.id) => r.id = s.id
             /\ r.id < s.id => CopyOf(table, c, base, r.id) < CopyOf(table, c, base, s.id)
  <2>1. r.id \in ids /\ s.id \in ids
    BY <1>3, <1>4
  <2>2. /\ Place(ids, r.id) = Place(ids, s.id) => r.id = s.id
        /\ r.id < s.id => Place(ids, r.id) < Place(ids, s.id)
    <3>1. \A x, y \in ids : Place(ids, x) = Place(ids, y) => x = y
      BY <1>2, <1>3, PlaceApart
    <3>2. \A x, y \in ids : x < y => Place(ids, x) < Place(ids, y)
      BY <1>2, <1>3, PlaceGrows
    <3> QED BY <2>1, <3>1, <3>2
  <2>3. Place(ids, r.id) \in Nat /\ Place(ids, s.id) \in Nat
    BY <1>4, <1>6
  <2>4. /\ CopyOf(table, c, base, r.id) = base + Place(ids, r.id)
        /\ CopyOf(table, c, base, s.id) = base + Place(ids, s.id)
    BY <1>4, <1>5
  <2> QED BY <2>2, <2>3, <2>4
<1>8. /\ CopyOf(table, c, base, r.id) \in Nat \ {0}
      /\ base < CopyOf(table, c, base, r.id)
      /\ CopyOf(table, c, base, r.id) <= base + Cardinality(T)
  BY <1>2, <1>4, <1>5, <1>6
<1> QED BY <1>2, <1>7, <1>8 DEF T

ClonedGroups(src, dst) ==
    {[g EXCEPT !.id = CopyOf(groups, src, lastId.groups, @), !.config = dst]
        : g \in Of(groups, src)}
ClonedMembers(src) ==
    {[m EXCEPT !.group = CopyOf(groups, src, lastId.groups, @), !.ref = Remap(@, src)]
        : m \in MembersOf(src)}
ClonedRules(src, dst) ==
    {[r EXCEPT !.id = CopyOf(rules, src, MaxRuleId(rules, src), @),
               !.config = dst,
               !.parent = CopiedParent(r, src),
               !.provider = IF @ = 0 THEN 0
                            ELSE CopyOf(providers, src, lastId.providers, @),
               !.target = Remap(@, src)] : r \in Of(rules, src)}

LEMMA ClonedGroupRows ==
    ASSUME IInv, NEW src, NEW dst \in ConfigId,
           NEW N, N = ClonedGroups(src, dst)
    PROVE  /\ N \subseteq GroupType /\ IsFiniteSet(N) /\ Unique(N)
           /\ \A g \in N : /\ g.config = dst /\ g.id > lastId.groups
                           /\ g.id <= lastId.groups + Cardinality(Of(groups, src))
           /\ \A g \in Of(groups, src) :
                Has(N, CopyOf(groups, src, lastId.groups, g.id), dst)
<1> DEFINE T == Of(groups, src)
           base == lastId.groups
           copy(id) == CopyOf(groups, src, base, id)
           row == [g \in T |-> [g EXCEPT !.id = copy(@), !.config = dst]]
<1>1. /\ IsFiniteSet(groups) /\ base \in Nat /\ groups \subseteq GroupType
      /\ T \in SUBSET groups /\ \A g \in groups : g.id \in Nat
  BY Typed DEF IInv, Issued, Finite, TablesTyped, Of, GroupType
<1>2. ASSUME NEW g \in T
      PROVE  /\ copy(g.id) \in Nat \ {0} /\ base < copy(g.id)
             /\ copy(g.id) <= base + Cardinality(T)
  BY <1>1, CopyIds
<1>3. ASSUME NEW g \in T, NEW h \in T, copy(g.id) = copy(h.id) PROVE g = h
  <2>1. g.id = h.id
    BY <1>1, <1>3, CopyIds
  <2> QED BY <1>1, <2>1 DEF IInv, Rows, Unique
<1>4. N = {row[g] : g \in T}
  BY DEF ClonedGroups
<1>5. IsFiniteSet(N)
  <2>1. DOMAIN row = T /\ IsFiniteSet(T)
    BY <1>1, FS_Subset
  <2> HIDE DEF row, T
  <2> QED BY <1>4, <2>1, ImageFinite
<1>6. ASSUME NEW g \in T
      PROVE  /\ row[g] = [id |-> copy(g.id), config |-> dst, pos |-> g.pos, name |-> g.name]
             /\ g \in GroupType
  <2>1. g \in GroupType
    BY <1>1
  <2> HIDE DEF copy
  <2> QED BY <2>1 DEF GroupType
<1> HIDE DEF row, copy, T
<1>7. \A g \in N : \E h \in T : g = row[h]
  BY <1>4
<1>8. ASSUME NEW g \in T
      PROVE  row[g] \in GroupType /\ row[g].id = copy(g.id) /\ row[g].config = dst
  <2>1. row[g] = [id |-> copy(g.id), config |-> dst, pos |-> g.pos, name |-> g.name]
    BY <1>6
  <2>2. g.pos \in Nat /\ g.name \in STRING
    BY <1>6 DEF GroupType
  <2>3. copy(g.id) \in Nat \ {0}
    BY <1>2
  <2> QED BY <2>1, <2>2, <2>3 DEF GroupType
<1>9. Unique(N)
  BY <1>3, <1>7, <1>8 DEF Unique
<1>10. \A g \in N : /\ g \in GroupType /\ g.config = dst /\ g.id > base
                    /\ g.id <= base + Cardinality(T)
  <2> SUFFICES ASSUME NEW g \in T
               PROVE  /\ row[g] \in GroupType /\ row[g].config = dst /\ row[g].id > base
                      /\ row[g].id <= base + Cardinality(T)
    BY <1>7
  <2> QED BY <1>1, <1>2, <1>8
<1>11. \A g \in T : Has(N, copy(g.id), dst)
  BY <1>4, <1>8 DEF Has
<1> QED BY <1>5, <1>9, <1>10, <1>11 DEF copy, T

LEMMA ClonedProviderRows ==
    ASSUME IInv, NEW src, NEW dst \in ConfigId,
           NEW N, N = ClonedProviders(src, dst)
    PROVE  /\ N \subseteq ProviderType /\ IsFiniteSet(N) /\ Unique(N)
           /\ \A p \in N : /\ p.config = dst /\ p.id > lastId.providers
                           /\ p.id <= lastId.providers + Cardinality(Of(providers, src))
           /\ \A p \in Of(providers, src) :
                /\ CopyOf(providers, src, lastId.providers, p.id) \in Nat
                /\ Has(N, CopyOf(providers, src, lastId.providers, p.id), dst)
<1> DEFINE T == Of(providers, src)
           base == lastId.providers
           copy(id) == CopyOf(providers, src, base, id)
           row == [p \in T |-> [p EXCEPT !.id = copy(@), !.config = dst]]
<1>1. /\ IsFiniteSet(providers) /\ base \in Nat /\ providers \subseteq ProviderType
      /\ T \in SUBSET providers /\ \A p \in providers : p.id \in Nat
  BY Typed DEF IInv, Issued, Finite, TablesTyped, Of, ProviderType
<1>2. ASSUME NEW p \in T
      PROVE  /\ copy(p.id) \in Nat \ {0} /\ base < copy(p.id)
             /\ copy(p.id) <= base + Cardinality(T)
  BY <1>1, CopyIds
<1>3. ASSUME NEW p \in T, NEW h \in T, copy(p.id) = copy(h.id) PROVE p = h
  <2>1. p.id = h.id
    BY <1>1, <1>3, CopyIds
  <2> QED BY <1>1, <2>1 DEF IInv, Rows, Unique
<1>4. N = {row[p] : p \in T}
  BY DEF ClonedProviders
<1>5. IsFiniteSet(N)
  <2>1. DOMAIN row = T /\ IsFiniteSet(T)
    BY <1>1, FS_Subset
  <2> HIDE DEF row, T
  <2> QED BY <1>4, <2>1, ImageFinite
<1>6. ASSUME NEW p \in T
      PROVE  /\ row[p] = [id |-> copy(p.id), config |-> dst, name |-> p.name]
             /\ p \in ProviderType
  <2>1. p \in ProviderType
    BY <1>1
  <2> HIDE DEF copy
  <2> QED BY <2>1 DEF ProviderType
<1> HIDE DEF row, copy, T
<1>7. \A p \in N : \E h \in T : p = row[h]
  BY <1>4
<1>8. ASSUME NEW p \in T
      PROVE  row[p] \in ProviderType /\ row[p].id = copy(p.id) /\ row[p].config = dst
  <2>1. row[p] = [id |-> copy(p.id), config |-> dst, name |-> p.name]
    BY <1>6
  <2>2. p.name \in STRING
    BY <1>6 DEF ProviderType
  <2>3. copy(p.id) \in Nat \ {0}
    BY <1>2
  <2> QED BY <2>1, <2>2, <2>3 DEF ProviderType
<1>9. Unique(N)
  BY <1>3, <1>7, <1>8 DEF Unique
<1>10. \A p \in N : /\ p \in ProviderType /\ p.config = dst /\ p.id > base
                    /\ p.id <= base + Cardinality(T)
  <2> SUFFICES ASSUME NEW p \in T
               PROVE  /\ row[p] \in ProviderType /\ row[p].config = dst /\ row[p].id > base
                      /\ row[p].id <= base + Cardinality(T)
    BY <1>7
  <2> QED BY <1>1, <1>2, <1>8
<1>11. \A p \in T : copy(p.id) \in Nat /\ Has(N, copy(p.id), dst)
  BY <1>2, <1>4, <1>8 DEF Has
<1> QED BY <1>5, <1>9, <1>10, <1>11 DEF copy, T

LEMMA Remapped ==
    ASSUME IInv, NEW src, NEW dst \in ConfigId, NEW ref \in Target, Within(ref, src, groups)
    PROVE  /\ Remap(ref, src) \in Target
           /\ Within(Remap(ref, src), dst, ClonedGroups(src, dst))
           /\ Remap(ref, src).kind = "inbound" => Remap(ref, src) = ref
<1>1. CASE ref.kind = "group"
  <2> DEFINE id == CopyOf(groups, src, lastId.groups, ref.to)
  <2>1. PICK g \in Of(groups, src) : g.id = ref.to
    BY <1>1 DEF Within, Has, Of
  <2>2. id \in Nat
    <3>1. IsFiniteSet(groups) /\ lastId.groups \in Nat /\ \A h \in groups : h.id \in Nat
      BY DEF IInv, Issued, Finite, TypeOK
    <3> QED BY <2>1, <3>1, CopyIds
  <2>3. Has(ClonedGroups(src, dst), id, dst)
    BY <2>1, ClonedGroupRows
  <2> HIDE DEF id
  <2>4. Remap(ref, src) = [kind |-> "group", to |-> id]
    BY <1>1 DEF Remap, Ref, id
  <2> QED BY <2>2, <2>3, <2>4 DEF Within, Target, TargetOf, PolicyOf
<1>2. CASE ref.kind # "group"
  BY <1>2 DEF Remap, Within
<1> QED BY <1>1, <1>2

LEMMA ClonedMemberRows ==
    ASSUME IInv, NEW src, NEW dst \in ConfigId
    PROVE  /\ ClonedMembers(src) \subseteq MemberType /\ IsFiniteSet(ClonedMembers(src))
           /\ \A m \in ClonedMembers(src) :
                m.group > lastId.groups /\ MemberWithin(m, ClonedGroups(src, dst))
           /\ \A m, n \in ClonedMembers(src) : m.group = n.group /\ m.pos = n.pos => m = n
           /\ Reaches({m.ref : m \in ClonedMembers(src)}, inbounds)
<1> DEFINE N == ClonedMembers(src)
           T == MembersOf(src)
           base == lastId.groups
           copy(id) == CopyOf(groups, src, base, id)
           row == [m \in T |-> [m EXCEPT !.group = copy(@), !.ref = Remap(@, src)]]
           G == ClonedGroups(src, dst)
<1>1. /\ IsFiniteSet(groups) /\ IsFiniteSet(members) /\ base \in Nat
      /\ members \subseteq MemberType /\ \A g \in groups : g.id \in Nat
      /\ T \in SUBSET members
  BY Typed DEF IInv, Issued, Finite, TablesTyped, MembersOf, GroupType
<1>2. ASSUME NEW m \in T
      PROVE  /\ \E g \in Of(groups, src) : g.id = m.group
             /\ Within(m.ref, src, groups)
  <2>1. PICK g \in Of(groups, src) : g.id = m.group
    BY DEF MembersOf
  <2>2. PICK h \in groups : h.id = m.group /\ Within(m.ref, h.config, groups)
    BY DEF MembersOf, IInv, Refs, MemberWithin
  <2>3. h = g /\ g.config = src
    BY <2>1, <2>2 DEF IInv, Rows, Unique, Of
  <2> QED BY <2>1, <2>2, <2>3
<1>3. ASSUME NEW m \in T
      PROVE  copy(m.group) \in Nat /\ base < copy(m.group) /\ Has(G, copy(m.group), dst)
  <2>1. PICK g \in Of(groups, src) : g.id = m.group
    BY <1>2
  <2>2. copy(g.id) \in Nat /\ base < copy(g.id)
    BY <1>1, CopyIds
  <2>3. Has(G, copy(g.id), dst)
    BY ClonedGroupRows
  <2> QED BY <2>1, <2>2, <2>3
<1>4. ASSUME NEW m \in T, NEW n \in T, copy(m.group) = copy(n.group) PROVE m.group = n.group
  <2>1. PICK g \in Of(groups, src) : g.id = m.group
    BY <1>2
  <2>2. PICK h \in Of(groups, src) : h.id = n.group
    BY <1>2
  <2> QED BY <1>1, <1>4, <2>1, <2>2, CopyIds
<1>5. N = {row[m] : m \in T}
  BY DEF ClonedMembers
<1>6. IsFiniteSet(N)
  <2>1. DOMAIN row = T /\ IsFiniteSet(T)
    BY <1>1, FS_Subset
  <2> HIDE DEF row, T, N
  <2> QED BY <1>5, <2>1, ImageFinite
<1>7. ASSUME NEW m \in T
      PROVE  /\ row[m] = [group |-> copy(m.group), pos |-> m.pos, ref |-> Remap(m.ref, src)]
             /\ m \in MemberType
  <2>1. m \in MemberType
    BY <1>1
  <2> HIDE DEF copy
  <2> QED BY <2>1 DEF MemberType
<1> HIDE DEF row, copy, T, G, N
<1>8. \A m \in N : \E n \in T : m = row[n]
  BY <1>5
<1>9. ASSUME NEW m \in T
      PROVE  /\ row[m].group = copy(m.group) /\ row[m].pos = m.pos
             /\ row[m].ref = Remap(m.ref, src)
  <2>1. row[m] = [group |-> copy(m.group), pos |-> m.pos, ref |-> Remap(m.ref, src)]
    BY <1>7
  <2> QED BY <2>1
<1>10. ASSUME NEW m \in T
       PROVE  /\ Remap(m.ref, src) \in Target /\ Within(Remap(m.ref, src), dst, G)
              /\ Remap(m.ref, src).kind = "inbound" => Remap(m.ref, src) = m.ref
  <2>1. m.ref \in Target
    BY <1>7 DEF MemberType
  <2>2. Within(m.ref, src, groups)
    BY <1>2
  <2> QED BY <2>1, <2>2, Remapped DEF G
<1>11. ASSUME NEW m \in T
       PROVE  /\ row[m] \in MemberType /\ row[m].group > base /\ MemberWithin(row[m], G)
  <2>1. row[m] \in MemberType
    <3>1. m.pos \in Nat /\ copy(m.group) \in Nat /\ Remap(m.ref, src) \in Target
      BY <1>3, <1>7, <1>10 DEF MemberType
    <3>2. row[m] = [group |-> copy(m.group), pos |-> m.pos, ref |-> Remap(m.ref, src)]
      BY <1>7
    <3> QED BY <3>1, <3>2 DEF MemberType
  <2>2. row[m].group > base
    BY <1>1, <1>3, <1>9
  <2>3. MemberWithin(row[m], G)
    <3>1. PICK g \in G : g.id = copy(m.group) /\ g.config = dst
      BY <1>3 DEF Has
    <3>2. Within(Remap(m.ref, src), dst, G)
      BY <1>10
    <3> QED BY <1>9, <3>1, <3>2 DEF MemberWithin
  <2> QED BY <2>1, <2>2, <2>3
<1>12. \A m, n \in N : m.group = n.group /\ m.pos = n.pos => m = n
  <2> SUFFICES ASSUME NEW m \in T, NEW n \in T,
                      row[m].group = row[n].group, row[m].pos = row[n].pos
               PROVE  m = n
    BY <1>8
  <2>1. m.group = n.group /\ m.pos = n.pos
    BY <1>4, <1>9
  <2>2. m \in members /\ n \in members
    BY <1>1
  <2> QED BY <2>1, <2>2 DEF IInv, Rows
<1>13. Reaches({m.ref : m \in N}, inbounds)
  <2> SUFFICES ASSUME NEW m \in T, row[m].ref.kind = "inbound" PROVE row[m].ref.to \in inbounds
    BY <1>8 DEF Reaches
  <2>1. row[m].ref = m.ref /\ m \in members
    BY <1>1, <1>9, <1>10
  <2> QED BY <2>1 DEF IInv, Refs, Reaches
<1>14. ASSUME NEW m \in N PROVE m \in MemberType /\ m.group > base /\ MemberWithin(m, G)
  <2>1. PICK n \in T : m = row[n]
    BY <1>8
  <2> QED BY <1>11, <2>1
<1>15. N \subseteq MemberType /\ \A m \in N : m.group > base /\ MemberWithin(m, G)
  BY <1>14
<1> QED BY <1>6, <1>12, <1>13, <1>15 DEF N, G

LEMMA ClonedRuleRows ==
    ASSUME IInv, NEW src, NEW dst \in ConfigId,
           NEW N, N = ClonedRules(src, dst)
    PROVE  /\ N \subseteq RuleType /\ IsFiniteSet(N) /\ Unique(N)
           /\ \A r \in N : /\ r.config = dst
                           /\ \A s \in rules : s.id < r.id
                           /\ RuleWithin(r, ClonedGroups(src, dst),
                                         ClonedProviders(src, dst), N)
           /\ Reaches({r.target : r \in N}, inbounds)
<1> DEFINE T == Of(rules, src)
           base == MaxRuleId(rules, src)
           G == ClonedGroups(src, dst)
           P == ClonedProviders(src, dst)
           copy(id) == CopyOf(rules, src, base, id)
           parent(r) == CopiedParent(r, src)
           provider(r) == IF r.provider = 0 THEN 0
                          ELSE CopyOf(providers, src, lastId.providers, r.provider)
           target(r) == Remap(r.target, src)
           row == [r \in T |->
                     [r EXCEPT !.id = copy(@), !.config = dst, !.parent = parent(r),
                               !.provider = IF @ = 0 THEN 0
                                   ELSE CopyOf(providers, src, lastId.providers, @),
                               !.target = Remap(@, src)]]
<1>1. /\ IsFiniteSet(rules) /\ rules \subseteq RuleType
      /\ T \in SUBSET rules /\ \A r \in rules : r.id \in Nat
      /\ \A r \in T : r.config = src
  BY Typed DEF IInv, Finite, TablesTyped, Of, RuleType
<1>2. base \in Nat /\ \A s \in rules : s.id <= base
  BY <1>1, MaxRuleIdBounds
<1>3. N = {row[r] : r \in T}
  BY DEF ClonedRules
<1>4. IsFiniteSet(N)
  <2>1. DOMAIN row = T /\ IsFiniteSet(T)
    BY <1>1, FS_Subset
  <2> HIDE DEF row, T
  <2> QED BY <1>3, <2>1, ImageFinite
<1>5. ASSUME NEW r \in T
      PROVE  row[r] = [id |-> copy(r.id), config |-> dst, parent |-> parent(r),
                       pos |-> r.pos, provider |-> provider(r), target |-> target(r)]
  <2>1. r \in RuleType
    BY <1>1
  <2> HIDE DEF copy, parent
  <2> QED BY <2>1 DEF RuleType
<1> HIDE DEF row, base
<1>6. ASSUME NEW r \in T
      PROVE  /\ row[r].id = copy(r.id) /\ row[r].config = dst /\ row[r].parent = parent(r)
             /\ row[r].pos = r.pos /\ row[r].provider = provider(r)
             /\ row[r].target = target(r)
  <2>1. row[r] = [id |-> copy(r.id), config |-> dst, parent |-> parent(r),
                  pos |-> r.pos, provider |-> provider(r), target |-> target(r)]
    BY <1>5
  <2> HIDE DEF copy, parent, provider, target
  <2> QED BY <2>1
<1>7. ASSUME NEW r \in T
      PROVE  copy(r.id) \in Nat \ {0} /\ \A s \in rules : s.id < copy(r.id)
  <2>1. copy(r.id) \in Nat \ {0} /\ base < copy(r.id)
    BY <1>1, <1>2, CopyIds
  <2> HIDE DEF copy
  <2> QED BY <1>1, <1>2, <2>1
<1>8. ASSUME NEW r \in T, NEW s \in T, copy(r.id) = copy(s.id) PROVE r = s
  <2>1. r.id = s.id
    BY <1>1, <1>2, <1>8, CopyIds
  <2> QED BY <1>1, <2>1 DEF IInv, Rows, Unique
<1>9. ASSUME NEW r \in T
      PROVE  RuleWithin(r, groups, providers, rules) /\ r.config = src
  BY <1>1 DEF IInv, Refs
<1>10. ASSUME NEW r \in T
       PROVE  parent(r) \in Nat /\ (parent(r) # 0 => Has(N, parent(r), dst)
                                                   /\ parent(r) < copy(r.id))
  <2>1. CASE r.parent = 0
    BY <2>1 DEF CopiedParent
  <2>2. CASE r.parent # 0
    <3>1. PICK s \in T : s.id = r.parent
      BY <1>9, <2>2 DEF RuleWithin, Has, Of
    <3>2. s.id < r.id
      BY <1>9, <2>2, <3>1 DEF RuleWithin
    <3>3. parent(r) = copy(s.id)
      BY <2>2, <3>1 DEF CopiedParent, base
    <3>4. copy(s.id) < copy(r.id)
      BY <1>1, <1>2, <3>2, CopyIds
    <3>5. Has(N, copy(s.id), dst)
      BY <1>3, <1>6 DEF Has
    <3>6. copy(s.id) \in Nat
      BY <1>7
    <3> QED BY <3>3, <3>4, <3>5, <3>6
  <2> QED BY <2>1, <2>2
<1>11. ASSUME NEW r \in T
       PROVE  provider(r) \in Nat /\ (provider(r) # 0 => Has(P, provider(r), dst))
  <2>1. CASE r.provider = 0
    BY <2>1
  <2>2. CASE r.provider # 0
    <3>1. PICK p \in Of(providers, src) : p.id = r.provider
      BY <1>9, <2>2 DEF RuleWithin, Has, Of
    <3>2. /\ CopyOf(providers, src, lastId.providers, p.id) \in Nat
          /\ Has(P, CopyOf(providers, src, lastId.providers, p.id), dst)
      BY ClonedProviderRows
    <3> QED BY <2>2, <3>1, <3>2
  <2> QED BY <2>1, <2>2
<1>12. ASSUME NEW r \in T
       PROVE  /\ target(r) \in Target /\ Within(target(r), dst, G)
              /\ target(r).kind = "inbound" => target(r) = r.target
  <2>1. r.target \in Target
    BY <1>1 DEF RuleType
  <2>2. Within(r.target, src, groups)
    BY <1>9 DEF RuleWithin
  <2> QED BY <2>1, <2>2, Remapped
<1> HIDE DEF copy, parent, provider, target, T, G, P
<1>13. \A r \in N : \E s \in T : r = row[s]
  BY <1>3
<1>14. Unique(N)
  <2> SUFFICES ASSUME NEW r \in T, NEW s \in T, row[r].id = row[s].id PROVE r = s
    BY <1>13 DEF Unique
  <2> QED BY <1>6, <1>8
<1>15. ASSUME NEW r \in N
       PROVE  /\ r \in RuleType /\ r.config = dst
              /\ \A s \in rules : s.id < r.id
              /\ RuleWithin(r, G, P, N)
  <2>1. PICK t \in T : r = row[t]
    BY <1>13
  <2>2. r \in RuleType
    <3>1. r = [id |-> copy(t.id), config |-> dst, parent |-> parent(t),
               pos |-> t.pos, provider |-> provider(t), target |-> target(t)]
      BY <1>5, <2>1
    <3>2. t.pos \in Nat
      BY <1>1 DEF RuleType
    <3>3. /\ copy(t.id) \in Nat \ {0} /\ parent(t) \in Nat
          /\ provider(t) \in Nat /\ target(t) \in Target
      BY <1>7, <1>10, <1>11, <1>12
    <3> QED BY <3>1, <3>2, <3>3 DEF RuleType
  <2>3. r.config = dst /\ r.id = copy(t.id)
    BY <1>6, <2>1
  <2>4. \A s \in rules : s.id < r.id
    BY <1>7, <2>3
  <2>5. RuleWithin(r, G, P, N)
    <3>1. Within(r.target, dst, G)
      BY <1>6, <1>12, <2>1
    <3>2. r.provider # 0 => Has(P, r.provider, dst)
      BY <1>6, <1>11, <2>1
    <3>3. r.parent # 0 => Has(N, r.parent, dst) /\ r.parent < r.id
      BY <1>6, <1>10, <2>1
    <3> QED BY <2>3, <3>1, <3>2, <3>3 DEF RuleWithin
  <2> QED BY <2>2, <2>3, <2>4, <2>5
<1>16. Reaches({r.target : r \in N}, inbounds)
  <2> SUFFICES ASSUME NEW r \in T, row[r].target.kind = "inbound"
               PROVE  row[r].target.to \in inbounds
    BY <1>13 DEF Reaches
  <2>1. row[r].target = r.target /\ r \in rules
    BY <1>1, <1>6, <1>12
  <2> QED BY <2>1 DEF IInv, Refs, Reaches
<1>17. N \subseteq RuleType
  BY <1>15
<1>18. ASSUME NEW r \in N
       PROVE  /\ r.config = dst
              /\ \A s \in rules : s.id < r.id
              /\ RuleWithin(r, ClonedGroups(src, dst), ClonedProviders(src, dst), N)
  BY <1>15 DEF G, P
<1> QED BY <1>4, <1>14, <1>16, <1>17, <1>18

LEMMA CloneIsNew ==
    ASSUME IInv, NEW src, NEW dst \in ConfigId
    PROVE  New(dst, ClonedGroups(src, dst), ClonedMembers(src), ClonedProviders(src, dst),
               ClonedRules(src, dst), ClonedValues(src, dst))
<1> DEFINE G == ClonedGroups(src, dst)
           M == ClonedMembers(src)
           P == ClonedProviders(src, dst)
           R == ClonedRules(src, dst)
<1>1. /\ G \subseteq GroupType /\ IsFiniteSet(G) /\ Unique(G)
      /\ \A g \in G : g.config = dst /\ g.id > lastId.groups
  BY ClonedGroupRows
<1>2. /\ M \subseteq MemberType /\ IsFiniteSet(M)
      /\ \A m \in M : m.group > lastId.groups /\ MemberWithin(m, G)
      /\ \A m, n \in M : m.group = n.group /\ m.pos = n.pos => m = n
      /\ Reaches({m.ref : m \in M}, inbounds)
  BY ClonedMemberRows
<1>3. /\ P \subseteq ProviderType /\ IsFiniteSet(P) /\ Unique(P)
      /\ \A p \in P : p.config = dst /\ p.id > lastId.providers
  BY ClonedProviderRows
<1>4. /\ R \subseteq RuleType /\ IsFiniteSet(R) /\ Unique(R)
      /\ \A r \in R : /\ r.config = dst /\ RuleWithin(r, G, P, R)
                      /\ \A s \in rules : s.id < r.id
      /\ Reaches({r.target : r \in R}, inbounds)
  BY ClonedRuleRows
<1>5. ClonedValues(src, dst) \subseteq [config : ConfigId, value : STRING]
  BY DEF ClonedValues, Of, IInv, TypeOK
<1> QED BY <1>1, <1>2, <1>3, <1>4, <1>5 DEF New

-----------------------------------------------------------------------------
(* What is not content: the anchors, and the requests at them. *)

Framed ==
    /\ users \subseteq User
    /\ anchors \subseteq [id : ConfigId, owner : Owner]
    /\ inbounds \subseteq Inbound
    /\ req \in [Admin -> Request \cup {Idle}]
    /\ writes \in 0 .. MaxWrites

LEMMA TypeParts == TypeOK <=> TablesTyped /\ Framed
BY DEF TypeOK, TablesTyped, Framed, GroupType, MemberType, ProviderType, RuleType

OwnedBy(a) ==
    /\ req[a] # Idle => req[a].draft \in ValidDrafts
    /\ req[a].pc = "save" =>
         /\ req[a].config <= lastId.anchors
         /\ \A x \in anchors : x.id = req[a].config => x.owner = req[a].owner

(* Anchors only go, or come with an id above all that a request may hold.  *)
LEMMA OwnedKept ==
    ASSUME IInv, NEW a \in Admin, req'[a] \in {req[a], Idle},
           lastId'.anchors \in Nat, lastId'.anchors >= lastId.anchors,
           \A x \in anchors' : x \in anchors \/ x.id > lastId.anchors
    PROVE  OwnedBy(a)'
<1>1. CASE req'[a] = Idle
  BY <1>1 DEF OwnedBy, Idle
<1>2. CASE req'[a] = req[a]
  <2>1. OwnedBy(a) /\ lastId.anchors \in Nat
    BY DEF IInv, Owned, OwnedBy, Issued
  <2>2. ASSUME req[a].pc = "save"
        PROVE  /\ req[a].config <= lastId'.anchors
               /\ \A x \in anchors' : x.id = req[a].config => x.owner = req[a].owner
    <3>1. req[a].config \in Nat
      <4>1. req[a] \in Request
        BY <2>2 DEF IInv, TypeOK, Idle
      <4> QED BY <4>1, StoreAssumption DEF Request, StoreAssumption
    <3>2. req[a].config <= lastId.anchors
      BY <2>1, <2>2 DEF OwnedBy
    <3>3. ASSUME NEW x \in anchors', x.id = req[a].config PROVE x \in anchors
      BY <2>1, <3>1, <3>2, <3>3
    <3>4. \A x \in anchors : x.id = req[a].config => x.owner = req[a].owner
      BY <2>1, <2>2 DEF OwnedBy
    <3> QED BY <2>1, <3>1, <3>2, <3>3, <3>4
  <2> QED BY <1>2, <2>1, <2>2 DEF OwnedBy
<1> QED BY <1>1, <1>2

LEMMA SameTables ==
    ASSUME IInv, UNCHANGED tables, inbounds' = inbounds, anchors \subseteq anchors'
    PROVE  Rows' /\ Refs' /\ Finite' /\ TablesTyped'
<1>1. Rows'
  BY DEF IInv, Rows, Anchored, tables
<1>2. Refs'
  BY DEF IInv, Refs, tables
<1>3. Finite'
  BY DEF IInv, Finite, tables
<1>4. TablesTyped'
  BY Typed DEF IInv, TablesTyped, tables
<1> QED BY <1>1, <1>2, <1>3, <1>4

(* A config is made for an owner who has none. *)
LEMMA AnchorMade ==
    ASSUME IInv, NEW o \in Owner, ConfigsOf(o) = {}, lastId.anchors < MaxConfigs,
           anchors' = anchors \cup {[id |-> lastId.anchors + 1, owner |-> o]},
           lastId'.anchors = lastId.anchors + 1,
           o = Base \/ lastId.anchors + 1 < MaxConfigs \/ \E y \in anchors : y.owner = Base
    PROVE  /\ Anchors' /\ anchors' \subseteq [id : ConfigId, owner : Owner]
           /\ lastId'.anchors \in Nat /\ lastId'.anchors >= lastId.anchors
           /\ \A x \in anchors' : x.id <= lastId'.anchors
           /\ \A x \in anchors' : x \in anchors \/ x.id > lastId.anchors
<1> DEFINE new == [id |-> lastId.anchors + 1, owner |-> o]
<1>1. /\ lastId.anchors \in Nat /\ MaxConfigs \in Nat
      /\ anchors \subseteq [id : ConfigId, owner : Owner]
      /\ \A x \in anchors : x.id \in Nat /\ x.id <= lastId.anchors
  BY StoreAssumption DEF IInv, TypeOK, Issued, StoreAssumption, ConfigId
<1>2. new \in [id : ConfigId, owner : Owner] /\ new.id = lastId.anchors + 1 /\ new.owner = o
  BY <1>1 DEF ConfigId
<1>3. \A x \in anchors : x.owner # o
  BY DEF ConfigsOf
<1>4. anchors' = anchors \cup {new}
  OBVIOUS
<1> HIDE DEF new
<1>5. Unique(anchors')
  BY <1>1, <1>2, <1>4 DEF IInv, Anchors, Unique
<1>6. \A x, y \in anchors' : x.owner = y.owner => x = y
  BY <1>2, <1>3, <1>4 DEF IInv, Anchors
<1>7. (\A x \in anchors' : x.owner # Base) => lastId'.anchors < MaxConfigs
  BY <1>2, <1>4
<1>8. Anchors'
  BY <1>1, <1>5, <1>6, <1>7 DEF Anchors
<1>9. \A x \in anchors' : x.id <= lastId'.anchors
  BY <1>1, <1>2, <1>4
<1>10. \A x \in anchors' : x \in anchors \/ x.id > lastId.anchors
  BY <1>1, <1>2, <1>4
<1>11. anchors' \subseteq [id : ConfigId, owner : Owner]
  BY <1>1, <1>2, <1>4
<1> QED BY <1>1, <1>8, <1>9, <1>10, <1>11

LEMMA InitKeeps == Init => IInv
<1> SUFFICES ASSUME Init PROVE IInv
  OBVIOUS
<1> USE DEF Init
<1>1. TypeOK
  BY StoreAssumption DEF TypeOK, StoreAssumption
<1>2. Rows
  BY DEF Rows, Unique, Anchored
<1>3. Refs
  BY DEF Refs, Reaches
<1>4. Anchors
  BY StoreAssumption DEF Anchors, Unique, StoreAssumption
<1>5. Issued
  BY DEF Issued
<1>6. Finite
  BY FS_EmptySet DEF Finite
<1>7. Owned
  BY DEF Owned, Idle
<1> QED BY <1>1, <1>2, <1>3, <1>4, <1>5, <1>6, <1>7 DEF IInv

-----------------------------------------------------------------------------
(* One lemma per action. *)

LEMMA Assemble ==
    ASSUME Rows', Refs', Finite', TablesTyped', Framed', Anchors', Issued',
           \A a \in Admin : OwnedBy(a)'
    PROVE  IInv'
<1>1. TypeOK'
  BY TypeParts, PTL
<1>2. Owned'
  BY DEF Owned, OwnedBy
<1> QED BY <1>1, <1>2 DEF IInv

LEMMA SubmitKeeps ==
    ASSUME IInv, NEW a \in Admin, Submit(a)
    PROVE  IInv'
<1>1. Rows' /\ Refs' /\ Finite' /\ TablesTyped'
  BY SameTables DEF Submit
<1>2. PICK o \in Owner, d \in ValidDrafts :
        req' = [req EXCEPT ![a] = [pc |-> "resolve", owner |-> o, draft |-> d, config |-> 0]]
  BY DEF Submit, SetReq
<1>3. Framed /\ Anchors /\ Issued /\ req \in [Admin -> Request \cup {Idle}]
  BY TypeParts DEF IInv, Framed
<1>4. [pc |-> "resolve", owner |-> o, draft |-> d, config |-> 0] \in Request
  BY StoreAssumption DEF Request, ValidDrafts, StoreAssumption
<1>5. Framed'
  <2>1. writes \in 0 .. MaxWrites /\ writes < MaxWrites /\ writes' = writes + 1
    BY <1>3 DEF Framed, Submit
  <2>2. writes' \in 0 .. MaxWrites
    BY <2>1, StoreAssumption DEF StoreAssumption
  <2>3. req' \in [Admin -> Request \cup {Idle}]
    BY <1>2, <1>3, <1>4
  <2> QED BY <1>3, <2>2, <2>3 DEF Framed, Submit
<1>6. Anchors' /\ Issued'
  BY <1>3 DEF Anchors, Issued, Submit, tables
<1>7. ASSUME NEW b \in Admin PROVE OwnedBy(b)'
  <2>1. CASE b = a
    <3>1. req'[a] = [pc |-> "resolve", owner |-> o, draft |-> d, config |-> 0]
      BY <1>2, <1>3
    <3> QED BY <2>1, <3>1 DEF OwnedBy
  <2>2. CASE b # a
    <3>1. req'[b] = req[b]
      BY <1>2, <1>3, <2>2
    <3>2. OwnedBy(b)
      BY DEF IInv, Owned, OwnedBy
    <3> QED BY <3>1, <3>2 DEF OwnedBy, Submit
  <2> QED BY <2>1, <2>2
<1> QED BY <1>1, <1>5, <1>6, <1>7, Assemble

LEMMA EnsureBaseKeeps ==
    ASSUME IInv, NEW a \in Admin, EnsureBase(a)
    PROVE  IInv'
<1>1. Rows' /\ Refs' /\ Finite' /\ TablesTyped'
  BY SameTables DEF EnsureBase
<1>2. Framed /\ Anchors /\ Issued /\ req \in [Admin -> Request \cup {Idle}]
  BY TypeParts DEF IInv, Framed
<1>3. /\ Anchors' /\ Issued' /\ anchors' \subseteq [id : ConfigId, owner : Owner]
      /\ lastId'.anchors \in Nat /\ lastId'.anchors >= lastId.anchors
      /\ \A x \in anchors' : x \in anchors \/ x.id > lastId.anchors
  <2>1. CASE ConfigsOf(Base) = {}
    <3>1. lastId.anchors < MaxConfigs
      BY <1>2, <2>1 DEF Anchors, ConfigsOf
    <3>2. /\ anchors' = anchors \cup {[id |-> lastId.anchors + 1, owner |-> Base]}
          /\ lastId' = [lastId EXCEPT !.anchors = @ + 1]
      BY <2>1 DEF EnsureBase
    <3>3. lastId'.anchors = lastId.anchors + 1
      BY <1>2, <3>2 DEF Issued
    <3>4. Base \in Owner
      BY DEF Owner
    <3>5. /\ Anchors' /\ anchors' \subseteq [id : ConfigId, owner : Owner]
          /\ lastId'.anchors \in Nat /\ lastId'.anchors >= lastId.anchors
          /\ \A x \in anchors' : x.id <= lastId'.anchors
          /\ \A x \in anchors' : x \in anchors \/ x.id > lastId.anchors
      BY <2>1, <3>1, <3>2, <3>3, <3>4, AnchorMade
    <3>6. /\ lastId' \in [anchors : Nat, groups : Nat, providers : Nat]
          /\ lastId'.groups = lastId.groups /\ lastId'.providers = lastId.providers
      BY <1>2, <3>2 DEF Issued
    <3>7. Issued'
      BY <1>2, <3>5, <3>6 DEF Issued, EnsureBase, tables
    <3> QED BY <3>5, <3>7
  <2>2. CASE ConfigsOf(Base) # {}
    <3>1. UNCHANGED <<anchors, lastId>>
      BY <2>2 DEF EnsureBase
    <3> QED BY <1>2, <3>1 DEF Anchors, Issued, Framed, EnsureBase, tables
  <2> QED BY <2>1, <2>2
<1>4. req[a] \in Request /\ req' = [req EXCEPT ![a] = [req[a] EXCEPT !.pc = "ensured"]]
  BY <1>2 DEF EnsureBase, SetReq, Idle
<1>5. Framed'
  <2>1. req' \in [Admin -> Request \cup {Idle}]
    BY <1>2, <1>4 DEF Request
  <2> QED BY <1>2, <1>3, <2>1 DEF Framed, EnsureBase
<1>6. ASSUME NEW b \in Admin PROVE OwnedBy(b)'
  <2>1. CASE b = a
    <3>1. req'[a].pc = "ensured" /\ req'[a].draft = req[a].draft
      BY <1>2, <1>4 DEF Request
    <3>2. req[a].draft \in ValidDrafts
      BY DEF IInv, Owned, EnsureBase, Idle
    <3> QED BY <2>1, <3>1, <3>2 DEF OwnedBy
  <2>2. CASE b # a
    <3>1. req'[b] = req[b]
      BY <1>2, <1>4, <2>2
    <3> QED BY <1>3, <3>1, OwnedKept
  <2> QED BY <2>1, <2>2
<1> QED BY <1>1, <1>3, <1>5, <1>6, Assemble

LEMMA ResolveConfigKeeps ==
    ASSUME IInv, NEW a \in Admin, ResolveConfig(a)
    PROVE  IInv'
<1>0. /\ UNCHANGED <<users, anchors, tables, inbounds, lastId, writes>>
      /\ req[a].pc \in {"resolve", "ensured"}
  BY DEF ResolveConfig
<1>1. Rows' /\ Refs' /\ Finite' /\ TablesTyped'
  BY <1>0, SameTables
<1>2. Framed /\ Anchors /\ Issued /\ req \in [Admin -> Request \cup {Idle}]
  BY TypeParts DEF IInv, Framed
<1>3. Anchors' /\ Issued'
  BY <1>0, <1>2 DEF Anchors, Issued, tables
<1>4. \/ req' = [req EXCEPT ![a] = Idle]
      \/ \E c \in ConfigsOf(req[a].owner) :
           req' = [req EXCEPT ![a] = [req[a] EXCEPT !.pc = "save", !.config = c]]
  BY DEF ResolveConfig, SetReq, Done
<1>5. lastId'.anchors \in Nat /\ lastId'.anchors >= lastId.anchors /\ anchors' = anchors
  <2>1. lastId.anchors \in Nat /\ lastId' = lastId /\ anchors' = anchors
    BY <1>0, <1>2 DEF Issued
  <2> QED BY <2>1
<1>6. CASE req' = [req EXCEPT ![a] = Idle]
  <2>1. Framed'
    BY <1>0, <1>2, <1>6 DEF Framed
  <2>2. \A b \in Admin : req'[b] \in {req[b], Idle}
    BY <1>2, <1>6
  <2>3. \A b \in Admin : OwnedBy(b)'
    BY <1>5, <2>2, OwnedKept
  <2> QED BY <1>1, <1>3, <2>1, <2>3, Assemble
<1>7. ASSUME NEW c \in ConfigsOf(req[a].owner),
             req' = [req EXCEPT ![a] = [req[a] EXCEPT !.pc = "save", !.config = c]]
      PROVE  IInv'
  <2>1. req[a] \in Request
    BY <1>0, <1>2 DEF Idle
  <2>2. PICK x \in anchors : x.id = c /\ x.owner = req[a].owner
    BY <1>7 DEF ConfigsOf
  <2>3. c \in ConfigId /\ c <= lastId.anchors
    BY <1>2, <2>2 DEF Framed, Issued
  <2>4. Framed'
    <3>1. c \in 0 .. MaxConfigs
      BY <2>3, StoreAssumption DEF ConfigId, StoreAssumption
    <3>2. req' \in [Admin -> Request \cup {Idle}]
      BY <1>2, <1>7, <2>1, <3>1 DEF Request
    <3> QED BY <1>0, <1>2, <3>2 DEF Framed
  <2>5. ASSUME NEW b \in Admin PROVE OwnedBy(b)'
    <3>1. CASE b = a
      <4>1. /\ req'[a].draft = req[a].draft /\ req'[a].config = c
            /\ req'[a].owner = req[a].owner
        BY <1>2, <1>7, <2>1 DEF Request
      <4>2. req[a].draft \in ValidDrafts
        BY <1>0 DEF IInv, Owned, Idle
      <4>3. \A y \in anchors : y.id = c => y.owner = req[a].owner
        BY <1>2, <2>2 DEF Anchors, Unique
      <4> QED BY <1>0, <2>3, <3>1, <4>1, <4>2, <4>3 DEF OwnedBy
    <3>2. CASE b # a
      <4>1. req'[b] = req[b]
        BY <1>2, <1>7, <3>2
      <4> QED BY <1>5, <4>1, OwnedKept
    <3> QED BY <3>1, <3>2
  <2> QED BY <1>1, <1>3, <2>4, <2>5, Assemble
<1> QED BY <1>4, <1>6, <1>7

LEMMA IdsAdvance ==
    ASSUME NEW ids \in [anchors : Nat, groups : Nat, providers : Nat],
           NEW m \in Nat, NEW n \in Nat,
           NEW next, next = [ids EXCEPT !.groups = @ + m, !.providers = @ + n]
    PROVE  /\ next \in [anchors : Nat, groups : Nat, providers : Nat]
           /\ next.anchors = ids.anchors
           /\ next.groups = ids.groups + m /\ next.providers = ids.providers + n
           /\ ids.groups \in Nat /\ ids.providers \in Nat
<1>1. ids.anchors \in Nat /\ ids.groups \in Nat /\ ids.providers \in Nat
  OBVIOUS
<1>2. next = [anchors |-> ids.anchors, groups |-> ids.groups + m,
              providers |-> ids.providers + n]
  OBVIOUS
<1> QED BY <1>1, <1>2

LEMMA SaveMihomoConfigKeeps ==
    ASSUME IInv, NEW a \in Admin, SaveMihomoConfig(a)
    PROVE  IInv'
<1> DEFINE d == req[a].draft
           c == req[a].config
           stores == /\ \E r \in anchors : r.id = c
                     /\ ~NamesTwice(d)
                     /\ InboundsIn(DraftMembers(d), DraftRules(d, c)) \subseteq inbounds
<1>1. /\ req[a].pc = "save" /\ req' = [req EXCEPT ![a] = Idle]
      /\ UNCHANGED <<users, anchors, inbounds, writes>>
  BY DEF SaveMihomoConfig, Done, SetReq
<1>2. Framed /\ Anchors /\ Issued /\ req \in [Admin -> Request \cup {Idle}]
  BY TypeParts DEF IInv, Framed
<1>3. Framed'
  BY <1>1, <1>2 DEF Framed
<1>4. d \in ValidDrafts
  BY <1>1 DEF IInv, Owned, Idle
<1>5. /\ Rows' /\ Refs' /\ Finite' /\ TablesTyped' /\ Issued'
      /\ lastId'.anchors = lastId.anchors
  <2>1. CASE stores
    <3>1. /\ groups' = (groups \ Of(groups, c)) \cup DraftGroups(d, c)
          /\ members' = (members \ Cleared(c)) \cup DraftMembers(d)
          /\ providers' = (providers \ Of(providers, c)) \cup DraftProviders(d, c)
          /\ rules' = (rules \ Of(rules, c)) \cup DraftRules(d, c)
          /\ values' = (values \ Of(values, c)) \cup {[config |-> c, value |-> d.value]}
          /\ lastId' = [lastId EXCEPT !.groups = @ + Len(d.groups),
                                      !.providers = @ + Len(d.providers)]
      BY <2>1 DEF SaveMihomoConfig
    <3>2. c \in ConfigId
      BY <1>2, <2>1 DEF Framed
    <3> DEFINE G == DraftGroups(d, c)
               M == DraftMembers(d)
               P == DraftProviders(d, c)
               R == DraftRules(d, c)
               V == {[config |-> c, value |-> d.value]}
    <3>3. New(c, G, M, P, R, V)
      BY <1>4, <2>1, <3>2, DraftIsNew
    <3>4. Replaces(c, G, M, P, R, V)
      BY <1>1, <2>1, <3>1 DEF Replaces, Cleared
    <3>5. Rows' /\ Refs' /\ Finite' /\ TablesTyped'
      <4> HIDE DEF G, M, P, R, V, c
      <4> QED BY <3>3, <3>4, ReplacedRows, ReplacedRefs, ReplacedTables
    <3>6. Issued' /\ lastId'.anchors = lastId.anchors
      <4>1. Len(d.groups) \in Nat /\ Len(d.providers) \in Nat
        BY <1>4, DraftTypes
      <4>2. /\ lastId' \in [anchors : Nat, groups : Nat, providers : Nat]
            /\ lastId'.anchors = lastId.anchors
            /\ lastId'.groups = lastId.groups + Len(d.groups)
            /\ lastId'.providers = lastId.providers + Len(d.providers)
            /\ lastId.groups \in Nat /\ lastId.providers \in Nat
        <5>1. lastId \in [anchors : Nat, groups : Nat, providers : Nat]
          BY <1>2 DEF Issued
        <5>2. lastId' = [lastId EXCEPT !.groups = @ + Len(d.groups),
                                       !.providers = @ + Len(d.providers)]
          BY <3>1
        <5> HIDE DEF d
        <5> QED BY <4>1, <5>1, <5>2, IdsAdvance
      <4>3. /\ \A g \in G : g.id <= lastId'.groups
            /\ \A p \in P : p.id <= lastId'.providers
        BY <1>4, <3>2, <4>2, GroupRows, ProviderRows
      <4>4. /\ \A g \in groups : g.id \in Nat /\ g.id <= lastId.groups
            /\ \A p \in providers : p.id \in Nat /\ p.id <= lastId.providers
            /\ \A x \in anchors : x.id <= lastId.anchors
        BY <1>2 DEF Issued, IInv, TypeOK
      <4>5. /\ \A g \in groups : g.id <= lastId'.groups
            /\ \A p \in providers : p.id <= lastId'.providers
        <5> DEFINE m == Len(d.groups)
                   n == Len(d.providers)
        <5>1. /\ m \in Nat /\ n \in Nat
              /\ lastId'.groups = lastId.groups + m /\ lastId'.providers = lastId.providers + n
          BY <4>1, <4>2
        <5> HIDE DEF m, n
        <5> QED BY <4>2, <4>4, <5>1
      <4> HIDE DEF G, P, c
      <4>6. groups' \subseteq groups \cup G /\ providers' \subseteq providers \cup P
        BY <3>1 DEF G, P
      <4>7. /\ \A g \in groups' : g.id <= lastId'.groups
            /\ \A p \in providers' : p.id <= lastId'.providers
        BY <4>3, <4>5, <4>6
      <4>8. \A x \in anchors' : x.id <= lastId'.anchors
        BY <1>1, <4>2, <4>4
      <4> QED BY <4>2, <4>7, <4>8 DEF Issued
    <3> QED BY <3>5, <3>6
  <2>2. CASE ~stores
    <3>1. UNCHANGED <<tables, lastId>>
      BY <2>2 DEF SaveMihomoConfig
    <3>2. Rows' /\ Refs' /\ Finite' /\ TablesTyped'
      BY <1>1, <3>1, SameTables
    <3>3. Issued'
      BY <1>1, <1>2, <3>1 DEF Issued, tables
    <3> QED BY <3>1, <3>2, <3>3
  <2> QED BY <2>1, <2>2
<1>6. Anchors'
  BY <1>1, <1>2, <1>5 DEF Anchors, Unique
<1>7. ASSUME NEW b \in Admin PROVE OwnedBy(b)'
  <2>1. req'[b] \in {req[b], Idle}
    BY <1>1, <1>2
  <2>2. lastId.anchors \in Nat
    BY <1>2 DEF Issued
  <2>3. lastId'.anchors \in Nat /\ lastId'.anchors >= lastId.anchors
    BY <1>5, <2>2
  <2> QED BY <1>1, <2>1, <2>3, OwnedKept
<1> QED BY <1>3, <1>5, <1>6, <1>7, Assemble

(* The config that a cascade takes away is a user's. *)
LEMMA CascadeKeeps ==
    ASSUME IInv, NEW u \in User, NEW c \in ConfigsOf(u), Cascade(c),
           UNCHANGED <<inbounds, lastId, req, writes>>, users' \subseteq users
    PROVE  IInv'
<1>1. Framed /\ Anchors /\ Issued
  BY TypeParts DEF IInv
<1>2. /\ anchors' = {r \in anchors : r.id # c}
      /\ groups' = groups \ Of(groups, c)
      /\ members' = members \ MembersOf(c)
      /\ providers' = providers \ Of(providers, c)
      /\ rules' = rules \ Of(rules, c)
      /\ values' = values \ Of(values, c)
  BY DEF Cascade
<1>3. New(c, {}, {}, {}, {}, {})
  BY FS_EmptySet DEF New, Unique, Reaches
<1>4. Replaces(c, {}, {}, {}, {}, {})
  BY <1>2 DEF Replaces
<1>5. Rows' /\ Refs' /\ Finite' /\ TablesTyped'
  BY <1>3, <1>4, ReplacedRows, ReplacedRefs, ReplacedTables
<1>6. Framed'
  BY <1>1, <1>2 DEF Framed
<1>7. Anchors'
  <2>1. PICK x \in anchors : x.id = c /\ x.owner = u
    BY DEF ConfigsOf
  <2>2. u # Base
    BY StoreAssumption DEF StoreAssumption
  <2>3. \A y \in anchors : y.owner = Base => y \in anchors'
    BY <1>1, <1>2, <2>1, <2>2 DEF Anchors, Unique
  <2>4. anchors' \subseteq anchors /\ lastId' = lastId
    BY <1>2
  <2> QED BY <1>1, <2>3, <2>4 DEF Anchors, Unique
<1>8. Issued'
  BY <1>1, <1>2 DEF Issued
<1>9. ASSUME NEW b \in Admin PROVE OwnedBy(b)'
  <2>1. lastId.anchors \in Nat /\ lastId' = lastId /\ anchors' \subseteq anchors
    BY <1>1, <1>2 DEF Issued
  <2>2. lastId'.anchors \in Nat /\ lastId'.anchors >= lastId.anchors
    BY <2>1
  <2> QED BY <2>1, <2>2, OwnedKept
<1> QED BY <1>5, <1>6, <1>7, <1>8, <1>9, Assemble

LEMMA DeleteUserConfigKeeps ==
    ASSUME IInv, NEW u \in User, DeleteUserConfig(u)
    PROVE  IInv'
<1>1. PICK c \in ConfigsOf(u) : Cascade(c)
  BY DEF DeleteUserConfig
<1> QED BY <1>1, CascadeKeeps DEF DeleteUserConfig

(* Steps that leave the configs and the requests alone. *)
LEMMA FrameKeeps ==
    ASSUME IInv, UNCHANGED <<anchors, tables, lastId, req, writes>>,
           inbounds' = inbounds, users' \subseteq users
    PROVE  IInv'
<1>1. Framed /\ Anchors /\ Issued
  BY TypeParts DEF IInv
<1>2. Rows' /\ Refs' /\ Finite' /\ TablesTyped'
  BY SameTables
<1>3. Framed'
  BY <1>1 DEF Framed
<1>4. Anchors' /\ Issued'
  BY <1>1 DEF Anchors, Issued, tables
<1>5. \A b \in Admin : OwnedBy(b)'
  BY DEF IInv, Owned, OwnedBy
<1> QED BY <1>2, <1>3, <1>4, <1>5, Assemble

LEMMA DeleteUserKeeps ==
    ASSUME IInv, NEW u \in User, DeleteUser(u)
    PROVE  IInv'
<1>1. users' \subseteq users /\ UNCHANGED <<inbounds, lastId, req, writes>>
  BY DEF DeleteUser
<1>2. CASE ConfigsOf(u) = {}
  <2>1. UNCHANGED <<anchors, tables>>
    BY <1>2 DEF DeleteUser
  <2> QED BY <1>1, <2>1, FrameKeeps
<1>3. CASE ConfigsOf(u) # {}
  <2>1. PICK c \in ConfigsOf(u) : Cascade(c)
    BY <1>3 DEF DeleteUser
  <2> QED BY <1>1, <2>1, CascadeKeeps
<1> QED BY <1>2, <1>3

LEMMA DropInboundKeeps ==
    ASSUME IInv, NEW i \in Inbound, DropInbound(i)
    PROVE  IInv'
<1>1. Framed /\ Anchors /\ Issued /\ Rows /\ Refs /\ Finite /\ TablesTyped
  BY TypeParts DEF IInv
<1>2. /\ UNCHANGED <<users, anchors, tables, lastId, req, writes>>
      /\ inbounds' = inbounds \ {i} /\ i \notin InboundsIn(members, rules)
  BY DEF DropInbound
<1>3. Rows' /\ Finite' /\ TablesTyped'
  BY <1>1, <1>2 DEF Rows, Finite, TablesTyped, tables
<1>4. Refs'
  <2>1. Reaches({m.ref : m \in members}, inbounds') /\ Reaches({r.target : r \in rules}, inbounds')
    BY <1>1, <1>2 DEF Refs, Reaches, InboundsIn
  <2> QED BY <1>1, <1>2, <2>1 DEF Refs, tables
<1>5. Framed' /\ Anchors' /\ Issued'
  BY <1>1, <1>2 DEF Framed, Anchors, Issued, tables
<1>6. \A b \in Admin : OwnedBy(b)'
  BY <1>2 DEF IInv, Owned, OwnedBy
<1> QED BY <1>3, <1>4, <1>5, <1>6, Assemble

LEMMA CreateUserConfigKeeps ==
    ASSUME IInv, NEW u \in User, CreateUserConfig(u)
    PROVE  IInv'
<1> DEFINE c == lastId.anchors + 1
<1>1. /\ writes < MaxWrites /\ writes' = writes + 1
      /\ Cardinality(ConfigsOf(Base)) + MaxConfigs > lastId.anchors + 1
      /\ ConfigsOf(u) = {}
      /\ anchors' = anchors \cup {[id |-> c, owner |-> u]}
      /\ UNCHANGED <<users, inbounds, req>>
  BY DEF CreateUserConfig, NextConfig
<1>2. Framed /\ Anchors /\ Issued /\ u \in Owner /\ lastId.anchors \in Nat
  BY TypeParts DEF IInv, Issued, Owner
<1>3. \/ ConfigsOf(Base) = {} /\ Cardinality(ConfigsOf(Base)) = 0
      \/ (\E y \in anchors : y.owner = Base) /\ Cardinality(ConfigsOf(Base)) = 1
  <2>1. CASE ConfigsOf(Base) = {}
    BY <2>1, FS_EmptySet
  <2>2. CASE ConfigsOf(Base) # {}
    <3>1. PICK y \in anchors : y.owner = Base
      BY <2>2 DEF ConfigsOf
    <3>2. ConfigsOf(Base) = {y.id}
      BY <1>2, <3>1 DEF ConfigsOf, Anchors
    <3>3. Cardinality({y.id}) = 1
      BY FS_Singleton
    <3> QED BY <3>1, <3>2, <3>3
  <2> QED BY <2>1, <2>2
<1>4. /\ lastId.anchors < MaxConfigs
      /\ lastId.anchors + 1 < MaxConfigs \/ \E y \in anchors : y.owner = Base
  BY <1>1, <1>2, <1>3, StoreAssumption DEF StoreAssumption
<1>5. c \in ConfigId
  BY <1>2, <1>4, StoreAssumption DEF ConfigId, StoreAssumption
<1>6. /\ lastId' \in [anchors : Nat, groups : Nat, providers : Nat]
      /\ lastId'.anchors = lastId.anchors + 1
      /\ Rows' /\ Refs' /\ Finite' /\ TablesTyped'
      /\ \A g \in groups' : g.id <= lastId'.groups
      /\ \A p \in providers' : p.id <= lastId'.providers
  <2>1. CASE ConfigsOf(Base) = {}
    <3>1. lastId' = [lastId EXCEPT !.anchors = @ + 1] /\ UNCHANGED tables
      BY <2>1 DEF CreateUserConfig
    <3>2. lastId' \in [anchors : Nat, groups : Nat, providers : Nat]
          /\ lastId'.anchors = lastId.anchors + 1
          /\ lastId'.groups = lastId.groups /\ lastId'.providers = lastId.providers
      BY <1>2, <3>1 DEF Issued
    <3>3. Rows' /\ Refs' /\ Finite' /\ TablesTyped'
      BY <1>1, <3>1, SameTables
    <3> QED BY <1>2, <3>1, <3>2, <3>3 DEF Issued, tables
  <2>2. CASE ConfigsOf(Base) # {}
    <3>1. PICK b \in ConfigsOf(Base) :
            /\ CloneConfig(b, c)
            /\ lastId' = [anchors |-> lastId.anchors + 1,
                          groups |-> lastId.groups + Cardinality(Of(groups, b)),
                          providers |-> lastId.providers + Cardinality(Of(providers, b))]
      BY <2>2 DEF CreateUserConfig, NextConfig
    <3> DEFINE G == ClonedGroups(b, c)
               M == ClonedMembers(b)
               P == ClonedProviders(b, c)
               R == ClonedRules(b, c)
               V == ClonedValues(b, c)
    <3>2. New(c, G, M, P, R, V)
      BY <1>5, CloneIsNew
    <3>3. /\ groups' = groups \cup G /\ members' = members \cup M
          /\ providers' = providers \cup P /\ rules' = rules \cup R
          /\ values' = values \cup V
      BY <3>1 DEF CloneConfig, ClonedGroups, ClonedMembers, ClonedRules
    <3>4. Rows' /\ Refs' /\ Finite' /\ TablesTyped'
      <4>1. \A x \in anchors : x.id # c
        <5>1. \A x \in anchors : x.id \in Nat /\ x.id <= lastId.anchors
          BY <1>2 DEF Framed, Issued, ConfigId
        <5> QED BY <1>2, <5>1
      <4>2. /\ \A g \in groups : g.config # c
            /\ \A p \in providers : p.config # c
            /\ \A r \in rules : r.config # c
        BY <4>1 DEF IInv, Rows, Anchored
      <4>3. Of(groups, c) = {} /\ Of(providers, c) = {} /\ Of(rules, c) = {}
        BY <4>2 DEF Of
      <4>4. MembersOf(c) = {}
        BY <4>3 DEF MembersOf
      <4>5. (\E x \in anchors' : x.id = c) /\ anchors \subseteq anchors'
        <5>1. [id |-> c, owner |-> u].id = c
          OBVIOUS
        <5> HIDE DEF c
        <5> QED BY <1>1, <5>1
      <4> HIDE DEF c, G, M, P, R, V
      <4>6. TablesTyped' /\ Finite' /\ Rows' /\ Refs'
        <5> DEFINE W == V \cup Of(values, c)
        <5>1. Replaces(c, G, M, P, R, W)
          <6>1. Of(values, c) \subseteq values
            BY DEF Of
          <6>2. values' = (values \ Of(values, c)) \cup W
            BY <3>3, <6>1
          <6>3. /\ groups' = (groups \ Of(groups, c)) \cup G
                /\ members' = (members \ MembersOf(c)) \cup M
                /\ providers' = (providers \ Of(providers, c)) \cup P
                /\ rules' = (rules \ Of(rules, c)) \cup R
            BY <3>3, <4>3, <4>4
          <6> HIDE DEF W
          <6> QED BY <1>1, <4>5, <6>2, <6>3 DEF Replaces
        <5>2. New(c, G, M, P, R, W)
          <6>1. Of(values, c) \subseteq [config : ConfigId, value : STRING]
            BY DEF Of, IInv, TypeOK
          <6> QED BY <3>2, <6>1 DEF New
        <5> HIDE DEF W
        <5> QED BY <5>1, <5>2, ReplacedRows, ReplacedRefs, ReplacedTables
      <4> QED BY <4>6
    <3>5. /\ Cardinality(Of(groups, b)) \in Nat /\ Cardinality(Of(providers, b)) \in Nat
      <4>1. IsFiniteSet(Of(groups, b)) /\ IsFiniteSet(Of(providers, b))
        <5>1. Of(groups, b) \in SUBSET groups /\ Of(providers, b) \in SUBSET providers
          BY DEF Of
        <5> QED BY <5>1, FS_Subset DEF IInv, Finite
      <4> QED BY <4>1, FS_CardinalityType
    <3>6. /\ lastId.groups \in Nat /\ lastId.providers \in Nat
          /\ lastId' \in [anchors : Nat, groups : Nat, providers : Nat]
          /\ lastId'.anchors = lastId.anchors + 1
          /\ lastId'.groups = lastId.groups + Cardinality(Of(groups, b))
          /\ lastId'.providers = lastId.providers + Cardinality(Of(providers, b))
      <4>1. lastId.groups \in Nat /\ lastId.providers \in Nat
        BY <1>2 DEF Issued
      <4> QED BY <1>2, <3>1, <3>5, <4>1
    <3>7. /\ \A g \in G : g.id <= lastId'.groups
          /\ \A p \in P : p.id <= lastId'.providers
      BY <1>5, <3>6, ClonedGroupRows, ClonedProviderRows
    <3>8. /\ \A g \in groups : g.id <= lastId'.groups
          /\ \A p \in providers : p.id <= lastId'.providers
      <4>1. /\ \A g \in groups : g.id \in Nat /\ g.id <= lastId.groups
            /\ \A p \in providers : p.id \in Nat /\ p.id <= lastId.providers
        BY <1>2 DEF Issued, IInv, TypeOK
      <4> QED BY <3>5, <3>6, <4>1
    <3> HIDE DEF G, P
    <3> QED BY <3>3, <3>4, <3>6, <3>7, <3>8
  <2> QED BY <2>1, <2>2
<1>7. /\ Anchors' /\ anchors' \subseteq [id : ConfigId, owner : Owner]
      /\ lastId'.anchors \in Nat /\ lastId'.anchors >= lastId.anchors
      /\ \A x \in anchors' : x.id <= lastId'.anchors
      /\ \A x \in anchors' : x \in anchors \/ x.id > lastId.anchors
  BY <1>1, <1>2, <1>4, <1>6, AnchorMade
<1>8. Framed'
  <2>1. writes' \in 0 .. MaxWrites
    BY <1>1, <1>2, StoreAssumption DEF Framed, StoreAssumption
  <2> QED BY <1>1, <1>2, <1>7, <2>1 DEF Framed
<1>9. Issued'
  BY <1>6, <1>7 DEF Issued
<1>10. \A b \in Admin : OwnedBy(b)'
  BY <1>1, <1>7, OwnedKept
<1> QED BY <1>6, <1>7, <1>8, <1>9, <1>10, Assemble

LEMMA Inductive == IInv /\ [Next]_vars => IInv'
<1> SUFFICES ASSUME IInv, [Next]_vars PROVE IInv'
  OBVIOUS
<1>1. ASSUME NEW a \in Admin, Submit(a) PROVE IInv'
  BY <1>1, SubmitKeeps
<1>2. ASSUME NEW a \in Admin, EnsureBase(a) PROVE IInv'
  BY <1>2, EnsureBaseKeeps
<1>3. ASSUME NEW a \in Admin, ResolveConfig(a) PROVE IInv'
  BY <1>3, ResolveConfigKeeps
<1>4. ASSUME NEW a \in Admin, SaveMihomoConfig(a) PROVE IInv'
  BY <1>4, SaveMihomoConfigKeeps
<1>5. ASSUME NEW u \in User, CreateUserConfig(u) PROVE IInv'
  BY <1>5, CreateUserConfigKeeps
<1>6. ASSUME NEW u \in User, DeleteUserConfig(u) PROVE IInv'
  BY <1>6, DeleteUserConfigKeeps
<1>7. ASSUME NEW u \in User, DeleteUser(u) PROVE IInv'
  BY <1>7, DeleteUserKeeps
<1>8. ASSUME NEW i \in Inbound, DropInbound(i) PROVE IInv'
  BY <1>8, DropInboundKeeps
<1>9. CASE Quiet \/ UNCHANGED vars
  BY <1>9, FrameKeeps DEF Quiet, vars
<1> QED BY <1>1, <1>2, <1>3, <1>4, <1>5, <1>6, <1>7, <1>8, <1>9 DEF Next

-----------------------------------------------------------------------------
(* The invariant gives what the store promises. *)

LEMMA ApartFollows == IInv => ConfigsApart
<1> SUFFICES ASSUME IInv PROVE ConfigsApart
  OBVIOUS
<1> DEFINE configOf(table, id) == {r.config : r \in {x \in table : x.id = id}}
           inside(ref, c) == ref.kind = "group" => configOf(groups, ref.to) = {c}
<1>1. Rows /\ Refs /\ Anchors
  BY DEF IInv
<1>2. ASSUME NEW table, Unique(table), NEW id, NEW c, Has(table, id, c)
      PROVE  configOf(table, id) = {c}
  BY <1>2 DEF Unique, Has
<1> HIDE DEF configOf
<1>3. ASSUME NEW ref, NEW c, Within(ref, c, groups) PROVE inside(ref, c)
  BY <1>1, <1>2, <1>3 DEF Within, Rows
<1> HIDE DEF inside
<1>4. \A table \in {groups, providers, rules} :
        /\ \A r, s \in table : r.id = s.id => r = s
        /\ \A r \in table : \E x \in anchors : x.id = r.config
  BY <1>1 DEF Rows, Unique, Anchored
<1>5. \A r \in rules :
        /\ inside(r.target, r.config)
        /\ r.provider # 0 => configOf(providers, r.provider) = {r.config}
        /\ r.parent # 0 => configOf(rules, r.parent) = {r.config} /\ r.parent < r.id
  BY <1>1, <1>2, <1>3 DEF Refs, RuleWithin, Rows
<1>6. \A m \in members : \E g \in groups : g.id = m.group /\ inside(m.ref, g.config)
  BY <1>1, <1>3 DEF Refs, MemberWithin
<1>7. InboundsIn(members, rules) \subseteq inbounds
  BY <1>1 DEF Refs, Reaches, InboundsIn
<1>8. ASSUME NEW o \in Owner PROVE Cardinality(ConfigsOf(o)) <= 1
  <2>1. CASE ConfigsOf(o) = {}
    BY <2>1, FS_EmptySet
  <2>2. CASE ConfigsOf(o) # {}
    <3>1. PICK y \in anchors : y.owner = o
      BY <2>2 DEF ConfigsOf
    <3>2. ConfigsOf(o) = {y.id}
      BY <1>1, <3>1 DEF ConfigsOf, Anchors
    <3>3. Cardinality({y.id}) = 1
      BY FS_Singleton
    <3> QED BY <3>2, <3>3
  <2> QED BY <2>1, <2>2
<1> QED BY <1>4, <1>5, <1>6, <1>7, <1>8 DEF ConfigsApart, inside, configOf

LEMMA Holds == Spec => []IInv
<1> QED BY InitKeeps, Inductive, PTL DEF Spec

(* The tables stay typed, ids stay within the bound, and a request is one  *)
(* that config_save can be at. *)
THEOREM TypeCorrect == Spec => []TypeOK
<1>1. IInv => TypeOK
  BY DEF IInv
<1> QED BY <1>1, Holds, PTL

(* No save, clone or delete of one config leaves a row without its config, *)
(* two rows under one id, or a reference to a row of another config, even  *)
(* though ids of rules are taken from MAX(id) over all the configs and     *)
(* CloneConfig reads the base's rows: the foreign keys of one config never *)
(* hinder the replacing of another (repository/routing). *)
THEOREM Apart == Spec => []ConfigsApart
BY ApartFollows, Holds, PTL

-----------------------------------------------------------------------------
(* The rows of a draft d at config c, under the ids that gid, pid and rid  *)
(* give to its groups, providers and rules. *)
Located(ref, gid) == IF ref.kind = "group" THEN Ref("group", gid[ref.to]) ELSE ref

GroupRow(d, c, gid, k) ==
    [id |-> gid[k], config |-> c, pos |-> k, name |-> d.groups[k].name]
MemberRow(d, gid, k, j) ==
    [group |-> gid[k], pos |-> j, ref |-> Located(d.groups[k].members[j], gid)]
ProviderRow(d, c, pid, k) == [id |-> pid[k], config |-> c, name |-> d.providers[k]]
RuleRow(d, c, gid, pid, rid, q) ==
    [id |-> rid[q], config |-> c,
     parent |-> IF Len(q) = 1 THEN 0 ELSE rid[Prefix(q)],
     pos |-> q[Len(q)],
     provider |-> IF d.rules[q].provider = 0 THEN 0 ELSE pid[d.rules[q].provider],
     target |-> Located(d.rules[q].target, gid)]

Spells(d, c, gid, pid, rid, G, M, P, R, V) ==
    /\ gid \in Injection(DOMAIN d.groups, Nat \ {0})
    /\ pid \in Injection(DOMAIN d.providers, Nat \ {0})
    /\ rid \in Injection(DOMAIN d.rules, Nat \ {0})
    /\ \A g : g \in G <=> \E k \in DOMAIN d.groups : g = GroupRow(d, c, gid, k)
    /\ \A m : m \in M <=> \E k \in DOMAIN d.groups : \E j \in DOMAIN d.groups[k].members :
                            m = MemberRow(d, gid, k, j)
    /\ \A p : p \in P <=> \E k \in DOMAIN d.providers : p = ProviderRow(d, c, pid, k)
    /\ \A r : r \in R <=> \E q \in DOMAIN d.rules : r = RuleRow(d, c, gid, pid, rid, q)
    /\ V = {[config |-> c, value |-> d.value]}

-----------------------------------------------------------------------------
(* PathOf, a function defined by recursion along the parents.  Where there *)
(* is a solution of its equation, it is one. *)

PathStep(R, path) ==
    [i \in {r.id : r \in R} |->
        LET r == Row(R, i)
        IN  IF r.parent = 0 THEN <<r.pos>>
            ELSE IF r.parent \notin {s.id : s \in R} \/ path[r.parent] = <<>> THEN <<>>
            ELSE Append(path[r.parent], r.pos)]

LEMMA PathFixed ==
    ASSUME NEW R, NEW path, path = PathStep(R, path)
    PROVE  PathOf(R) = PathStep(R, PathOf(R))
<1> DEFINE Fixed(p) == p = PathStep(R, p)
<1>1. PathOf(R) = CHOOSE p : Fixed(p)
  BY DEF PathOf, PathStep
<1>2. Fixed(path)
  OBVIOUS
<1> HIDE DEF Fixed
<1>3. Fixed(CHOOSE p : Fixed(p))
  BY <1>2
<1>4. Fixed(PathOf(R))
  BY <1>1, <1>3
<1> QED BY <1>4 DEF Fixed

LEMMA Rejoined ==
    ASSUME NEW q \in Seq(Nat), Len(q) # 0
    PROVE  /\ Len(q) = 1 => <<q[Len(q)]>> = q
           /\ Len(q) # 1 => /\ Prefix(q) \in Seq(Nat) /\ Prefix(q) # <<>>
                            /\ Len(Prefix(q)) = Len(q) - 1
                            /\ Append(Prefix(q), q[Len(q)]) = q
<1>1. Len(q) \in Nat /\ Len(q) >= 1 /\ q[Len(q)] \in Nat
  OBVIOUS
<1>2. CASE Len(q) = 1
  <2>1. <<q[Len(q)]>> \in Seq(Nat) /\ Len(<<q[Len(q)]>>) = 1 /\ <<q[Len(q)]>>[1] = q[1]
    BY <1>1, <1>2
  <2>2. \A i \in 1 .. 1 : <<q[Len(q)]>>[i] = q[i]
    BY <2>1
  <2> QED BY <1>2, <2>1, <2>2, SeqEqual
<1>3. CASE Len(q) # 1
  <2> DEFINE p == Prefix(q)
             s == Append(p, q[Len(q)])
  <2>0. Len(q) > 1
    <3>1. \A n \in Nat : n >= 1 /\ n # 1 => n > 1
      OBVIOUS
    <3> QED BY <1>1, <1>3, <3>1
  <2>1. /\ p \in Seq(Nat) /\ Len(p) = Len(q) - 1
        /\ \A i \in 1 .. Len(q) - 1 : p[i] = q[i]
    BY <2>0 DEF Prefix
  <2> HIDE DEF p
  <2>2. p # <<>>
    BY <1>1, <1>3, <2>1
  <2>3. s \in Seq(Nat) /\ Len(s) = Len(q) /\ \A i \in 1 .. Len(q) : s[i] = q[i]
    BY <1>1, <2>1
  <2> HIDE DEF s
  <2>4. s = q
    BY <2>3, SeqEqual
  <2> QED BY <1>3, <2>1, <2>2, <2>4 DEF p, s
<1> QED BY <1>2, <1>3

LEMMA RulesTold ==
    ASSUME NEW d \in ValidDrafts, NEW c, NEW gid, NEW pid, NEW rid,
           NEW G, NEW M, NEW P, NEW R, NEW V, Spells(d, c, gid, pid, rid, G, M, P, R, V),
           NEW q \in DOMAIN d.rules
    PROVE  /\ rid[q] \in Nat \ {0} /\ rid[q] \in {r.id : r \in R}
           /\ RuleRow(d, c, gid, pid, rid, q) \in R
           /\ Row(R, rid[q]) = RuleRow(d, c, gid, pid, rid, q)
           /\ RuleRow(d, c, gid, pid, rid, q).id = rid[q]
           /\ \A p \in DOMAIN d.rules : rid[p] = rid[q] => p = q
<1> DEFINE row(p) == RuleRow(d, c, gid, pid, rid, p)
<1>1. /\ \A p \in DOMAIN d.rules : rid[p] \in Nat \ {0}
      /\ \A p, s \in DOMAIN d.rules : rid[p] = rid[s] => p = s
  BY DEF Spells, Injection, IsInjective
<1>2. \A r : r \in R <=> \E p \in DOMAIN d.rules : r = row(p)
  BY DEF Spells
<1>3. \A p : row(p).id = rid[p]
  BY DEF RuleRow
<1> HIDE DEF row
<1>4. row(q) \in R
  BY <1>2
<1>5. \A r \in R : r.id = rid[q] <=> r = row(q)
  BY <1>1, <1>2, <1>3
<1>6. Row(R, rid[q]) = row(q)
  BY <1>4, <1>5 DEF Row
<1> QED BY <1>1, <1>3, <1>4, <1>6 DEF row

LEMMA StepTold ==
    ASSUME NEW d \in ValidDrafts, NEW c, NEW gid, NEW pid, NEW rid,
           NEW G, NEW M, NEW P, NEW R, NEW V, Spells(d, c, gid, pid, rid, G, M, P, R, V),
           NEW q \in DOMAIN d.rules, NEW path,
           Len(q) # 1 => path[rid[Prefix(q)]] = Prefix(q)
    PROVE  PathStep(R, path)[rid[q]] = q
<1> DEFINE r == RuleRow(d, c, gid, pid, rid, q)
           ids == {s.id : s \in R}
<1>1. rid[q] \in ids /\ Row(R, rid[q]) = r
  BY RulesTold
<1>2. PathStep(R, path)[rid[q]] =
        IF r.parent = 0 THEN <<r.pos>>
        ELSE IF r.parent \notin ids \/ path[r.parent] = <<>> THEN <<>>
        ELSE Append(path[r.parent], r.pos)
  BY <1>1 DEF PathStep
<1>3. r.pos = q[Len(q)] /\ r.parent = IF Len(q) = 1 THEN 0 ELSE rid[Prefix(q)]
  BY DEF RuleRow
<1>4. q \in Seq(Nat) /\ Len(q) # 0 /\ (Len(q) # 1 => Prefix(q) \in DOMAIN d.rules)
  <2>1. q \in Seq(Nat) /\ Len(q) \in Nat \ {0} /\ (Len(q) > 1 => Prefix(q) \in DOMAIN d.rules)
    BY DraftTypes
  <2>2. \A n \in Nat \ {0} : n # 1 => n > 1
    OBVIOUS
  <2> QED BY <2>1, <2>2
<1> HIDE DEF r, ids
<1>5. CASE Len(q) = 1
  BY <1>2, <1>3, <1>4, <1>5, Rejoined
<1>6. CASE Len(q) # 1
  <2>1. rid[Prefix(q)] \in Nat \ {0} /\ rid[Prefix(q)] \in ids
    BY <1>4, <1>6, RulesTold DEF ids
  <2>2. Prefix(q) # <<>> /\ Append(Prefix(q), q[Len(q)]) = q
    BY <1>4, <1>6, Rejoined
  <2> QED BY <1>2, <1>3, <1>6, <2>1, <2>2
<1> QED BY <1>5, <1>6

LEMMA PathsTold ==
    ASSUME NEW d \in ValidDrafts, NEW c, NEW gid, NEW pid, NEW rid,
           NEW G, NEW M, NEW P, NEW R, NEW V, Spells(d, c, gid, pid, rid, G, M, P, R, V)
    PROVE  /\ \A i : i \in DOMAIN PathOf(R) <=> \E q \in DOMAIN d.rules : i = rid[q]
           /\ \A q \in DOMAIN d.rules : PathOf(R)[rid[q]] = q
<1> DEFINE Q == DOMAIN d.rules
           ids == {r.id : r \in R}
           want == [i \in ids |-> CHOOSE q \in Q : rid[q] = i]
<1>1. \A q \in Q : /\ rid[q] \in ids /\ \A p \in Q : rid[p] = rid[q] => p = q
  BY RulesTold
<1>2. \A i \in ids : \E q \in Q : i = rid[q]
  <2>1. \A r \in R : \E q \in Q : r.id = rid[q]
    BY DEF Spells, RuleRow
  <2> QED BY <2>1
<1>3. ASSUME NEW q \in Q
      PROVE  /\ q \in Seq(Nat) /\ Len(q) \in Nat /\ Len(q) # 0
             /\ Len(q) # 1 => Prefix(q) \in Q /\ Len(Prefix(q)) = Len(q) - 1
  <2>1. q \in Seq(Nat) /\ Len(q) \in Nat \ {0} /\ (Len(q) > 1 => Prefix(q) \in Q)
    BY DraftTypes
  <2>2. \A n \in Nat \ {0} : n # 0 /\ (n # 1 => n > 1)
    OBVIOUS
  <2>3. Len(q) # 1 => Len(Prefix(q)) = Len(q) - 1
    BY <2>1, <2>2, Rejoined
  <2> QED BY <2>1, <2>2, <2>3
<1>4. want = PathStep(R, want)
  <2>1. \A q \in Q : want[rid[q]] = q
    BY <1>1
  <2>2. want = [i \in ids |-> want[i]]
    OBVIOUS
  <2> HIDE DEF want
  <2>3. \A q \in Q : PathStep(R, want)[rid[q]] = q
    BY <1>3, <2>1, StepTold
  <2>4. \A i \in ids : want[i] = PathStep(R, want)[i]
    BY <1>2, <2>1, <2>3
  <2>5. PathStep(R, want) = [i \in ids |-> PathStep(R, want)[i]]
    BY DEF PathStep
  <2> HIDE DEF ids
  <2> QED BY <2>2, <2>4, <2>5
<1> DEFINE path == PathOf(R)
<1>5. path = PathStep(R, path)
  BY <1>4, PathFixed
<1> HIDE DEF path
<1> DEFINE Bad == {n \in Nat : \E q \in Q : Len(q) = n /\ path[rid[q]] # q}
<1>6. Bad = {}
  <2> SUFFICES ASSUME Bad # {} PROVE FALSE
    OBVIOUS
  <2>1. Bad \in SUBSET Nat
    OBVIOUS
  <2>2. PICK n \in Bad : \A m \in Bad : n <= m
    BY <2>1, LeastNat
  <2>3. PICK q \in Q : Len(q) = n /\ path[rid[q]] # q
    OBVIOUS
  <2>4. Len(q) # 1 => path[rid[Prefix(q)]] = Prefix(q)
    <3> SUFFICES ASSUME Len(q) # 1, path[rid[Prefix(q)]] # Prefix(q) PROVE FALSE
      OBVIOUS
    <3>1. Prefix(q) \in Q /\ Len(Prefix(q)) = n - 1 /\ n \in Nat /\ n # 0
      BY <1>3, <2>3
    <3>2. n - 1 \in Bad
      BY <3>1
    <3> HIDE DEF Bad
    <3> QED BY <2>2, <3>1, <3>2
  <2>5. PathStep(R, path)[rid[q]] = q
    BY <2>4, StepTold
  <2> QED BY <1>5, <2>3, <2>5
<1>7. ASSUME NEW q \in Q PROVE path[rid[q]] = q
  <2>1. Len(q) \in Nat /\ Len(q) \notin Bad
    BY <1>3, <1>6
  <2> QED BY <2>1
<1>8. \A i : i \in DOMAIN path <=> \E q \in Q : i = rid[q]
  <2>1. DOMAIN PathStep(R, path) = ids
    BY DEF PathStep
  <2>2. DOMAIN path = ids
    BY <1>5, <2>1
  <2> HIDE DEF ids
  <2> QED BY <1>1, <1>2, <2>2
<1> QED BY <1>7, <1>8 DEF path

LEMMA Counted ==
    ASSUME NEW n \in Nat, NEW f, NEW S,
           \A x : x \in S <=> \E k \in 1 .. n : x = f[k],
           \A j, k \in 1 .. n : f[j] = f[k] => j = k
    PROVE  IsFiniteSet(S) /\ Cardinality(S) = n
<1> DEFINE h == [k \in 1 .. n |-> f[k]]
<1>1. h \in Bijection(1 .. n, S)
  BY DEF Bijection, Injection, Surjection, IsInjective
<1>2. IsFiniteSet(1 .. n) /\ Cardinality(1 .. n) = n
  BY FS_Interval
<1> QED BY <1>1, <1>2, FS_Bijection DEF ExistsBijection

LEMMA GroupsTold ==
    ASSUME NEW d \in ValidDrafts, NEW c, NEW gid, NEW pid, NEW rid,
           NEW G, NEW M, NEW P, NEW R, NEW V, Spells(d, c, gid, pid, rid, G, M, P, R, V)
    PROVE  /\ IsFiniteSet(G) /\ Cardinality(G) = Len(d.groups)
           /\ \A k \in DOMAIN d.groups :
                /\ GroupRow(d, c, gid, k) \in G
                /\ Row(G, gid[k]) = GroupRow(d, c, gid, k)
                /\ (CHOOSE g \in G : g.pos = k) = GroupRow(d, c, gid, k)
                /\ \A j \in DOMAIN d.groups : gid[j] = gid[k] => j = k
<1> DEFINE n == Len(d.groups)
           f == [k \in 1 .. n |-> GroupRow(d, c, gid, k)]
<1>1. n \in Nat /\ DOMAIN d.groups = 1 .. n
  BY DraftTypes
<1>2. \A k \in 1 .. n : f[k].id = gid[k] /\ f[k].pos = k /\ f[k] = GroupRow(d, c, gid, k)
  BY DEF GroupRow
<1>3. /\ \A g : g \in G <=> \E k \in 1 .. n : g = f[k]
      /\ \A j, k \in 1 .. n : gid[j] = gid[k] => j = k
  BY <1>1 DEF Spells, Injection, IsInjective
<1> HIDE DEF n, f
<1>4. IsFiniteSet(G) /\ Cardinality(G) = n
  <2>1. \A j, k \in 1 .. n : f[j] = f[k] => j = k
    BY <1>2, <1>3
  <2> QED BY <1>1, <1>3, <2>1, Counted
<1>5. ASSUME NEW k \in 1 .. n
      PROVE  f[k] \in G /\ Row(G, gid[k]) = f[k] /\ (CHOOSE g \in G : g.pos = k) = f[k]
  <2>1. /\ f[k] \in G
        /\ \A g \in G : g.id = gid[k] <=> g = f[k]
        /\ \A g \in G : g.pos = k <=> g = f[k]
    BY <1>2, <1>3
  <2> QED BY <2>1 DEF Row
<1> QED BY <1>1, <1>2, <1>3, <1>4, <1>5 DEF n

LEMMA ProvidersTold ==
    ASSUME NEW d \in ValidDrafts, NEW c, NEW gid, NEW pid, NEW rid,
           NEW G, NEW M, NEW P, NEW R, NEW V, Spells(d, c, gid, pid, rid, G, M, P, R, V)
    PROVE  /\ {p.name : p \in P} = {d.providers[k] : k \in DOMAIN d.providers}
           /\ \A k \in DOMAIN d.providers :
                /\ pid[k] \in Nat \ {0}
                /\ Row(P, pid[k]) = ProviderRow(d, c, pid, k)
                /\ Row(P, pid[k]).name = d.providers[k]
<1> DEFINE K == DOMAIN d.providers
           f == [k \in K |-> ProviderRow(d, c, pid, k)]
<1>1. \A k \in K : f[k].id = pid[k] /\ f[k].name = d.providers[k]
                   /\ f[k] = ProviderRow(d, c, pid, k)
  BY DEF ProviderRow
<1>2. /\ \A p : p \in P <=> \E k \in K : p = f[k]
      /\ \A k \in K : pid[k] \in Nat \ {0}
      /\ \A j, k \in K : pid[j] = pid[k] => j = k
  BY DEF Spells, Injection, IsInjective
<1> HIDE DEF f
<1>3. {p.name : p \in P} = {d.providers[k] : k \in K}
  BY <1>1, <1>2
<1>4. ASSUME NEW k \in K PROVE Row(P, pid[k]) = f[k]
  <2>1. f[k] \in P /\ \A p \in P : p.id = pid[k] <=> p = f[k]
    BY <1>1, <1>2
  <2> QED BY <2>1 DEF Row
<1> QED BY <1>1, <1>2, <1>3, <1>4

(* m is the member of the group with this id at place j. *)
MemberAt(M, id, j, m) == m \in M /\ \A n \in M : n.group = id /\ n.pos = j <=> n = m

LEMMA MembersTold ==
    ASSUME NEW d \in ValidDrafts, NEW c, NEW gid, NEW pid, NEW rid,
           NEW G, NEW M, NEW P, NEW R, NEW V, Spells(d, c, gid, pid, rid, G, M, P, R, V),
           NEW k \in DOMAIN d.groups
    PROVE  /\ Cardinality({m \in M : m.group = gid[k]}) = Len(d.groups[k].members)
           /\ \A j \in DOMAIN d.groups[k].members :
                MemberAt(M, gid[k], j, MemberRow(d, gid, k, j))
<1> DEFINE n == Len(d.groups[k].members)
           f == [j \in 1 .. n |-> MemberRow(d, gid, k, j)]
           S == {m \in M : m.group = gid[k]}
<1>1. n \in Nat /\ DOMAIN d.groups[k].members = 1 .. n
  BY DraftTypes
<1>2. \A l, j : MemberRow(d, gid, l, j).group = gid[l] /\ MemberRow(d, gid, l, j).pos = j
  BY DEF MemberRow
<1>3. \A l \in DOMAIN d.groups : gid[l] = gid[k] => l = k
  BY GroupsTold
<1>4. \A m : m \in M <=> \E l \in DOMAIN d.groups : \E j \in DOMAIN d.groups[l].members :
                            m = MemberRow(d, gid, l, j)
  BY DEF Spells
<1>5. \A j \in 1 .. n : f[j] = MemberRow(d, gid, k, j) /\ f[j].pos = j /\ f[j].group = gid[k]
  BY <1>2
<1>6. \A x : x \in S <=> \E j \in 1 .. n : x = f[j]
  <2> HIDE DEF f, n
  <2>1. ASSUME NEW x \in S PROVE \E j \in 1 .. n : x = f[j]
    BY <1>1, <1>2, <1>3, <1>4, <1>5
  <2>2. ASSUME NEW j \in 1 .. n PROVE f[j] \in S
    BY <1>1, <1>4, <1>5
  <2> QED BY <2>1, <2>2
<1> HIDE DEF f, n, S
<1>7. Cardinality(S) = n
  <2>1. \A i, j \in 1 .. n : f[i] = f[j] => i = j
    BY <1>5
  <2> QED BY <1>1, <1>6, <2>1, Counted
<1>8. \A j \in 1 .. n : MemberAt(M, gid[k], j, f[j])
  BY <1>5, <1>6 DEF S, MemberAt
<1> QED BY <1>1, <1>5, <1>7, <1>8 DEF n, S

LEMMA NamedBack ==
    ASSUME NEW d \in ValidDrafts, NEW c, NEW gid, NEW pid, NEW rid,
           NEW G, NEW M, NEW P, NEW R, NEW V, Spells(d, c, gid, pid, rid, G, M, P, R, V),
           NEW ref, validateRef(ref, Len(d.groups))
    PROVE  Named(G, Located(ref, gid)) =
             IF ref.kind = "group" THEN Ref("group", d.groups[ref.to].name) ELSE ref
<1>1. CASE ref.kind = "group"
  <2>1. ref.to \in DOMAIN d.groups
    BY <1>1, DraftTypes DEF validateRef
  <2>2. Row(G, gid[ref.to]).name = d.groups[ref.to].name
    <3>1. Row(G, gid[ref.to]) = GroupRow(d, c, gid, ref.to)
      BY <2>1, GroupsTold
    <3> QED BY <3>1 DEF GroupRow
  <2>3. Located(ref, gid).kind = "group" /\ Located(ref, gid).to = gid[ref.to]
    BY <1>1 DEF Located, Ref
  <2> QED BY <1>1, <2>2, <2>3 DEF Named
<1>2. CASE ref.kind # "group"
  BY <1>2 DEF Located, Named
<1> QED BY <1>1, <1>2

(* What is read back from the rows of a draft is what the draft says. *)
LEMMA SpelledOut ==
    ASSUME NEW d \in ValidDrafts, NEW c, NEW gid, NEW pid, NEW rid,
           NEW G, NEW M, NEW P, NEW R, NEW V, Spells(d, c, gid, pid, rid, G, M, P, R, V)
    PROVE  Assembled(G, M, P, R, V) = Meant(d)
<1> DEFINE path == PathOf(R)
           ruleAt(q) == CHOOSE r \in R : path[r.id] = q
           groupAt(k) == CHOOSE g \in G : g.pos = k
           memberAt(g, j) == CHOOSE m \in M : m.group = g.id /\ m.pos = j
           size(g) == Cardinality({m \in M : m.group = g.id})
           named(ref) ==
             IF ref.kind = "group" THEN Ref("group", d.groups[ref.to].name) ELSE ref
           policies(k) == [j \in 1 .. size(groupAt(k)) |->
                             Named(G, memberAt(groupAt(k), j).ref)]
           ruleGroups == [k \in 1 .. Cardinality(G) |->
                            [name |-> groupAt(k).name, members |-> policies(k)]]
           meantGroups == [k \in DOMAIN d.groups |->
                             [name |-> d.groups[k].name,
                              members |-> [j \in DOMAIN d.groups[k].members |->
                                             named(d.groups[k].members[j])]]]
           provider(q) == IF ruleAt(q).provider = 0 THEN ""
                          ELSE Row(P, ruleAt(q).provider).name
           tree == [q \in {path[r.id] : r \in R} \ {<<>>} |->
                      [provider |-> provider(q), target |-> Named(G, ruleAt(q).target)]]
           meantTree == [q \in DOMAIN d.rules |->
                           [provider |-> IF d.rules[q].provider = 0 THEN ""
                                         ELSE d.providers[d.rules[q].provider],
                            target |-> named(d.rules[q].target)]]
<1>1. Assembled(G, M, P, R, V) =
        [groups |-> ruleGroups, providers |-> {p.name : p \in P}, rules |-> tree,
         value |-> {v.value : v \in V}]
  BY DEF Assembled
<1>2. Meant(d) =
        [groups |-> meantGroups, providers |-> {d.providers[k] : k \in DOMAIN d.providers},
         rules |-> meantTree, value |-> {d.value}]
  BY DEF Meant
<1>3. {p.name : p \in P} = {d.providers[k] : k \in DOMAIN d.providers}
  BY ProvidersTold
<1>4. {v.value : v \in V} = {d.value}
  BY DEF Spells
<1>5. ruleGroups = meantGroups
  <2>1. 1 .. Cardinality(G) = DOMAIN d.groups
    BY GroupsTold, DraftTypes
  <2>2. ASSUME NEW k \in DOMAIN d.groups
        PROVE  /\ groupAt(k).name = d.groups[k].name
               /\ policies(k) = [j \in DOMAIN d.groups[k].members |->
                                   named(d.groups[k].members[j])]
    <3>1. groupAt(k) = GroupRow(d, c, gid, k)
      BY GroupsTold
    <3> HIDE DEF groupAt
    <3>2. groupAt(k).name = d.groups[k].name /\ groupAt(k).id = gid[k]
      BY <3>1 DEF GroupRow
    <3>3. 1 .. size(groupAt(k)) = DOMAIN d.groups[k].members
      <4>1. size(groupAt(k)) = Len(d.groups[k].members)
        BY <3>2, MembersTold
      <4> QED BY <4>1, DraftTypes
    <3>4. ASSUME NEW j \in DOMAIN d.groups[k].members
          PROVE  Named(G, memberAt(groupAt(k), j).ref) = named(d.groups[k].members[j])
      <4>1. memberAt(groupAt(k), j) = MemberRow(d, gid, k, j)
        <5>1. MemberAt(M, gid[k], j, MemberRow(d, gid, k, j))
          BY MembersTold
        <5> QED BY <3>2, <5>1 DEF MemberAt
      <4> HIDE DEF memberAt
      <4>2. memberAt(groupAt(k), j).ref = Located(d.groups[k].members[j], gid)
        BY <4>1 DEF MemberRow
      <4>3. validateRef(d.groups[k].members[j], Len(d.groups))
        BY DraftTypes
      <4> HIDE DEF named
      <4> QED BY <4>2, <4>3, NamedBack DEF named
    <3> HIDE DEF size, memberAt, named
    <3> QED BY <3>2, <3>3, <3>4
  <2> HIDE DEF groupAt, policies, named
  <2> QED BY <2>1, <2>2
<1>6. tree = meantTree
  <2>1. \A r : r \in R <=> \E q \in DOMAIN d.rules : r = RuleRow(d, c, gid, pid, rid, q)
    BY DEF Spells
  <2>2. ASSUME NEW q \in DOMAIN d.rules
        PROVE  /\ path[RuleRow(d, c, gid, pid, rid, q).id] = q /\ q # <<>>
               /\ ruleAt(q) = RuleRow(d, c, gid, pid, rid, q)
    <3>1. \A p \in DOMAIN d.rules : path[RuleRow(d, c, gid, pid, rid, p).id] = p
      BY PathsTold, RulesTold
    <3>2. RuleRow(d, c, gid, pid, rid, q) \in R
      BY <2>1
    <3> HIDE DEF path
    <3>3. \A r \in R : path[r.id] = q <=> r = RuleRow(d, c, gid, pid, rid, q)
      BY <2>1, <3>1
    <3>4. q # <<>>
      BY DraftTypes
    <3> QED BY <3>1, <3>2, <3>3, <3>4
  <2> HIDE DEF path, ruleAt
  <2>3. {path[r.id] : r \in R} \ {<<>>} = DOMAIN d.rules
    BY <2>1, <2>2
  <2>4. ASSUME NEW q \in DOMAIN d.rules
        PROVE  /\ provider(q) = (IF d.rules[q].provider = 0 THEN ""
                                 ELSE d.providers[d.rules[q].provider])
               /\ Named(G, ruleAt(q).target) = named(d.rules[q].target)
    <3>1. /\ ruleAt(q).provider = IF d.rules[q].provider = 0 THEN 0
                                  ELSE pid[d.rules[q].provider]
          /\ ruleAt(q).target = Located(d.rules[q].target, gid)
      BY <2>2 DEF RuleRow
    <3>2. /\ validateRef(d.rules[q].target, Len(d.groups))
          /\ d.rules[q].provider \in 0 .. Len(d.providers)
          /\ Len(d.providers) \in Nat /\ DOMAIN d.providers = 1 .. Len(d.providers)
      BY DraftTypes
    <3>3. d.rules[q].provider # 0 =>
            /\ pid[d.rules[q].provider] # 0
            /\ Row(P, pid[d.rules[q].provider]).name = d.providers[d.rules[q].provider]
      <4>1. d.rules[q].provider # 0 => d.rules[q].provider \in DOMAIN d.providers
        BY <3>2
      <4> QED BY <4>1, ProvidersTold
    <3>4. Named(G, ruleAt(q).target) = named(d.rules[q].target)
      BY <3>1, <3>2, NamedBack
    <3> QED BY <3>1, <3>3, <3>4
  <2> HIDE DEF provider, named
  <2> QED BY <2>3, <2>4
<1> HIDE DEF ruleGroups, meantGroups, tree, meantTree
<1> QED BY <1>1, <1>2, <1>3, <1>4, <1>5, <1>6

LEMMA EmptySpelledOut == Assembled({}, {}, {}, {}, {}) = EmptyContent
<1> DEFINE path == PathOf({})
           ruleAt(q) == CHOOSE r \in {} : path[r.id] = q
           groupAt(k) == CHOOSE g \in {} : g.pos = k
           memberAt(g, j) == CHOOSE m \in {} : m.group = g.id /\ m.pos = j
           size(g) == Cardinality({m \in {} : m.group = g.id})
           policies(k) == [j \in 1 .. size(groupAt(k)) |->
                             Named({}, memberAt(groupAt(k), j).ref)]
           entry(k) == [name |-> groupAt(k).name, members |-> policies(k)]
           rule(q) == [provider |-> IF ruleAt(q).provider = 0 THEN ""
                                    ELSE Row({}, ruleAt(q).provider).name,
                       target |-> Named({}, ruleAt(q).target)]
<1>1. Assembled({}, {}, {}, {}, {}) =
        [groups |-> [k \in 1 .. Cardinality({}) |-> entry(k)],
         providers |-> {p.name : p \in {}},
         rules |-> [q \in {path[r.id] : r \in {}} \ {<<>>} |-> rule(q)],
         value |-> {v.value : v \in {}}]
  BY DEF Assembled
<1> HIDE DEF entry, rule
<1>2. [k \in 1 .. Cardinality({}) |-> entry(k)] = <<>>
  <2>1. Cardinality({}) = 0
    BY FS_EmptySet
  <2>2. 1 .. 0 = {}
    OBVIOUS
  <2> QED BY <2>1, <2>2
<1>3. {path[r.id] : r \in {}} \ {<<>>} = {}
  OBVIOUS
<1>4. [q \in {path[r.id] : r \in {}} \ {<<>>} |-> rule(q)] = <<>>
  <2>1. [q \in {} |-> rule(q)] = <<>>
    OBVIOUS
  <2> QED BY <1>3, <2>1
<1>5. {p.name : p \in {}} = {} /\ {v.value : v \in {}} = {}
  OBVIOUS
<1> QED BY <1>1, <1>2, <1>4, <1>5 DEF EmptyContent

LEMMA Replaced ==
    ASSUME IInv, NEW c, NEW G, NEW M, NEW P, NEW R, NEW V,
           New(c, G, M, P, R, V), Replaces(c, G, M, P, R, V), \A v \in V : v.config = c
    PROVE  /\ Of(groups', c) = G /\ MembersOf(c)' = M /\ Of(providers', c) = P
           /\ Of(rules', c) = R /\ Of(values', c) = V
           /\ \A e : e # c =>
                /\ Of(groups', e) = Of(groups, e) /\ MembersOf(e)' = MembersOf(e)
                /\ Of(providers', e) = Of(providers, e) /\ Of(rules', e) = Of(rules, e)
                /\ Of(values', e) = Of(values, e)
<1>1. ASSUME NEW table, NEW N, \A r \in N : r.config = c
      PROVE  Of((table \ Of(table, c)) \cup N, c) = N
  BY <1>1 DEF Of
<1>2. /\ \A g \in G : g.config = c
      /\ \A p \in P : p.config = c
      /\ \A r \in R : r.config = c
  BY DEF New
<1>3. /\ Of(groups', c) = G /\ Of(providers', c) = P
      /\ Of(rules', c) = R /\ Of(values', c) = V
  BY <1>1, <1>2 DEF Replaces
<1>4. ASSUME NEW e, e # c
      PROVE  /\ Of(groups', e) = Of(groups, e) /\ Of(providers', e) = Of(providers, e)
             /\ Of(rules', e) = Of(rules, e) /\ Of(values', e) = Of(values, e)
  <2>1. ASSUME NEW table, NEW N, \A r \in N : r.config = c
        PROVE  Of((table \ Of(table, c)) \cup N, e) = Of(table, e)
    BY <1>4, <2>1 DEF Of
  <2> QED BY <1>2, <2>1 DEF Replaces
<1>5. /\ lastId.groups \in Nat
      /\ \A g \in groups : g.id \in Nat /\ g.id <= lastId.groups
      /\ \A m \in members : m.group \in Nat /\ m.group <= lastId.groups
  BY MemberIssued DEF IInv, Issued, TypeOK
<1>6. /\ \A g \in G : g.id \in Nat /\ g.id > lastId.groups
      /\ \A m \in M : m.group \in Nat /\ m.group > lastId.groups
      /\ \A m \in M : \E g \in G : g.id = m.group
  BY DEF New, GroupType, MemberType, MemberWithin
<1>7. members' = (members \ MembersOf(c)) \cup M
  BY DEF Replaces
<1>8. MembersOf(c)' = M
  <2>1. MembersOf(c)' = {m \in members' : \E g \in G : g.id = m.group}
    BY <1>3 DEF MembersOf
  <2>2. \A m \in members, g \in G : g.id # m.group
    BY <1>5, <1>6
  <2> QED BY <1>6, <1>7, <2>1, <2>2
<1>9. ASSUME NEW e, e # c PROVE MembersOf(e)' = MembersOf(e)
  <2>1. \A g \in Of(groups, e) : \A m \in M : g.id # m.group
    <3>1. \A g \in Of(groups, e) : g \in groups
      BY DEF Of
    <3> QED BY <1>5, <1>6, <3>1
  <2>2. \A g \in Of(groups, e) : \A h \in Of(groups, c) : g.id # h.id
    BY <1>9 DEF IInv, Rows, Unique, Of
  <2>3. \A m : (\E g \in Of(groups, e) : g.id = m.group) => m \notin M /\ m \notin MembersOf(c)
    BY <2>1, <2>2 DEF MembersOf
  <2>4. MembersOf(e)' = {m \in members' : \E g \in Of(groups, e) : g.id = m.group}
    BY <1>4, <1>9 DEF MembersOf
  <2> QED BY <1>7, <2>3, <2>4 DEF MembersOf
<1> QED BY <1>3, <1>4, <1>8, <1>9

-----------------------------------------------------------------------------
(* A save writes the rows of its draft. *)

LEMMA LocatedDraft ==
    ASSUME NEW ref, NEW base, NEW n, NEW gid, validateRef(ref, n),
           \A k \in 1 .. n : gid[k] = base + k
    PROVE  Resolved(ref, base) = Located(ref, gid)
BY DEF Resolved, Located, validateRef

LEMMA DraftSpells ==
    ASSUME IInv, NEW d \in ValidDrafts, NEW c \in ConfigId
    PROVE  \E gid, pid, rid :
             Spells(d, c, gid, pid, rid, DraftGroups(d, c), DraftMembers(d),
                    DraftProviders(d, c), DraftRules(d, c),
                    {[config |-> c, value |-> d.value]})
<1> DEFINE Q == DOMAIN d.rules
           m == Len(d.groups)
           n == Len(d.providers)
           g0 == lastId.groups
           p0 == lastId.providers
           rest == rules \ Of(rules, c)
           r0 == MaxRuleId(rest, c)
           gid == [k \in 1 .. m |-> g0 + k]
           pid == [k \in 1 .. n |-> p0 + k]
           rid == [q \in Q |-> r0 + Rank(Q, q)]
<1>1. /\ g0 \in Nat /\ p0 \in Nat /\ m \in Nat /\ n \in Nat
      /\ DOMAIN d.groups = 1 .. m /\ DOMAIN d.providers = 1 .. n
  BY DraftTypes DEF IInv, Issued
<1>2. IsFiniteSet(Q) /\ Q \in SUBSET Seq(Nat)
  BY DraftTypes
<1>3. r0 \in Nat
  <2>1. IsFiniteSet(rules) /\ rules \subseteq RuleType
    BY Typed DEF IInv, Finite, TablesTyped
  <2>2. IsFiniteSet(rest) /\ \A s \in rest : s.id \in Nat
    BY <2>1, FS_Subset DEF RuleType
  <2> HIDE DEF rest
  <2> QED BY <2>2, MaxRuleIdBounds
<1> HIDE DEF g0, p0, r0, m, n
<1>4. /\ gid \in Injection(1 .. m, Nat \ {0}) /\ \A k \in 1 .. m : gid[k] = g0 + k
      /\ pid \in Injection(1 .. n, Nat \ {0}) /\ \A k \in 1 .. n : pid[k] = p0 + k
  BY <1>1 DEF Injection, IsInjective
<1>5. rid \in Injection(Q, Nat \ {0}) /\ \A q \in Q : rid[q] = r0 + Rank(Q, q)
  <2> HIDE DEF Q
  <2>1. \A q \in Q : Rank(Q, q) \in Nat \ {0}
    BY <1>2, RankRange
  <2>2. \A p, q \in Q : Rank(Q, p) = Rank(Q, q) => p = q
    BY <1>2, RankApart
  <2>3. \A q \in Q : r0 + Rank(Q, q) \in Nat \ {0}
    BY <1>3, <2>1
  <2>4. \A p, q \in Q : r0 + Rank(Q, p) = r0 + Rank(Q, q) => p = q
    BY <1>3, <2>1, <2>2
  <2> QED BY <2>3, <2>4 DEF Injection, IsInjective
<1> HIDE DEF gid, pid, rid
<1>6. \A g : g \in DraftGroups(d, c) <=> \E k \in 1 .. m : g = GroupRow(d, c, gid, k)
  BY <1>1, <1>4 DEF DraftGroups, GroupRow, g0
<1>7. \A p : p \in DraftProviders(d, c) <=> \E k \in 1 .. n : p = ProviderRow(d, c, pid, k)
  BY <1>1, <1>4 DEF DraftProviders, ProviderRow, p0
<1>8. \A x : x \in DraftMembers(d) <=>
               \E k \in DOMAIN d.groups : \E j \in DOMAIN d.groups[k].members :
                 x = MemberRow(d, gid, k, j)
  <2> DEFINE row(k, j) == [group |-> g0 + k, pos |-> j,
                           ref |-> Resolved(d.groups[k].members[j], g0)]
  <2>1. \A x : x \in DraftMembers(d) <=>
                 \E k \in DOMAIN d.groups : \E j \in DOMAIN d.groups[k].members : x = row(k, j)
    BY DEF DraftMembers, g0
  <2>2. ASSUME NEW k \in DOMAIN d.groups, NEW j \in DOMAIN d.groups[k].members
        PROVE  row(k, j) = MemberRow(d, gid, k, j)
    <3>1. validateRef(d.groups[k].members[j], m)
      BY DraftTypes DEF m
    <3>2. Resolved(d.groups[k].members[j], g0) = Located(d.groups[k].members[j], gid)
      BY <1>4, <3>1, LocatedDraft
    <3>3. gid[k] = g0 + k
      BY <1>1, <1>4
    <3> QED BY <3>2, <3>3 DEF MemberRow
  <2> HIDE DEF row
  <2> QED BY <2>1, <2>2
<1>9. \A x : x \in DraftRules(d, c) <=> \E q \in Q : x = RuleRow(d, c, gid, pid, rid, q)
  <2> DEFINE row(q) == [id |-> r0 + Rank(Q, q), config |-> c,
                        parent |-> IF Len(q) = 1 THEN 0 ELSE r0 + Rank(Q, Prefix(q)),
                        pos |-> q[Len(q)],
                        provider |-> IF d.rules[q].provider = 0 THEN 0
                                     ELSE p0 + d.rules[q].provider,
                        target |-> Resolved(d.rules[q].target, g0)]
  <2>1. \A x : x \in DraftRules(d, c) <=> \E q \in Q : x = row(q)
    BY DEF DraftRules, g0, p0, r0
  <2>2. ASSUME NEW q \in Q PROVE row(q) = RuleRow(d, c, gid, pid, rid, q)
    <3>1. /\ validateRef(d.rules[q].target, m) /\ d.rules[q].provider \in 0 .. n
          /\ Len(q) \in Nat \ {0} /\ (Len(q) > 1 => Prefix(q) \in Q)
      BY DraftTypes DEF m, n
    <3>2. Resolved(d.rules[q].target, g0) = Located(d.rules[q].target, gid)
      BY <1>4, <3>1, LocatedDraft
    <3>3. d.rules[q].provider # 0 => pid[d.rules[q].provider] = p0 + d.rules[q].provider
      <4>1. d.rules[q].provider # 0 => d.rules[q].provider \in 1 .. n
        BY <1>1, <3>1
      <4> QED BY <1>4, <4>1
    <3>4. Len(q) # 1 => rid[Prefix(q)] = r0 + Rank(Q, Prefix(q))
      <4>1. \A i \in Nat \ {0} : i # 1 => i > 1
        OBVIOUS
      <4>2. Len(q) # 1 => Prefix(q) \in Q
        BY <3>1, <4>1
      <4> QED BY <1>5, <4>2
    <3>5. rid[q] = r0 + Rank(Q, q)
      BY <1>5
    <3> HIDE DEF Q
    <3> QED BY <3>2, <3>3, <3>4, <3>5 DEF RuleRow
  <2> HIDE DEF row, Q
  <2> QED BY <2>1, <2>2
<1>10. Spells(d, c, gid, pid, rid, DraftGroups(d, c), DraftMembers(d),
              DraftProviders(d, c), DraftRules(d, c), {[config |-> c, value |-> d.value]})
  BY <1>1, <1>4, <1>5, <1>6, <1>7, <1>8, <1>9 DEF Spells
<1> QED BY <1>10

-----------------------------------------------------------------------------
(* A clone writes the rows of the base's draft, under new ids. *)

(* Copies of rows, as the clone writes them. *)
CopiedGroup(x, i, c) == [x EXCEPT !.id = i, !.config = c]
CopiedMember(x, i, r) == [x EXCEPT !.group = i, !.ref = r]
CopiedRule(x, i, c, p, q, t) ==
    [x EXCEPT !.id = i, !.config = c, !.parent = p, !.provider = q, !.target = t]

LEMMA GroupCopied ==
    ASSUME NEW x, NEW a, NEW b, NEW e, NEW s, x = [id |-> a, config |-> b, pos |-> e, name |-> s],
           NEW i, NEW c
    PROVE  CopiedGroup(x, i, c) = [id |-> i, config |-> c, pos |-> e, name |-> s]
<1> DEFINE F == {"id", "config", "pos", "name"}
           y == [x EXCEPT !.id = i, !.config = c]
           z == [id |-> i, config |-> c, pos |-> e, name |-> s]
<1>1. /\ DOMAIN y = F
      /\ y["id"] = i /\ y["config"] = c /\ y["pos"] = e /\ y["name"] = s
  OBVIOUS
<1>2. y = [f \in F |-> y[f]]
  OBVIOUS
<1>3. z = [f \in F |-> z[f]]
  OBVIOUS
<1>4. z["id"] = i /\ z["config"] = c /\ z["pos"] = e /\ z["name"] = s
  OBVIOUS
<1> HIDE DEF y, z
<1>5. \A f \in F : y[f] = z[f]
  BY <1>1, <1>4
<1>6. y = z
  <2> HIDE DEF F
  <2> QED BY <1>2, <1>3, <1>5
<1> QED BY <1>6 DEF y, z, CopiedGroup

LEMMA ProviderCopied ==
    ASSUME NEW x, NEW a, NEW b, NEW s, x = [id |-> a, config |-> b, name |-> s],
           NEW i, NEW c
    PROVE  CopiedGroup(x, i, c) = [id |-> i, config |-> c, name |-> s]
<1> DEFINE F == {"id", "config", "name"}
           y == [x EXCEPT !.id = i, !.config = c]
           z == [id |-> i, config |-> c, name |-> s]
<1>1. /\ DOMAIN y = F
      /\ y["id"] = i /\ y["config"] = c /\ y["name"] = s
  OBVIOUS
<1>2. y = [f \in F |-> y[f]]
  OBVIOUS
<1>3. z = [f \in F |-> z[f]]
  OBVIOUS
<1>4. z["id"] = i /\ z["config"] = c /\ z["name"] = s
  OBVIOUS
<1> HIDE DEF y, z
<1>5. \A f \in F : y[f] = z[f]
  BY <1>1, <1>4
<1>6. y = z
  <2> HIDE DEF F
  <2> QED BY <1>2, <1>3, <1>5
<1> QED BY <1>6 DEF y, z, CopiedGroup

LEMMA MemberCopied ==
    ASSUME NEW a, NEW b, NEW e, NEW x, x = [group |-> a, pos |-> b, ref |-> e],
           NEW i, NEW r
    PROVE  CopiedMember(x, i, r) = [group |-> i, pos |-> b, ref |-> r]
<1> DEFINE F == {"group", "pos", "ref"}
           y == [x EXCEPT !.group = i, !.ref = r]
           z == [group |-> i, pos |-> b, ref |-> r]
<1>1. DOMAIN y = F /\ y["group"] = i /\ y["pos"] = b /\ y["ref"] = r
  OBVIOUS
<1>2. y = [f \in F |-> y[f]]
  OBVIOUS
<1>3. z = [f \in F |-> z[f]]
  OBVIOUS
<1>4. z["group"] = i /\ z["pos"] = b /\ z["ref"] = r
  OBVIOUS
<1> HIDE DEF y, z
<1>5. \A f \in F : y[f] = z[f]
  BY <1>1, <1>4
<1>6. y = z
  <2> HIDE DEF F
  <2> QED BY <1>2, <1>3, <1>5
<1> QED BY <1>6 DEF y, z, CopiedMember

LEMMA RuleCopied ==
    ASSUME NEW a, NEW b, NEW e, NEW s, NEW u, NEW v, NEW x,
           x = [id |-> a, config |-> b, parent |-> e, pos |-> s, provider |-> u, target |-> v],
           NEW i, NEW c, NEW p, NEW q, NEW t
    PROVE  CopiedRule(x, i, c, p, q, t)
             = [id |-> i, config |-> c, parent |-> p, pos |-> s, provider |-> q, target |-> t]
<1> DEFINE F == {"id", "config", "parent", "pos", "provider", "target"}
           y == [x EXCEPT !.id = i, !.config = c, !.parent = p, !.provider = q, !.target = t]
           z == [id |-> i, config |-> c, parent |-> p, pos |-> s, provider |-> q, target |-> t]
<1>1. /\ DOMAIN y = F
      /\ y["id"] = i /\ y["config"] = c /\ y["parent"] = p /\ y["pos"] = s
      /\ y["provider"] = q /\ y["target"] = t
  OBVIOUS
<1>2. y = [f \in F |-> y[f]]
  OBVIOUS
<1>3. z = [f \in F |-> z[f]]
  OBVIOUS
<1>4. z["id"] = i /\ z["config"] = c /\ z["parent"] = p /\ z["pos"] = s
      /\ z["provider"] = q /\ z["target"] = t
  OBVIOUS
<1> HIDE DEF y, z
<1>5. \A f \in F : y[f] = z[f]
  BY <1>1, <1>4
<1>6. y = z
  <2> HIDE DEF F
  <2> QED BY <1>2, <1>3, <1>5
<1> QED BY <1>6 DEF y, z, CopiedRule

LEMMA CloneSpells ==
    ASSUME IInv, NEW d \in ValidDrafts, NEW src, NEW dst \in ConfigId,
           NEW gid, NEW pid, NEW rid,
           Spells(d, src, gid, pid, rid, Of(groups, src), MembersOf(src),
                  Of(providers, src), Of(rules, src), Of(values, src))
    PROVE  \E gid2, pid2, rid2 :
             Spells(d, dst, gid2, pid2, rid2, ClonedGroups(src, dst), ClonedMembers(src),
                    ClonedProviders(src, dst), ClonedRules(src, dst), ClonedValues(src, dst))
<1> DEFINE K == DOMAIN d.groups
           L == DOMAIN d.providers
           Q == DOMAIN d.rules
           g(id) == CopyOf(groups, src, lastId.groups, id)
           p(id) == CopyOf(providers, src, lastId.providers, id)
           r(id) == CopyOf(rules, src, MaxRuleId(rules, src), id)
           gid2 == [k \in K |-> g(gid[k])]
           pid2 == [k \in L |-> p(pid[k])]
           rid2 == [q \in Q |-> r(rid[q])]
<1>1. /\ IsFiniteSet(groups) /\ IsFiniteSet(providers) /\ IsFiniteSet(rules)
      /\ lastId.groups \in Nat /\ lastId.providers \in Nat
      /\ \A x \in groups : x.id \in Nat
      /\ \A x \in providers : x.id \in Nat
      /\ \A x \in rules : x.id \in Nat
  BY DEF IInv, Issued, Finite, TypeOK
<1>2. MaxRuleId(rules, src) \in Nat
  BY <1>1, MaxRuleIdBounds
<1>3. /\ \A x : x \in Of(groups, src) <=> \E k \in K : x = GroupRow(d, src, gid, k)
      /\ \A x : x \in MembersOf(src) <=>
                  \E k \in K : \E j \in DOMAIN d.groups[k].members : x = MemberRow(d, gid, k, j)
      /\ \A x : x \in Of(providers, src) <=> \E k \in L : x = ProviderRow(d, src, pid, k)
      /\ \A x : x \in Of(rules, src) <=>
                  \E q \in Q : x = RuleRow(d, src, gid, pid, rid, q)
      /\ Of(values, src) = {[config |-> src, value |-> d.value]}
  BY DEF Spells
<1>4. /\ \A k \in K : gid[k] \in Nat \ {0} /\ \A j \in K : gid[j] = gid[k] => j = k
      /\ \A k \in L : pid[k] \in Nat \ {0} /\ \A j \in L : pid[j] = pid[k] => j = k
      /\ \A q \in Q : rid[q] \in Nat \ {0} /\ \A s \in Q : rid[s] = rid[q] => s = q
  BY DEF Spells, Injection, IsInjective
<1>5. gid2 \in Injection(K, Nat \ {0}) /\ \A k \in K : gid2[k] = g(gid[k])
  <2>1. ASSUME NEW k \in K
        PROVE  g(gid[k]) \in Nat \ {0} /\ \A j \in K : g(gid[k]) = g(gid[j]) => k = j
    <3>1. \A j \in K : \E x \in Of(groups, src) : x.id = gid[j]
      <4>1. \A j \in K : GroupRow(d, src, gid, j).id = gid[j]
        BY DEF GroupRow
      <4> QED BY <1>3, <4>1
    <3>2. \A x \in Of(groups, src) :
            /\ g(x.id) \in Nat \ {0}
            /\ \A y \in Of(groups, src) : g(x.id) = g(y.id) => x.id = y.id
      BY <1>1, CopyIds
    <3> HIDE DEF g, K
    <3> QED BY <1>4, <3>1, <3>2
  <2> HIDE DEF g
  <2> QED BY <2>1 DEF Injection, IsInjective
<1>6. pid2 \in Injection(L, Nat \ {0}) /\ \A k \in L : pid2[k] = p(pid[k])
  <2>1. ASSUME NEW k \in L
        PROVE  p(pid[k]) \in Nat \ {0} /\ \A j \in L : p(pid[k]) = p(pid[j]) => k = j
    <3>1. \A j \in L : \E x \in Of(providers, src) : x.id = pid[j]
      <4>1. \A j \in L : ProviderRow(d, src, pid, j).id = pid[j]
        BY DEF ProviderRow
      <4> QED BY <1>3, <4>1
    <3>2. \A x \in Of(providers, src) :
            /\ p(x.id) \in Nat \ {0}
            /\ \A y \in Of(providers, src) : p(x.id) = p(y.id) => x.id = y.id
      BY <1>1, CopyIds
    <3> HIDE DEF p, L
    <3> QED BY <1>4, <3>1, <3>2
  <2> HIDE DEF p
  <2> QED BY <2>1 DEF Injection, IsInjective
<1>7. rid2 \in Injection(Q, Nat \ {0}) /\ \A q \in Q : rid2[q] = r(rid[q])
  <2>1. ASSUME NEW q \in Q
        PROVE  r(rid[q]) \in Nat \ {0} /\ \A s \in Q : r(rid[q]) = r(rid[s]) => q = s
    <3>1. \A s \in Q : \E x \in Of(rules, src) : x.id = rid[s]
      <4>1. \A s \in Q : RuleRow(d, src, gid, pid, rid, s).id = rid[s]
        BY DEF RuleRow
      <4> QED BY <1>3, <4>1
    <3>2. \A x \in Of(rules, src) :
            /\ r(x.id) \in Nat \ {0}
            /\ \A y \in Of(rules, src) : r(x.id) = r(y.id) => x.id = y.id
      BY <1>1, <1>2, CopyIds
    <3> HIDE DEF r, Q
    <3> QED BY <1>4, <3>1, <3>2
  <2> HIDE DEF r
  <2> QED BY <2>1 DEF Injection, IsInjective
<1>8. ASSUME NEW ref, validateRef(ref, Len(d.groups))
      PROVE  Remap(Located(ref, gid), src) = Located(ref, gid2)
  <2>1. ref.kind = "group" => ref.to \in K
    BY <1>8, DraftTypes DEF validateRef
  <2>2. ref.kind = "group" => gid2[ref.to] = g(gid[ref.to])
    BY <1>5, <2>1
  <2> HIDE DEF gid2
  <2> QED BY <2>2 DEF Remap, Located, Ref
<1> HIDE DEF gid2, pid2, rid2
<1>9. \A x : x \in ClonedGroups(src, dst) <=> \E k \in K : x = GroupRow(d, dst, gid2, k)
  <2> DEFINE copy(x) == CopiedGroup(x, g(x.id), dst)
  <2>1. \A x : x \in ClonedGroups(src, dst) <=> \E y \in Of(groups, src) : x = copy(y)
    BY DEF ClonedGroups, CopiedGroup
  <2>2. ASSUME NEW k \in K
        PROVE  copy(GroupRow(d, src, gid, k)) = GroupRow(d, dst, gid2, k)
    <3> DEFINE x == GroupRow(d, src, gid, k)
    <3>1. /\ x = [id |-> gid[k], config |-> src, pos |-> k, name |-> d.groups[k].name]
          /\ x.id = gid[k]
      BY DEF GroupRow
    <3> HIDE DEF x, g
    <3>2. copy(x) = [id |-> g(x.id), config |-> dst, pos |-> k, name |-> d.groups[k].name]
      BY <3>1, GroupCopied
    <3>3. g(x.id) = gid2[k]
      BY <1>5, <3>1
    <3> HIDE DEF copy
    <3>4. copy(x) = GroupRow(d, dst, gid2, k)
      BY <3>2, <3>3 DEF GroupRow
    <3> QED BY <3>4 DEF x
  <2> HIDE DEF copy
  <2> QED BY <1>3, <2>1, <2>2
<1>10. \A x : x \in ClonedProviders(src, dst) <=> \E k \in L : x = ProviderRow(d, dst, pid2, k)
  <2> DEFINE copy(x) == CopiedGroup(x, p(x.id), dst)
  <2>1. \A x : x \in ClonedProviders(src, dst) <=> \E y \in Of(providers, src) : x = copy(y)
    BY DEF ClonedProviders, CopiedGroup
  <2>2. ASSUME NEW k \in L
        PROVE  copy(ProviderRow(d, src, pid, k)) = ProviderRow(d, dst, pid2, k)
    <3> DEFINE x == ProviderRow(d, src, pid, k)
    <3>1. /\ x = [id |-> pid[k], config |-> src, name |-> d.providers[k]]
          /\ x.id = pid[k]
      BY DEF ProviderRow
    <3> HIDE DEF x, p
    <3>2. copy(x) = [id |-> p(x.id), config |-> dst, name |-> d.providers[k]]
      BY <3>1, ProviderCopied
    <3>3. p(x.id) = pid2[k]
      BY <1>6, <3>1
    <3> HIDE DEF copy
    <3>4. copy(x) = ProviderRow(d, dst, pid2, k)
      BY <3>2, <3>3 DEF ProviderRow
    <3> QED BY <3>4 DEF x
  <2> HIDE DEF copy
  <2> QED BY <1>3, <2>1, <2>2
<1>11. \A x : x \in ClonedMembers(src) <=>
                \E k \in K : \E j \in DOMAIN d.groups[k].members : x = MemberRow(d, gid2, k, j)
  <2> DEFINE copy(x) == CopiedMember(x, g(x.group), Remap(x.ref, src))
  <2>1. \A x : x \in ClonedMembers(src) <=> \E y \in MembersOf(src) : x = copy(y)
    BY DEF ClonedMembers, CopiedMember
  <2>2. ASSUME NEW k \in K, NEW j \in DOMAIN d.groups[k].members
        PROVE  copy(MemberRow(d, gid, k, j)) = MemberRow(d, gid2, k, j)
    <3>1. validateRef(d.groups[k].members[j], Len(d.groups))
      BY DraftTypes
    <3>2. Remap(Located(d.groups[k].members[j], gid), src) = Located(d.groups[k].members[j], gid2)
      BY <1>8, <3>1
    <3>3. gid2[k] = g(gid[k])
      BY <1>5
    <3> DEFINE x == MemberRow(d, gid, k, j)
               to == Located(d.groups[k].members[j], gid)
    <3>4. /\ x = [group |-> gid[k], pos |-> j, ref |-> to]
          /\ x.group = gid[k] /\ x.ref = to
      BY DEF MemberRow
    <3> HIDE DEF x, g
    <3>5. copy(x) = [group |-> g(x.group), pos |-> j, ref |-> Remap(x.ref, src)]
      <4> HIDE DEF to
      <4> QED BY <3>4, MemberCopied
    <3>6. g(x.group) = gid2[k] /\ Remap(x.ref, src) = Located(d.groups[k].members[j], gid2)
      BY <3>2, <3>3, <3>4
    <3> HIDE DEF copy
    <3>7. copy(x) = MemberRow(d, gid2, k, j)
      BY <3>5, <3>6 DEF MemberRow
    <3> QED BY <3>7 DEF x
  <2> HIDE DEF copy
  <2> QED BY <1>3, <2>1, <2>2
<1>12. \A x : x \in ClonedRules(src, dst) <=> \E q \in Q : x = RuleRow(d, dst, gid2, pid2, rid2, q)
  <2> DEFINE copy(x) ==
               CopiedRule(x, r(x.id), dst, CopiedParent(x, src),
                          IF x.provider = 0 THEN 0 ELSE p(x.provider), Remap(x.target, src))
  <2>1. \A x : x \in ClonedRules(src, dst) <=> \E y \in Of(rules, src) : x = copy(y)
    BY DEF ClonedRules, CopiedRule
  <2>2. ASSUME NEW q \in Q
        PROVE  copy(RuleRow(d, src, gid, pid, rid, q)) = RuleRow(d, dst, gid2, pid2, rid2, q)
    <3> DEFINE row == RuleRow(d, src, gid, pid, rid, q)
    <3>1. /\ validateRef(d.rules[q].target, Len(d.groups))
          /\ d.rules[q].provider \in 0 .. Len(d.providers) /\ Len(d.providers) \in Nat
          /\ Len(q) \in Nat \ {0} /\ (Len(q) > 1 => Prefix(q) \in Q)
          /\ L = 1 .. Len(d.providers)
      BY DraftTypes
    <3>2. Remap(Located(d.rules[q].target, gid), src) = Located(d.rules[q].target, gid2)
      BY <1>8, <3>1
    <3>3. (IF row.provider = 0 THEN 0 ELSE p(row.provider)) =
            IF d.rules[q].provider = 0 THEN 0 ELSE pid2[d.rules[q].provider]
      <4>1. d.rules[q].provider # 0 => d.rules[q].provider \in L
        BY <3>1
      <4>2. row.provider = IF d.rules[q].provider = 0 THEN 0 ELSE pid[d.rules[q].provider]
        BY DEF RuleRow
      <4> HIDE DEF row, p, L
      <4> QED BY <1>4, <1>6, <4>1, <4>2
    <3>4. CopiedParent(row, src) = IF Len(q) = 1 THEN 0 ELSE rid2[Prefix(q)]
      <4>1. \A i \in Nat \ {0} : i # 1 => i > 1
        OBVIOUS
      <4>2. Len(q) # 1 => Prefix(q) \in Q
        BY <3>1, <4>1
      <4>3. row.parent = IF Len(q) = 1 THEN 0 ELSE rid[Prefix(q)]
        BY DEF RuleRow
      <4>4. CopiedParent(row, src) = IF row.parent = 0 THEN 0 ELSE r(row.parent)
        BY DEF CopiedParent
      <4> HIDE DEF row, r, Q
      <4> QED BY <1>4, <1>7, <4>2, <4>3, <4>4
    <3>5. rid2[q] = r(rid[q])
      BY <1>7
    <3>6. /\ row = [id |-> row.id, config |-> src, parent |-> row.parent, pos |-> row.pos,
                   provider |-> row.provider, target |-> row.target]
          /\ row.id = rid[q] /\ row.pos = q[Len(q)]
          /\ row.target = Located(d.rules[q].target, gid)
      BY DEF RuleRow
    <3> HIDE DEF row, r, p
    <3>7. copy(row) = [id |-> r(row.id), config |-> dst, parent |-> CopiedParent(row, src),
                       pos |-> row.pos, provider |-> IF row.provider = 0 THEN 0 ELSE p(row.provider),
                       target |-> Remap(row.target, src)]
      BY <3>6, RuleCopied
    <3> HIDE DEF copy
    <3>8. copy(row) = RuleRow(d, dst, gid2, pid2, rid2, q)
      BY <3>2, <3>3, <3>4, <3>5, <3>6, <3>7 DEF RuleRow
    <3> QED BY <3>8 DEF row
  <2> HIDE DEF copy
  <2> QED BY <1>3, <2>1, <2>2
<1>13. ClonedValues(src, dst) = {[config |-> dst, value |-> d.value]}
  BY <1>3 DEF ClonedValues
<1>14. Spells(d, dst, gid2, pid2, rid2, ClonedGroups(src, dst), ClonedMembers(src),
              ClonedProviders(src, dst), ClonedRules(src, dst), ClonedValues(src, dst))
  BY <1>5, <1>6, <1>7, <1>9, <1>10, <1>11, <1>12, <1>13 DEF Spells
<1> QED BY <1>14

-----------------------------------------------------------------------------
(* Every config has no rows yet, or those of the draft that was last saved *)
(* to it or to the base it is a copy of. *)

Blank(c) == /\ Of(groups, c) = {} /\ Of(providers, c) = {}
            /\ Of(rules, c) = {} /\ Of(values, c) = {}
Told(c, d) ==
    \E gid, pid, rid : Spells(d, c, gid, pid, rid, Of(groups, c), MembersOf(c),
                              Of(providers, c), Of(rules, c), Of(values, c))
Spelling ==
    /\ Anchored(values, anchors)
    /\ \A x \in anchors : Blank(x.id) \/ \E d \in ValidDrafts : Told(x.id, d)

LEMMA HeldBlank ==
    ASSUME NEW c, Blank(c)
    PROVE  Held(c) = EmptyContent
<1>1. MembersOf(c) = {}
  BY DEF Blank, MembersOf
<1> QED BY <1>1, EmptySpelledOut DEF Blank, Held

LEMMA HeldTold ==
    ASSUME NEW c, NEW d \in ValidDrafts, Told(c, d)
    PROVE  Held(c) = Meant(d)
BY SpelledOut DEF Told, Held

LEMMA HeldContent ==
    ASSUME Spelling, NEW x \in anchors
    PROVE  Held(x.id) \in Contents \cup {EmptyContent} /\ Held(x.id) # Absent
<1>1. CASE Blank(x.id)
  BY <1>1, HeldBlank, AbsentAssumption DEF AbsentAssumption
<1>2. ASSUME NEW d \in ValidDrafts, Told(x.id, d)
      PROVE  Held(x.id) \in Contents \cup {EmptyContent} /\ Held(x.id) # Absent
  BY <1>2, HeldTold, AbsentAssumption DEF AbsentAssumption, Contents
<1> QED BY <1>1, <1>2 DEF Spelling

SameRows(e) ==
    /\ Of(groups, e)' = Of(groups, e) /\ MembersOf(e)' = MembersOf(e)
    /\ Of(providers, e)' = Of(providers, e) /\ Of(rules, e)' = Of(rules, e)
    /\ Of(values, e)' = Of(values, e)

LEMMA SameHeld ==
    ASSUME NEW e, SameRows(e)
    PROVE  /\ Held(e)' = Held(e)
           /\ Blank(e) \/ (\E d \in ValidDrafts : Told(e, d)) =>
                Blank(e)' \/ (\E d \in ValidDrafts : Told(e, d)')
<1>1. Held(e)' = Held(e)
  BY DEF SameRows, Held
<1>2. Blank(e) => Blank(e)'
  BY DEF SameRows, Blank
<1>3. \A d : Told(e, d) => Told(e, d)'
  BY DEF SameRows, Told
<1> QED BY <1>1, <1>2, <1>3

LEMMA ContentOf ==
    ASSUME IInv, NEW x \in anchors
    PROVE  /\ x.owner \in Owner /\ ConfigsOf(x.owner) = {x.id}
           /\ content[x.owner] = Held(x.id)
<1>1. x.owner \in Owner /\ ConfigsOf(x.owner) = {x.id}
  BY DEF IInv, Anchors, TypeOK, ConfigsOf
<1>2. (CHOOSE c \in {x.id} : TRUE) = x.id
  OBVIOUS
<1> QED BY <1>1, <1>2 DEF content

LEMMA NoContent ==
    ASSUME NEW o \in Owner, ConfigsOf(o) = {}
    PROVE  content[o] = Absent
BY DEF content

LEMMA ContentNext ==
    ASSUME NEW o \in Owner, NEW v, content'[o] = v,
           \A e \in Owner : e # o => content'[e] = content[e]
    PROVE  content' = [content EXCEPT ![o] = v]
<1>1. /\ content = [e \in Owner |-> content[e]]
      /\ content' = [e \in Owner |-> content'[e]]
  BY DEF content
<1> QED BY <1>1

ContentHeld ==
    \A x \in anchors : content[x.owner] = Held(x.id)

LEMMA ContentIs == IInv => ContentHeld
BY ContentOf DEF ContentHeld

(* A step that touches the config of one owner. *)
LEMMA Elsewhere ==
    ASSUME IInv, IInv', NEW o \in Owner,
           \A x : x.owner # o => (x \in anchors <=> x \in anchors'),
           \A x \in anchors : x.owner # o => SameRows(x.id)
    PROVE  \A e \in Owner : e # o => content'[e] = content[e]
<1> SUFFICES ASSUME NEW e \in Owner, e # o PROVE content'[e] = content[e]
  OBVIOUS
<1>1. CASE ConfigsOf(e) = {}
  <2>1. ConfigsOf(e)' = {}
    BY <1>1 DEF ConfigsOf
  <2> QED BY <1>1, <2>1 DEF content
<1>2. CASE ConfigsOf(e) # {}
  <2>1. PICK x \in anchors : x.owner = e
    BY <1>2 DEF ConfigsOf
  <2>2. x \in anchors' /\ Held(x.id)' = Held(x.id)
    BY <2>1, SameHeld
  <2>3. content[e] = Held(x.id)
    BY <2>1, ContentOf
  <2>4. content'[e] = Held(x.id)'
    <3>1. ContentHeld'
      BY ContentIs, PTL
    <3> QED BY <2>1, <2>2, <3>1 DEF ContentHeld
  <2> QED BY <2>2, <2>3, <2>4
<1> QED BY <1>1, <1>2

(* A config that is not there yet has no rows. *)
LEMMA FreshBlank ==
    ASSUME IInv, Spelling
    PROVE  Blank(lastId.anchors + 1) /\ \A x \in anchors : x.id # lastId.anchors + 1
<1> DEFINE c == lastId.anchors + 1
<1>1. \A x \in anchors : x.id # c
  <2>1. \A x \in anchors : x.id \in Nat /\ x.id <= lastId.anchors
    BY DEF IInv, TypeOK, Issued, ConfigId
  <2>2. lastId.anchors \in Nat
    BY DEF IInv, Issued
  <2> QED BY <2>1, <2>2
<1> HIDE DEF c
<1>2. /\ Anchored(groups, anchors) /\ Anchored(providers, anchors)
      /\ Anchored(rules, anchors) /\ Anchored(values, anchors)
  BY DEF IInv, Rows, Spelling
<1>3. Blank(c)
  BY <1>1, <1>2 DEF Blank, Of, Anchored
<1> QED BY <1>1, <1>3 DEF c

(* New rows at c are none at all, or those of a draft. *)
Filled(c, G, M, P, R, V) ==
    \/ G = {} /\ P = {} /\ R = {} /\ V = {}
    \/ \E d \in ValidDrafts : \E gid, pid, rid : Spells(d, c, gid, pid, rid, G, M, P, R, V)

LEMMA ReplacedSpelling ==
    ASSUME IInv, Spelling, NEW c, NEW G, NEW M, NEW P, NEW R, NEW V,
           New(c, G, M, P, R, V), Replaces(c, G, M, P, R, V),
           \A v \in V : v.config = c, Filled(c, G, M, P, R, V),
           \A x \in anchors' : x \in anchors \/ x.id = c,
           (\E x \in anchors' : x.id = c) \/ V = {}
    PROVE  /\ Spelling' /\ \A e : e # c => SameRows(e)
           /\ Held(c)' = Assembled(G, M, P, R, V)
<1>1. /\ Of(groups, c)' = G /\ MembersOf(c)' = M /\ Of(providers, c)' = P
      /\ Of(rules, c)' = R /\ Of(values, c)' = V
  BY Replaced DEF Of
<1>2. ASSUME NEW e, e # c PROVE SameRows(e)
  <2>1. /\ Of(groups', e) = Of(groups, e) /\ MembersOf(e)' = MembersOf(e)
        /\ Of(providers', e) = Of(providers, e) /\ Of(rules', e) = Of(rules, e)
        /\ Of(values', e) = Of(values, e)
    BY <1>2, Replaced
  <2> QED BY <2>1 DEF SameRows, Of
<1>3. Held(c)' = Assembled(G, M, P, R, V)
  BY <1>1 DEF Held
<1>4. Anchored(values', anchors')
  <2>1. ASSUME NEW v \in values' PROVE \E x \in anchors' : x.id = v.config
    <3>1. CASE v \in V
      BY <3>1
    <3>2. CASE (v \in values /\ v.config # c)
      <4>1. PICK x \in anchors : x.id = v.config
        BY <3>2 DEF Spelling, Anchored
      <4> QED BY <3>2, <4>1 DEF Replaces
    <3>3. v \in V \/ (v \in values /\ v.config # c)
      BY DEF Replaces, Of
    <3> QED BY <3>1, <3>2, <3>3
  <2> QED BY <2>1 DEF Anchored
<1>5. ASSUME NEW x \in anchors' PROVE Blank(x.id)' \/ \E d \in ValidDrafts : Told(x.id, d)'
  <2>1. CASE x.id = c
    <3>1. Blank(c)' \/ \E d \in ValidDrafts : Told(c, d)'
      BY <1>1 DEF Filled, Blank, Told
    <3> QED BY <2>1, <3>1 DEF Blank, Told
  <2>2. CASE x.id # c
    <3>1. x \in anchors /\ SameRows(x.id)
      BY <1>2, <2>2
    <3> QED BY <3>1, SameHeld DEF Spelling
  <2> QED BY <2>1, <2>2
<1>6. Spelling'
  BY <1>4, <1>5 DEF Spelling
<1> QED BY <1>2, <1>3, <1>6

LEMMA StutterSpells ==
    ASSUME Spelling, UNCHANGED <<anchors, tables>>
    PROVE  Spelling' /\ content' = content
<1>2. Spelling'
  BY DEF Spelling, Anchored, Blank, Told, Of, MembersOf, tables
<1>3. content' = content
  BY DEF content, ConfigsOf, Held, Of, MembersOf, tables
<1> QED BY <1>2, <1>3

-----------------------------------------------------------------------------
(* Steps of the store as steps of its promise. *)

LEMMA EnsureBaseTold ==
    ASSUME IInv, IInv', Spelling, NEW a \in Admin, EnsureBase(a)
    PROVE  Spelling' /\ (Profiles!Ensure \/ content' = content)
<1>1. UNCHANGED tables
  BY DEF EnsureBase
<1>2. CASE ConfigsOf(Base) # {}
  <2>1. UNCHANGED <<anchors, tables>>
    BY <1>1, <1>2 DEF EnsureBase
  <2> QED BY <2>1, StutterSpells
<1>3. CASE ConfigsOf(Base) = {}
  <2>1. PICK c : c = lastId.anchors + 1
    OBVIOUS
  <2> DEFINE new == [id |-> c, owner |-> Base]
  <2>2. anchors' = anchors \cup {new} /\ new.id = c /\ new.owner = Base
    BY <1>3, <2>1 DEF EnsureBase
  <2>3. Blank(c)
    BY <2>1, FreshBlank
  <2> HIDE DEF new
  <2>4. \A e : SameRows(e)
    BY <1>1 DEF SameRows, Of, MembersOf, tables
  <2>5. Held(c)' = EmptyContent
    <3>1. Held(c)' = Held(c)
      BY <2>4, SameHeld
    <3> QED BY <2>3, <3>1, HeldBlank
  <2>6. Base \in Owner
    BY DEF Owner
  <2>7. content'[Base] = EmptyContent
    <3>1. ContentHeld'
      BY ContentIs, PTL
    <3> QED BY <2>2, <2>5, <3>1 DEF ContentHeld
  <2>8. \A e \in Owner : e # Base => content'[e] = content[e]
    BY <2>2, <2>4, <2>6, Elsewhere
  <2>9. content' = [content EXCEPT ![Base] = EmptyContent]
    BY <2>6, <2>7, <2>8, ContentNext
  <2>10. content[Base] = Absent
    BY <1>3, <2>6, NoContent
  <2>11. Spelling'
    <3>1. Anchored(values', anchors')
      BY <1>1, <2>2 DEF Spelling, Anchored, tables
    <3>2. ASSUME NEW x \in anchors' PROVE Blank(x.id)' \/ \E d \in ValidDrafts : Told(x.id, d)'
      <4>1. CASE x = new
        <5>1. SameRows(c)
          BY <2>4
        <5>2. Blank(c)'
          BY <2>3, <5>1 DEF SameRows, Blank
        <5> QED BY <2>2, <4>1, <5>2
      <4>2. CASE x \in anchors
        BY <2>4, <4>2, SameHeld DEF Spelling
      <4> QED BY <2>2, <4>1, <4>2
    <3> QED BY <3>1, <3>2 DEF Spelling
  <2> QED BY <2>9, <2>10, <2>11 DEF Profiles!Ensure
<1> QED BY <1>2, <1>3

LEMMA SaveTold ==
    ASSUME IInv, IInv', Spelling, NEW a \in Admin, SaveMihomoConfig(a)
    PROVE  Spelling' /\ ((\E o \in Owner : Profiles!Save(o)) \/ content' = content)
<1>0. PICK d, c, o : d = req[a].draft /\ c = req[a].config /\ o = req[a].owner
  OBVIOUS
<1> DEFINE stores == /\ \E r \in anchors : r.id = c
                     /\ ~NamesTwice(d)
                     /\ InboundsIn(DraftMembers(d), DraftRules(d, c)) \subseteq inbounds
<1>1. req[a].pc = "save" /\ UNCHANGED <<anchors, inbounds>>
  BY DEF SaveMihomoConfig
<1>2. CASE ~stores
  <2>1. UNCHANGED <<anchors, tables>>
    BY <1>0, <1>1, <1>2 DEF SaveMihomoConfig
  <2> QED BY <2>1, StutterSpells
<1>3. CASE stores
  <2> DEFINE G == DraftGroups(d, c)
             M == DraftMembers(d)
             P == DraftProviders(d, c)
             R == DraftRules(d, c)
             V == {[config |-> c, value |-> d.value]}
  <2>1. PICK x \in anchors : x.id = c
    BY <1>3
  <2>2. d \in ValidDrafts /\ x.owner = o /\ c \in ConfigId
    BY <1>0, <1>1, <2>1 DEF IInv, Owned, TypeOK, Idle
  <2>3. New(c, G, M, P, R, V)
    BY <1>3, <2>2, DraftIsNew
  <2>4. Replaces(c, G, M, P, R, V)
    <3>1. /\ groups' = (groups \ Of(groups, c)) \cup G
          /\ members' = (members \ MembersOf(c)) \cup M
          /\ providers' = (providers \ Of(providers, c)) \cup P
          /\ rules' = (rules \ Of(rules, c)) \cup R
          /\ values' = (values \ Of(values, c)) \cup V
      BY <1>0, <1>3 DEF SaveMihomoConfig, Cleared
    <3> HIDE DEF G, M, P, R, V
    <3> QED BY <1>1, <2>1, <3>1 DEF Replaces
  <2>5. PICK gid, pid, rid : Spells(d, c, gid, pid, rid, G, M, P, R, V)
    BY <2>2, DraftSpells
  <2>6. \A v \in V : v.config = c
    OBVIOUS
  <2> HIDE DEF G, M, P, R, V
  <2>7. /\ Spelling' /\ \A e : e # c => SameRows(e)
        /\ Held(c)' = Assembled(G, M, P, R, V)
    <3>1. Filled(c, G, M, P, R, V)
      BY <2>2, <2>5 DEF Filled
    <3> QED BY <1>1, <2>1, <2>3, <2>4, <2>6, <3>1, ReplacedSpelling
  <2>8. Assembled(G, M, P, R, V) = Meant(d)
    BY <2>2, <2>5, SpelledOut
  <2>9. o \in Owner /\ content[o] = Held(c) /\ content[o] # Absent
    BY <2>1, <2>2, ContentOf, HeldContent
  <2>10. content'[o] = Meant(d)
    <3>1. ContentHeld'
      BY ContentIs, PTL
    <3> QED BY <1>1, <2>1, <2>2, <2>7, <2>8, <3>1 DEF ContentHeld
  <2>11. \A e \in Owner : e # o => content'[e] = content[e]
    <3>1. \A y \in anchors : y.owner # o => y.id # c
      BY <2>1, <2>2 DEF IInv, Anchors, Unique
    <3> QED BY <1>1, <2>7, <2>9, <3>1, Elsewhere
  <2>12. content' = [content EXCEPT ![o] = Meant(d)]
    BY <2>9, <2>10, <2>11, ContentNext
  <2>13. Profiles!Save(o)
    BY <2>2, <2>9, <2>12 DEF Profiles!Save, Contents
  <2> QED BY <2>7, <2>9, <2>13
<1> QED BY <1>2, <1>3

LEMMA CreateTold ==
    ASSUME IInv, IInv', Spelling, NEW u \in User, CreateUserConfig(u)
    PROVE  Spelling' /\ Profiles!Clone(u)
<1>1. PICK c : c = lastId.anchors + 1
  OBVIOUS
<1> DEFINE new == [id |-> c, owner |-> u]
<1>2. /\ ConfigsOf(u) = {} /\ anchors' = anchors \cup {new} /\ inbounds' = inbounds
      /\ new.id = c /\ new.owner = u /\ u \in Owner /\ Base \in Owner
  BY <1>1 DEF CreateUserConfig, NextConfig, Owner
<1>3. Blank(c) /\ \A x \in anchors : x.id # c
  BY <1>1, FreshBlank
<1>4. c \in ConfigId
  <2>1. new \in anchors'
    BY <1>2
  <2>2. anchors' \subseteq [id : ConfigId, owner : Owner]
    BY DEF IInv, TypeOK
  <2> QED BY <1>2, <2>1, <2>2
<1> HIDE DEF new
<1>5. content[u] = Absent
  BY <1>2, NoContent
<1>6. /\ Spelling' /\ \A e : e # c => SameRows(e)
      /\ Held(c)' = IF content[Base] = Absent THEN EmptyContent ELSE content[Base]
  <2>1. CASE ConfigsOf(Base) = {}
    <3>1. UNCHANGED tables
      BY <2>1 DEF CreateUserConfig
    <3>2. \A e : SameRows(e)
      BY <3>1 DEF SameRows, Of, MembersOf, tables
    <3>3. Held(c)' = EmptyContent
      <4>1. Held(c)' = Held(c)
        BY <3>2, SameHeld
      <4> QED BY <1>3, <4>1, HeldBlank
    <3>4. content[Base] = Absent
      BY <1>2, <2>1, NoContent
    <3>5. Spelling'
      <4>1. Anchored(values', anchors')
        BY <1>2, <3>1 DEF Spelling, Anchored, tables
      <4>2. ASSUME NEW x \in anchors' PROVE Blank(x.id)' \/ \E d \in ValidDrafts : Told(x.id, d)'
        <5>1. Blank(x.id) \/ \E d \in ValidDrafts : Told(x.id, d)
          BY <1>2, <1>3 DEF Spelling
        <5> QED BY <3>2, <5>1, SameHeld
      <4> QED BY <4>1, <4>2 DEF Spelling
    <3> QED BY <3>2, <3>3, <3>4, <3>5
  <2>2. CASE ConfigsOf(Base) # {}
    <3>1. PICK b \in ConfigsOf(Base) : CloneConfig(b, c)
      BY <1>1, <2>2 DEF CreateUserConfig, NextConfig
    <3>2. PICK x \in anchors : x.id = b /\ x.owner = Base
      BY <3>1 DEF ConfigsOf
    <3> DEFINE G == ClonedGroups(b, c)
               M == ClonedMembers(b)
               P == ClonedProviders(b, c)
               R == ClonedRules(b, c)
               V == ClonedValues(b, c)
    <3>3. New(c, G, M, P, R, V)
      BY <1>4, CloneIsNew
    <3>4. Replaces(c, G, M, P, R, V)
      <4>1. /\ groups' = groups \cup G /\ members' = members \cup M
            /\ providers' = providers \cup P /\ rules' = rules \cup R
            /\ values' = values \cup V
        BY <3>1 DEF CloneConfig, ClonedGroups, ClonedMembers, ClonedRules
      <4>2. MembersOf(c) = {}
        BY <1>3 DEF Blank, MembersOf
      <4>3. (\E y \in anchors' : y.id = c) /\ anchors \subseteq anchors'
        BY <1>2
      <4> HIDE DEF G, M, P, R, V
      <4> QED BY <1>2, <1>3, <4>1, <4>2, <4>3 DEF Replaces, Blank
    <3>5. \A v \in V : v.config = c
      <4>1. \A v \in values : v \in [config : ConfigId, value : STRING]
        BY DEF IInv, TypeOK
      <4> QED BY <4>1 DEF ClonedValues, Of
    <3>6. Filled(c, G, M, P, R, V) /\ Assembled(G, M, P, R, V) = Held(b)
      <4>1. CASE Blank(b)
        <5>1. MembersOf(b) = {}
          BY <4>1 DEF Blank, MembersOf
        <5>2. G = {} /\ M = {} /\ P = {} /\ R = {} /\ V = {}
          BY <4>1, <5>1 DEF Blank, ClonedGroups, ClonedMembers, ClonedProviders,
                            ClonedRules, ClonedValues
        <5> HIDE DEF G, M, P, R, V
        <5> QED BY <4>1, <5>2, HeldBlank, EmptySpelledOut DEF Filled
      <4>2. ASSUME NEW d \in ValidDrafts, Told(b, d)
            PROVE  Filled(c, G, M, P, R, V) /\ Assembled(G, M, P, R, V) = Held(b)
        <5>1. PICK gid, pid, rid :
                Spells(d, b, gid, pid, rid, Of(groups, b), MembersOf(b),
                       Of(providers, b), Of(rules, b), Of(values, b))
          BY <4>2 DEF Told
        <5>2. PICK gid2, pid2, rid2 : Spells(d, c, gid2, pid2, rid2, G, M, P, R, V)
          BY <1>4, <5>1, CloneSpells
        <5> HIDE DEF G, M, P, R, V
        <5>3. Assembled(G, M, P, R, V) = Meant(d)
          BY <5>2, SpelledOut
        <5> QED BY <4>2, <5>2, <5>3, HeldTold DEF Filled
      <4> QED BY <3>2, <4>1, <4>2 DEF Spelling
    <3> HIDE DEF G, M, P, R, V
    <3>7. /\ Spelling' /\ \A e : e # c => SameRows(e)
          /\ Held(c)' = Assembled(G, M, P, R, V)
      <4>1. /\ \A y \in anchors' : y \in anchors \/ y.id = c
            /\ \E y \in anchors' : y.id = c
        BY <1>2
      <4> QED BY <3>3, <3>4, <3>5, <3>6, <4>1, ReplacedSpelling
    <3>8. content[Base] = Held(b) /\ Held(b) # Absent
      BY <3>2, ContentOf, HeldContent
    <3> QED BY <3>6, <3>7, <3>8
  <2> QED BY <2>1, <2>2
<1>7. \A e \in Owner : e # u => content'[e] = content[e]
  <2>1. \A x \in anchors : SameRows(x.id)
    BY <1>3, <1>6
  <2>2. \A x : x.owner # u => (x \in anchors <=> x \in anchors')
    BY <1>2
  <2> QED BY <1>2, <2>1, <2>2, Elsewhere
<1>8. content'[u] = Held(c)'
  <2>1. ContentHeld'
    BY ContentIs, PTL
  <2> QED BY <1>2, <2>1 DEF ContentHeld
<1>9. content' = [content EXCEPT
                    ![u] = IF content[Base] = Absent THEN EmptyContent ELSE content[Base]]
  BY <1>2, <1>6, <1>7, <1>8, ContentNext
<1> QED BY <1>5, <1>6, <1>9 DEF Profiles!Clone

LEMMA CascadeTold ==
    ASSUME IInv, IInv', Spelling, NEW u \in User, NEW c \in ConfigsOf(u), Cascade(c),
           inbounds' = inbounds
    PROVE  Spelling' /\ Profiles!Drop(u)
<1>1. PICK x \in anchors : x.id = c /\ x.owner = u
  BY DEF ConfigsOf
<1>2. anchors' = {r \in anchors : r.id # c} /\ u \in Owner
  BY DEF Cascade, Owner
<1>3. New(c, {}, {}, {}, {}, {})
  BY FS_EmptySet DEF New, Unique, Reaches
<1>4. Replaces(c, {}, {}, {}, {}, {})
  BY DEF Cascade, Replaces
<1>5. Spelling' /\ \A e : e # c => SameRows(e)
  <2>1. Filled(c, {}, {}, {}, {}, {})
    BY DEF Filled
  <2> QED BY <1>2, <1>3, <1>4, <2>1, ReplacedSpelling
<1>6. content[u] # Absent
  BY <1>1, ContentOf, HeldContent
<1>7. content'[u] = Absent
  <2>1. ConfigsOf(u)' = {}
    BY <1>1, <1>2 DEF IInv, Anchors, ConfigsOf
  <2> QED BY <1>2, <2>1 DEF content
<1>8. \A e \in Owner : e # u => content'[e] = content[e]
  <2>1. \A y : y.owner # u => (y \in anchors <=> y \in anchors')
    BY <1>1, <1>2 DEF IInv, Anchors, Unique
  <2>2. \A y \in anchors : y.owner # u => SameRows(y.id)
    BY <1>1, <1>5 DEF IInv, Anchors, Unique
  <2> QED BY <1>2, <2>1, <2>2, Elsewhere
<1>9. content' = [content EXCEPT ![u] = Absent]
  BY <1>2, <1>7, <1>8, ContentNext
<1> QED BY <1>5, <1>6, <1>9 DEF Profiles!Drop

LEMMA Implements ==
    ASSUME IInv, IInv', Spelling, [Next]_vars
    PROVE  Spelling' /\ [Profiles!Next]_content
<1> USE DEF Profiles!Next, Profiles!Owner, Owner
<1>1. ASSUME UNCHANGED <<anchors, tables>> PROVE Spelling' /\ [Profiles!Next]_content
  BY <1>1, StutterSpells
<1>2. ASSUME NEW a \in Admin, Submit(a) \/ ResolveConfig(a)
      PROVE  Spelling' /\ [Profiles!Next]_content
  BY <1>1, <1>2 DEF Submit, ResolveConfig
<1>3. ASSUME NEW a \in Admin, EnsureBase(a) PROVE Spelling' /\ [Profiles!Next]_content
  BY <1>3, EnsureBaseTold
<1>4. ASSUME NEW a \in Admin, SaveMihomoConfig(a)
      PROVE  Spelling' /\ [Profiles!Next]_content
  BY <1>4, SaveTold
<1>5. ASSUME NEW u \in User, CreateUserConfig(u)
      PROVE  Spelling' /\ [Profiles!Next]_content
  BY <1>5, CreateTold
<1>6. ASSUME NEW u \in User, DeleteUserConfig(u)
      PROVE  Spelling' /\ [Profiles!Next]_content
  BY <1>6, CascadeTold DEF DeleteUserConfig
<1>7. ASSUME NEW u \in User, DeleteUser(u)
      PROVE  Spelling' /\ [Profiles!Next]_content
  <2>1. CASE ConfigsOf(u) = {}
    BY <1>1, <1>7, <2>1 DEF DeleteUser
  <2>2. CASE ConfigsOf(u) # {}
    <3>1. PICK c \in ConfigsOf(u) : Cascade(c) /\ inbounds' = inbounds
      BY <1>7, <2>2 DEF DeleteUser
    <3> QED BY <3>1, CascadeTold
  <2> QED BY <2>1, <2>2
<1>8. ASSUME NEW i \in Inbound, DropInbound(i) PROVE Spelling' /\ [Profiles!Next]_content
  BY <1>1, <1>8 DEF DropInbound
<1>9. CASE Quiet \/ UNCHANGED vars
  BY <1>1, <1>9 DEF Quiet, vars
<1> QED BY <1>2, <1>3, <1>4, <1>5, <1>6, <1>7, <1>8, <1>9 DEF Next

LEMMA SpellingHolds == Spec => [](IInv /\ Spelling)
<1>1. Init => Spelling
  BY DEF Init, Spelling, Anchored
<1>2. IInv /\ Spelling /\ [Next]_vars => Spelling'
  BY Inductive, Implements
<1> QED BY <1>1, <1>2, InitKeeps, Inductive, PTL DEF Spec

(* The five tables, with their ids, refine the promise of ConfigProfiles:  *)
(* what is assembled from the rows after SaveMihomoConfig is what the      *)
(* draft says, sub-rules, order and names included, CloneConfig gives the  *)
(* same content under new ids, every other step leaves all content alone   *)
(* or drops one config, and no step changes the content of two owners. *)
THEOREM Refinement == Spec => ImplementsProfiles
<1>1. Init => Profiles!Init
  BY DEF Init, Profiles!Init, Profiles!Owner, Owner, content, ConfigsOf
<1>2. IInv /\ Spelling /\ [Next]_vars => [Profiles!Next]_content
  BY Inductive, Implements
<1> QED BY <1>1, <1>2, SpellingHolds, PTL DEF Spec, ImplementsProfiles, Profiles!Spec

-----------------------------------------------------------------------------
(* A save and the configs it does not save. *)

LEMMA SaveElsewhere ==
    ASSUME IInv, NEW a \in Admin, SaveMihomoConfig(a),
           NEW c, c # req[a].config
    PROVE  Held(c)' = Held(c)
<1>0. PICK d, t : d = req[a].draft /\ t = req[a].config
  OBVIOUS
<1> DEFINE stores == /\ \E r \in anchors : r.id = t
                     /\ ~NamesTwice(d)
                     /\ InboundsIn(DraftMembers(d), DraftRules(d, t)) \subseteq inbounds
<1>1. CASE ~stores
  <2>1. UNCHANGED tables
    BY <1>0, <1>1 DEF SaveMihomoConfig
  <2> QED BY <2>1 DEF Held, tables, Of, MembersOf
<1>2. CASE stores
  <2> DEFINE G == DraftGroups(d, t)
             M == DraftMembers(d)
             P == DraftProviders(d, t)
             R == DraftRules(d, t)
             V == {[config |-> t, value |-> d.value]}
  <2>1. /\ groups' = (groups \ Of(groups, t)) \cup G
        /\ members' = (members \ MembersOf(t)) \cup M
        /\ providers' = (providers \ Of(providers, t)) \cup P
        /\ rules' = (rules \ Of(rules, t)) \cup R
        /\ values' = (values \ Of(values, t)) \cup V
        /\ UNCHANGED <<anchors, inbounds>>
    BY <1>0, <1>2 DEF SaveMihomoConfig, Cleared
  <2>2. New(t, G, M, P, R, V)
    <3>1. req[a].pc = "save" /\ req \in [Admin -> Request \cup {Idle}]
      BY DEF SaveMihomoConfig, IInv, TypeOK
    <3>2. d \in ValidDrafts
      BY <1>0, <3>1 DEF IInv, Owned, Idle
    <3>3. t \in ConfigId
      BY <1>2 DEF IInv, TypeOK
    <3> QED BY <1>2, <3>2, <3>3, DraftIsNew
  <2>3. \A v \in V : v.config = t
    OBVIOUS
  <2> HIDE DEF G, M, P, R, V
  <2>4. Replaces(t, G, M, P, R, V)
    BY <1>2, <2>1 DEF Replaces
  <2>5. SameRows(c)
    <3>1. /\ Of(groups', c) = Of(groups, c) /\ MembersOf(c)' = MembersOf(c)
          /\ Of(providers', c) = Of(providers, c) /\ Of(rules', c) = Of(rules, c)
          /\ Of(values', c) = Of(values, c)
      BY <1>0, <2>2, <2>3, <2>4, Replaced
    <3> QED BY <3>1 DEF SameRows, Of
  <2> QED BY <2>5, SameHeld
<1> QED BY <1>1, <1>2

LEMMA SaveStep ==
    ASSUME IInv, NEW a \in Admin, NEW o \in Owner, SaveMihomoConfig(a), o # req[a].owner
    PROVE  content'[o] = content[o]
<1>1. anchors' = anchors /\ req[a].pc = "save"
  BY DEF SaveMihomoConfig
<1>2. ConfigsOf(o)' = ConfigsOf(o)
  BY <1>1 DEF ConfigsOf
<1>3. CASE ConfigsOf(o) = {}
  BY <1>2, <1>3 DEF content
<1>4. CASE ConfigsOf(o) # {}
  <2>1. PICK c \in ConfigsOf(o) : c = CHOOSE x \in ConfigsOf(o) : TRUE
    BY <1>4
  <2>2. content[o] = Held(c)
    BY <1>4, <2>1 DEF content
  <2>3. content'[o] = Held(c)'
    BY <1>2, <1>4, <2>1 DEF content
  <2>4. c # req[a].config
    <3>1. PICK y \in anchors : y.id = c /\ y.owner = o
      BY <2>1 DEF ConfigsOf
    <3>2. \A x \in anchors : x.id = req[a].config => x.owner = req[a].owner
      BY <1>1 DEF IInv, Owned
    <3> QED BY <3>1, <3>2
  <2>5. Held(c)' = Held(c)
    BY <2>4, SaveElsewhere
  <2> QED BY <2>2, <2>3, <2>5
<1> QED BY <1>3, <1>4

(* config_save resolves the owner's config first and stores the draft in a *)
(* later step.  Whatever is created, deleted or saved in between, the      *)
(* content of every other owner is the same after the save: ids of configs *)
(* are not handed out twice (AUTOINCREMENT), so the resolved one is its    *)
(* owner's still, or is gone and the foreign key refuses the rows. *)
THEOREM HitsItsOwner == Spec => SaveHitsItsOwner
<1>1. IInv /\ [Next]_vars =>
        [\A a \in Admin, o \in Owner :
           SaveMihomoConfig(a) /\ o # req[a].owner => content'[o] = content[o]]_vars
  BY SaveStep
<1> QED BY <1>1, Holds, PTL DEF Spec, SaveHitsItsOwner

-------------------------------------------------------------------------------
(* The search for cycles.  It finds one in the groups listed exactly when    *)
(* one of them is on a path that never ends, and otherwise blackens exactly  *)
(* the white groups that white groups lead to from the list: this answers    *)
(* every call of the search from the answers to the calls it makes, and so,  *)
(* by induction on the white groups and then on the list, is what it does.   *)

Color == {"white", "gray", "black"}
Coloring(G) == [DOMAIN G -> Color]
Todo(G) == Seq(DOMAIN G \cup {0})

(* Groups whose members refer to what the search can look up. *)
Drawn(G) ==
    /\ 0 \notin DOMAIN G /\ IsFiniteSet(DOMAIN G)
    /\ \A i \in DOMAIN G : Targets(G, i) \in Todo(G)

Lists(t, x) == x # 0 /\ \E l \in DOMAIN t : t[l] = x
Edge(G, x, y) == Lists(Targets(G, x), y)

(* A path that never ends leads from a set of groups, none of them black,  *)
(* whose white members refer to it again.                                  *)
Endless(G, c, S) ==
    /\ S \in SUBSET DOMAIN G
    /\ \A x \in S : c[x] # "black"
    /\ \A x \in S : c[x] = "white" => \E y \in S : Edge(G, x, y)
Doomed(G, c, x) == \E S : Endless(G, c, S) /\ x \in S
Cycle(G, t, c) == \E x \in DOMAIN G : Lists(t, x) /\ Doomed(G, c, x)

(* What is visited: the white groups that white ones lead to from t.       *)
Visited(G, t, c, C) ==
    /\ \A x \in C : x \in DOMAIN G /\ c[x] = "white"
    /\ \A x \in DOMAIN G : Lists(t, x) /\ c[x] = "white" => x \in C
    /\ \A x \in C, y \in DOMAIN G : Edge(G, x, y) /\ c[y] = "white" => y \in C
Reach(G, t, c) == {x \in DOMAIN G : \A C : Visited(G, t, c, C) => x \in C}
Painted(G, t, c) == [x \in DOMAIN G |-> IF x \in Reach(G, t, c) THEN "black" ELSE c[x]]

(* What the search returns. *)
Answer(G, t, c) ==
    IF Cycle(G, t, c) THEN [cycle |-> TRUE, color |-> <<>>]
    ELSE [cycle |-> FALSE, color |-> Painted(G, t, c)]

LEMMA DoomedAre ==
    ASSUME NEW G, NEW c
    PROVE  /\ \A x : Doomed(G, c, x) => x \in DOMAIN G /\ c[x] # "black"
           /\ \A x : Doomed(G, c, x) /\ c[x] = "white" =>
                       \E y \in DOMAIN G : Edge(G, x, y) /\ Doomed(G, c, y)
           /\ \A x \in DOMAIN G : c[x] = "gray" => Doomed(G, c, x)
           /\ \A x, y \in DOMAIN G : c[x] = "white" /\ Edge(G, x, y) /\ Doomed(G, c, y)
                                       => Doomed(G, c, x)
<1>1. ASSUME NEW x, Doomed(G, c, x)
      PROVE  /\ x \in DOMAIN G /\ c[x] # "black"
             /\ c[x] = "white" => \E y \in DOMAIN G : Edge(G, x, y) /\ Doomed(G, c, y)
  BY <1>1 DEF Doomed, Endless
<1>2. ASSUME NEW x \in DOMAIN G, c[x] = "gray" PROVE Doomed(G, c, x)
  <2>1. Endless(G, c, {x}) /\ x \in {x}
    BY <1>2 DEF Endless
  <2> QED BY <2>1 DEF Doomed
<1>3. ASSUME NEW x \in DOMAIN G, NEW y \in DOMAIN G,
             c[x] = "white", Edge(G, x, y), Doomed(G, c, y)
      PROVE  Doomed(G, c, x)
  <2>1. PICK S : Endless(G, c, S) /\ y \in S
    BY <1>3 DEF Doomed
  <2>2. Endless(G, c, S \cup {x}) /\ x \in S \cup {x}
    BY <1>3, <2>1 DEF Endless
  <2> QED BY <2>2 DEF Doomed
<1> QED BY <1>1, <1>2, <1>3

LEMMA ReachVisited ==
    ASSUME NEW G, NEW t, NEW c
    PROVE  /\ Visited(G, t, c, Reach(G, t, c))
           /\ \A C : Visited(G, t, c, C) => Reach(G, t, c) \subseteq C
<1> DEFINE R == Reach(G, t, c)
           W == {x \in DOMAIN G : c[x] = "white"}
<1>1. \A x : x \in R <=> x \in DOMAIN G /\ \A C : Visited(G, t, c, C) => x \in C
  BY DEF Reach
<1>2. Visited(G, t, c, W)
  BY DEF Visited
<1> HIDE DEF R
<1>3. \A x \in R : x \in DOMAIN G /\ c[x] = "white"
  BY <1>1, <1>2
<1>4. ASSUME NEW x \in DOMAIN G, Lists(t, x), c[x] = "white" PROVE x \in R
  BY <1>1, <1>4 DEF Visited
<1>5. ASSUME NEW x \in R, NEW y \in DOMAIN G, Edge(G, x, y), c[y] = "white" PROVE y \in R
  BY <1>1, <1>5 DEF Visited
<1>6. Visited(G, t, c, R)
  BY <1>3, <1>4, <1>5 DEF Visited
<1> QED BY <1>1, <1>6 DEF R

LEMMA ListsHead ==
    ASSUME NEW S, NEW t \in Seq(S), t # <<>>
    PROVE  /\ Tail(t) \in Seq(S) /\ Head(t) \in S /\ Len(Tail(t)) = Len(t) - 1
           /\ \A x : Lists(t, x) <=> x # 0 /\ (x = Head(t) \/ Lists(Tail(t), x))
<1>1. Len(t) \in Nat /\ Len(t) # 0 /\ DOMAIN t = 1 .. Len(t)
  OBVIOUS
<1>2. /\ Tail(t) \in Seq(S) /\ Head(t) \in S /\ Len(Tail(t)) = Len(t) - 1 /\ Head(t) = t[1]
      /\ DOMAIN Tail(t) = 1 .. Len(t) - 1
      /\ \A l \in 1 .. Len(t) - 1 : Tail(t)[l] = t[l + 1]
  OBVIOUS
<1>3. ASSUME NEW x, Lists(t, x) PROVE x = Head(t) \/ Lists(Tail(t), x)
  <2>1. PICK l \in 1 .. Len(t) : t[l] = x
    BY <1>1, <1>3 DEF Lists
  <2>2. CASE l = 1
    BY <1>2, <2>1, <2>2
  <2>3. CASE l # 1
    <3>1. l - 1 \in 1 .. Len(t) - 1 /\ (l - 1) + 1 = l
      BY <1>1, <2>3
    <3>2. Tail(t)[l - 1] = x
      BY <1>2, <2>1, <3>1
    <3> QED BY <1>2, <1>3, <3>1, <3>2 DEF Lists
  <2> QED BY <2>2, <2>3
<1>4. ASSUME NEW x, x # 0, x = Head(t) PROVE Lists(t, x)
  <2>1. 1 \in DOMAIN t
    BY <1>1
  <2> QED BY <1>2, <1>4, <2>1 DEF Lists
<1>5. ASSUME NEW x, Lists(Tail(t), x) PROVE Lists(t, x)
  <2>1. PICK l \in 1 .. Len(t) - 1 : Tail(t)[l] = x
    BY <1>2, <1>5 DEF Lists
  <2>2. l + 1 \in DOMAIN t /\ t[l + 1] = x
    BY <1>1, <1>2, <2>1
  <2> QED BY <1>5, <2>2 DEF Lists
<1>6. \A x : Lists(t, x) => x # 0
  BY DEF Lists
<1> QED BY <1>2, <1>3, <1>4, <1>5, <1>6

-------------------------------------------------------------------------------
(* A visit.                                                                  *)

(* Visiting i: everything a white group leads to.                          *)
Entered(c, i) == [c EXCEPT ![i] = "gray"]
Visit(G, c, i) == Answer(G, Targets(G, i), Entered(c, i))
Left(G, c, i) == [Painted(G, Targets(G, i), Entered(c, i)) EXCEPT ![i] = "black"]
Behind(G, c, i) == {i} \cup Reach(G, Targets(G, i), Entered(c, i))

LEMMA EnteredIs ==
    ASSUME NEW G, NEW c \in Coloring(G), NEW i \in DOMAIN G, c[i] = "white"
    PROVE  /\ Entered(c, i) \in Coloring(G)
           /\ Entered(c, i)[i] = "gray"
           /\ \A x \in DOMAIN G : x # i => Entered(c, i)[x] = c[x]
BY DEF Entered, Coloring, Color

LEMMA LeftIs ==
    ASSUME NEW G, NEW c \in Coloring(G), NEW i \in DOMAIN G, c[i] = "white"
    PROVE  /\ Painted(G, Targets(G, i), Entered(c, i)) \in Coloring(G)
           /\ Left(G, c, i) \in Coloring(G)
           /\ \A x \in DOMAIN G :
                Left(G, c, i)[x] = IF x \in Behind(G, c, i) THEN "black" ELSE c[x]
<1> DEFINE R == Reach(G, Targets(G, i), Entered(c, i))
           p == Painted(G, Targets(G, i), Entered(c, i))
<1>1. /\ Entered(c, i) \in Coloring(G)
      /\ \A x \in DOMAIN G : x # i => Entered(c, i)[x] = c[x]
  BY EnteredIs
<1>2. p = [x \in DOMAIN G |-> IF x \in R THEN "black" ELSE Entered(c, i)[x]]
  BY DEF Painted
<1>3. Behind(G, c, i) = {i} \cup R
  BY DEF Behind
<1>4. Left(G, c, i) = [p EXCEPT ![i] = "black"]
  BY DEF Left
<1> HIDE DEF R, p
<1> QED BY <1>1, <1>2, <1>3, <1>4 DEF Coloring, Color, p

LEMMA BehindIs ==
    ASSUME NEW G, NEW c \in Coloring(G), NEW i \in DOMAIN G, c[i] = "white"
    PROVE  /\ i \in Behind(G, c, i)
           /\ \A x \in Behind(G, c, i) : x \in DOMAIN G /\ c[x] = "white"
           /\ \A x \in Behind(G, c, i), y \in DOMAIN G :
                Edge(G, x, y) /\ c[y] = "white" => y \in Behind(G, c, i)
<1> DEFINE e == Entered(c, i)
           R == Reach(G, Targets(G, i), e)
<1>1. e[i] = "gray" /\ \A x \in DOMAIN G : x # i => e[x] = c[x]
  BY EnteredIs
<1>2. Behind(G, c, i) = {i} \cup R
  BY DEF Behind
<1>3. Visited(G, Targets(G, i), e, R)
  BY ReachVisited
<1> HIDE DEF e, R
<1>4. \A x \in R : x \in DOMAIN G /\ c[x] = "white" /\ x # i
  BY <1>1, <1>3 DEF Visited
<1>5. ASSUME NEW y \in DOMAIN G, Edge(G, i, y), c[y] = "white", y # i PROVE y \in R
  BY <1>1, <1>3, <1>5 DEF Visited, Edge
<1>6. ASSUME NEW x \in R, NEW y \in DOMAIN G, Edge(G, x, y), c[y] = "white", y # i
      PROVE  y \in R
  BY <1>1, <1>3, <1>6 DEF Visited
<1> QED BY <1>2, <1>4, <1>5, <1>6

(* A cycle found below is one. *)
LEMMA FoundBelow ==
    ASSUME NEW G, NEW t, NEW c \in Coloring(G), NEW i \in DOMAIN G, c[i] = "white",
           Lists(t, i), Cycle(G, Targets(G, i), Entered(c, i))
    PROVE  Cycle(G, t, c)
<1> DEFINE e == Entered(c, i)
<1>1. e[i] = "gray" /\ \A x \in DOMAIN G : x # i => e[x] = c[x]
  BY EnteredIs
<1> HIDE DEF e
<1>2. PICK x \in DOMAIN G : Edge(G, i, x) /\ Doomed(G, e, x)
  BY DEF Cycle, Edge, e
<1>3. PICK S : Endless(G, e, S) /\ x \in S
  BY <1>2 DEF Doomed
<1>4. Endless(G, c, S \cup {i})
  BY <1>1, <1>2, <1>3 DEF Endless
<1>5. Doomed(G, c, i)
  BY <1>4 DEF Doomed
<1> QED BY <1>5 DEF Cycle

(* When none is found below, nothing behind i is on one.                   *)
LEMMA NoneBehind ==
    ASSUME NEW G, NEW c \in Coloring(G), NEW i \in DOMAIN G, c[i] = "white",
           ~Cycle(G, Targets(G, i), Entered(c, i)),
           NEW S, Endless(G, c, S), NEW x \in S, x \in Behind(G, c, i)
    PROVE  FALSE
<1> DEFINE e == Entered(c, i)
           R == Reach(G, Targets(G, i), e)
           D == {y \in DOMAIN G : e[y] = "white" /\ ~Doomed(G, e, y)}
<1>1. e[i] = "gray" /\ \A y \in DOMAIN G : y # i => e[y] = c[y]
  BY EnteredIs
<1>2. Behind(G, c, i) = {i} \cup R
  BY DEF Behind
<1>3. \A y \in DOMAIN G : Edge(G, i, y) => ~Doomed(G, e, y)
  BY DEF Cycle, Edge
<1>4. \A C : Visited(G, Targets(G, i), e, C) => R \subseteq C
  BY ReachVisited
<1>5. /\ \A y \in DOMAIN G : e[y] = "gray" => Doomed(G, e, y)
      /\ \A y, z \in DOMAIN G : e[y] = "white" /\ Edge(G, y, z) /\ Doomed(G, e, z)
                                  => Doomed(G, e, y)
  BY DoomedAre
<1> HIDE DEF e, R
<1>6. Endless(G, e, S)
  BY <1>1 DEF Endless
<1>7. \A y \in S : y \in DOMAIN G /\ Doomed(G, e, y)
  BY <1>6 DEF Doomed, Endless
<1>8. Visited(G, Targets(G, i), e, D)
  <2>1. \A y \in DOMAIN G : Lists(Targets(G, i), y) /\ e[y] = "white" => y \in D
    BY <1>3 DEF Edge
  <2>2. \A y \in D, z \in DOMAIN G : Edge(G, y, z) /\ e[z] = "white" => z \in D
    BY <1>5
  <2> QED BY <2>1, <2>2 DEF Visited
<1>9. x \notin R
  BY <1>4, <1>7, <1>8
<1>10. x = i
  BY <1>2, <1>9
<1>11. PICK y \in S : Edge(G, i, y)
  BY <1>10 DEF Endless
<1> QED BY <1>3, <1>7, <1>11

(* The rest of the list, after i.                                          *)
LEMMA CycleLater ==
    ASSUME NEW G, NEW S, NEW t \in Seq(S), t # <<>>,
           NEW c \in Coloring(G), NEW i \in DOMAIN G, c[i] = "white", i = Head(t), i # 0,
           ~Cycle(G, Targets(G, i), Entered(c, i))
    PROVE  Cycle(G, t, c) <=> Cycle(G, Tail(t), Left(G, c, i))
<1> DEFINE l == Left(G, c, i)
           B == Behind(G, c, i)
<1>1. \A x \in DOMAIN G : l[x] = IF x \in B THEN "black" ELSE c[x]
  BY LeftIs
<1>2. i \in B /\ \A x \in B : x \in DOMAIN G /\ c[x] = "white"
  BY BehindIs
<1>3. \A x : Lists(t, x) <=> x # 0 /\ (x = i \/ Lists(Tail(t), x))
  BY ListsHead
<1>4. \A T : Endless(G, c, T) => \A x \in T : x \notin B
  BY NoneBehind
<1> HIDE DEF l, B
<1>5. ASSUME NEW T, Endless(G, l, T) PROVE Endless(G, c, T)
  BY <1>1, <1>5 DEF Endless
<1>6. ASSUME NEW T, Endless(G, c, T) PROVE Endless(G, l, T)
  BY <1>1, <1>4, <1>6 DEF Endless
<1>7. \A x : Doomed(G, c, x) <=> Doomed(G, l, x)
  BY <1>5, <1>6 DEF Doomed
<1>8. \A x : Doomed(G, c, x) => x # i
  BY <1>2, <1>4 DEF Doomed
<1>9. \A x : Lists(Tail(t), x) => x # 0
  BY DEF Lists
<1> QED BY <1>3, <1>7, <1>8, <1>9 DEF Cycle, l

LEMMA PaintedLater ==
    ASSUME NEW G, NEW S, NEW t \in Seq(S), t # <<>>,
           NEW c \in Coloring(G), NEW i \in DOMAIN G, c[i] = "white", i = Head(t), i # 0
    PROVE  Painted(G, t, c) = Painted(G, Tail(t), Left(G, c, i))
<1> DEFINE l == Left(G, c, i)
           e == Entered(c, i)
           B == Behind(G, c, i)
           R == Reach(G, t, c)
           R1 == Reach(G, Targets(G, i), e)
           R2 == Reach(G, Tail(t), l)
<1>1. \A x \in DOMAIN G : l[x] = IF x \in B THEN "black" ELSE c[x]
  BY LeftIs
<1>2. /\ i \in B /\ \A x \in B : x \in DOMAIN G /\ c[x] = "white"
      /\ \A x \in B, y \in DOMAIN G : Edge(G, x, y) /\ c[y] = "white" => y \in B
  BY BehindIs
<1>3. \A x : Lists(t, x) <=> x # 0 /\ (x = i \/ Lists(Tail(t), x))
  BY ListsHead
<1>4. B = {i} \cup R1
  BY DEF Behind
<1>5. e[i] = "gray" /\ \A x \in DOMAIN G : x # i => e[x] = c[x]
  BY EnteredIs
<1>6. /\ Visited(G, t, c, R) /\ \A C : Visited(G, t, c, C) => R \subseteq C
      /\ \A C : Visited(G, Targets(G, i), e, C) => R1 \subseteq C
      /\ Visited(G, Tail(t), l, R2) /\ \A C : Visited(G, Tail(t), l, C) => R2 \subseteq C
  BY ReachVisited
<1>7. Painted(G, t, c) = [x \in DOMAIN G |-> IF x \in R THEN "black" ELSE c[x]]
  BY DEF Painted
<1>8. Painted(G, Tail(t), l) = [x \in DOMAIN G |-> IF x \in R2 THEN "black" ELSE l[x]]
  BY DEF Painted
<1> HIDE DEF l, e, B, R, R1, R2
<1>9. Visited(G, t, c, B \cup R2)
  <2>1. \A x \in B \cup R2 : x \in DOMAIN G /\ c[x] = "white"
    BY <1>1, <1>2, <1>6 DEF Visited
  <2>2. \A x \in DOMAIN G : Lists(t, x) /\ c[x] = "white" => x \in B \cup R2
    BY <1>1, <1>2, <1>3, <1>6 DEF Visited
  <2>3. \A x \in B \cup R2, y \in DOMAIN G :
            Edge(G, x, y) /\ c[y] = "white" => y \in B \cup R2
    BY <1>1, <1>2, <1>6 DEF Visited
  <2> QED BY <2>1, <2>2, <2>3 DEF Visited
<1>10. i \in R
  BY <1>3, <1>6 DEF Visited
<1>11. Visited(G, Targets(G, i), e, R \ {i})
  <2>1. \A x \in DOMAIN G : Lists(Targets(G, i), x) /\ e[x] = "white" => x \in R \ {i}
    BY <1>5, <1>6, <1>10 DEF Visited, Edge
  <2>2. \A x \in R \ {i} : x \in DOMAIN G /\ e[x] = "white"
    BY <1>5, <1>6 DEF Visited
  <2>3. \A x \in R \ {i}, y \in DOMAIN G :
            Edge(G, x, y) /\ e[y] = "white" => y \in R \ {i}
    BY <1>5, <1>6 DEF Visited
  <2> QED BY <2>1, <2>2, <2>3 DEF Visited
<1>12. B \subseteq R
  BY <1>4, <1>6, <1>10, <1>11
<1>13. Visited(G, Tail(t), l, R \ B)
  <2>1. \A x \in DOMAIN G : Lists(Tail(t), x) /\ l[x] = "white" => x \in R \ B
    <3>1. \A x : Lists(Tail(t), x) => Lists(t, x)
      BY <1>3 DEF Lists
    <3> QED BY <1>1, <1>6, <3>1 DEF Visited
  <2>2. \A x \in R \ B : x \in DOMAIN G /\ l[x] = "white"
    BY <1>1, <1>6 DEF Visited
  <2>3. \A x \in R \ B, y \in DOMAIN G :
            Edge(G, x, y) /\ l[y] = "white" => y \in R \ B
    BY <1>1, <1>6 DEF Visited
  <2> QED BY <2>1, <2>2, <2>3 DEF Visited
<1>14. R = B \cup R2
  BY <1>6, <1>9, <1>12, <1>13
<1>15. \A x \in DOMAIN G : (IF x \in R THEN "black" ELSE c[x])
                             = IF x \in R2 THEN "black" ELSE l[x]
  BY <1>1, <1>14
<1> QED BY <1>7, <1>8, <1>15 DEF l

-------------------------------------------------------------------------------
(* One call of the search, its calls answered by f.                        *)
At(G) == Seq(DOMAIN G \cup {0}) \X [DOMAIN G -> {"white", "gray", "black"}]
Call(G, f, t, c) ==
    LET i == Head(t)
        visit == f[<<Targets(G, i), [c EXCEPT ![i] = "gray"]>>]
    IN  IF t = <<>> THEN [cycle |-> FALSE, color |-> c]
        ELSE IF i = 0 THEN f[<<Tail(t), c>>]
        ELSE IF c[i] = "black" THEN f[<<Tail(t), c>>]
        ELSE IF c[i] = "gray" THEN [cycle |-> TRUE, color |-> <<>>]
        ELSE IF visit.cycle THEN visit
        ELSE f[<<Tail(t), [visit.color EXCEPT ![i] = "black"]>>]
Calls(G, f) == [at \in At(G) |-> Call(G, f, at[1], at[2])]
Answers(G) == [at \in At(G) |-> Answer(G, at[1], at[2])]

(* The calls that a call makes.                                            *)
Agree(G, f, t, c) ==
    LET i == Head(t)
    IN  t # <<>> =>
        /\ i = 0 \/ c[i] = "black" => f[<<Tail(t), c>>] = Answer(G, Tail(t), c)
        /\ i # 0 /\ c[i] = "white" =>
             /\ f[<<Targets(G, i), Entered(c, i)>>] = Visit(G, c, i)
             /\ ~Visit(G, c, i).cycle =>
                  f[<<Tail(t), Left(G, c, i)>>] = Answer(G, Tail(t), Left(G, c, i))

LEMMA Skipped ==
    ASSUME NEW G, NEW S, NEW t \in Seq(S), t # <<>>, NEW c,
           \A x \in DOMAIN G : Lists(t, x) /\ ~Lists(Tail(t), x) => c[x] = "black"
    PROVE  Answer(G, t, c) = Answer(G, Tail(t), c)
<1>1. \A x : Lists(Tail(t), x) => Lists(t, x)
  <2>1. \A x : Lists(t, x) <=> x # 0 /\ (x = Head(t) \/ Lists(Tail(t), x))
    BY ListsHead
  <2> QED BY <2>1 DEF Lists
<1>2. Cycle(G, t, c) <=> Cycle(G, Tail(t), c)
  BY <1>1, DoomedAre DEF Cycle
<1>3. \A C : Visited(G, t, c, C) <=> Visited(G, Tail(t), c, C)
  BY <1>1 DEF Visited
<1>4. Reach(G, t, c) = Reach(G, Tail(t), c)
  BY <1>3 DEF Reach
<1> QED BY <1>2, <1>4 DEF Answer, Painted

LEMMA CallAnswered ==
    ASSUME NEW G, Drawn(G), NEW f, NEW t \in Todo(G), NEW c \in Coloring(G),
           Agree(G, f, t, c)
    PROVE  Call(G, f, t, c) = Answer(G, t, c)
<1> DEFINE i == Head(t)
<1>1. CASE t = <<>>
  <2>1. \A x : ~Lists(t, x)
    BY <1>1 DEF Lists
  <2>2. ~Cycle(G, t, c)
    BY <2>1 DEF Cycle
  <2>3. Visited(G, t, c, {})
    BY <2>1 DEF Visited
  <2>4. Reach(G, t, c) = {}
    BY <2>3, ReachVisited
  <2>5. Painted(G, t, c) = c
    BY <2>4 DEF Painted, Coloring
  <2> QED BY <1>1, <2>2, <2>5 DEF Answer, Call
<1>2. CASE t # <<>>
  <2>1. /\ Head(t) \in DOMAIN G \cup {0}
        /\ \A x : Lists(t, x) <=> x # 0 /\ (x = Head(t) \/ Lists(Tail(t), x))
    BY <1>2, ListsHead DEF Todo
  <2>2. CASE i = 0
    <3>1. Answer(G, t, c) = Answer(G, Tail(t), c)
      BY <1>2, <2>1, <2>2, Skipped DEF Todo
    <3> QED BY <1>2, <2>2, <3>1 DEF Agree, Call
  <2>3. CASE i # 0 /\ c[i] = "black"
    <3>1. Answer(G, t, c) = Answer(G, Tail(t), c)
      BY <1>2, <2>1, <2>3, Skipped DEF Todo
    <3> QED BY <1>2, <2>3, <3>1 DEF Agree, Call
  <2>4. CASE i # 0 /\ c[i] = "gray"
    <3>1. i \in DOMAIN G /\ Lists(t, i)
      BY <2>1, <2>4
    <3>2. Doomed(G, c, i)
      BY <2>4, <3>1, DoomedAre
    <3>3. Cycle(G, t, c)
      BY <3>1, <3>2 DEF Cycle
    <3> QED BY <1>2, <2>4, <3>3 DEF Answer, Call
  <2>5. CASE i # 0 /\ c[i] = "white"
    <3>1. i \in DOMAIN G /\ Lists(t, i)
      BY <2>1, <2>5
    <3>2. f[<<Targets(G, i), Entered(c, i)>>] = Visit(G, c, i)
      BY <1>2, <2>5 DEF Agree
    <3>3. CASE Cycle(G, Targets(G, i), Entered(c, i))
      <4>1. Cycle(G, t, c)
        BY <2>5, <3>1, <3>3, FoundBelow
      <4>2. Visit(G, c, i) = [cycle |-> TRUE, color |-> <<>>]
        BY <3>3 DEF Visit, Answer
      <4>3. Call(G, f, t, c) = Visit(G, c, i)
        BY <1>2, <2>5, <3>2, <4>2 DEF Call, Entered
      <4> QED BY <4>1, <4>2, <4>3 DEF Answer
    <3>4. CASE ~Cycle(G, Targets(G, i), Entered(c, i))
      <4>1. Visit(G, c, i) = [cycle |-> FALSE,
                              color |-> Painted(G, Targets(G, i), Entered(c, i))]
        BY <3>4 DEF Visit, Answer
      <4>2. f[<<Tail(t), Left(G, c, i)>>] = Answer(G, Tail(t), Left(G, c, i))
        BY <1>2, <2>5, <4>1 DEF Agree
      <4>3. Call(G, f, t, c) = Answer(G, Tail(t), Left(G, c, i))
        <5>1. ~Visit(G, c, i).cycle
          BY <4>1
        <5>2. Left(G, c, i) = [Visit(G, c, i).color EXCEPT ![i] = "black"]
          BY <4>1 DEF Left
        <5>3. f[<<Targets(G, i), [c EXCEPT ![i] = "gray"]>>] = Visit(G, c, i)
          BY <3>2 DEF Entered
        <5> QED BY <1>2, <2>5, <4>2, <5>1, <5>2, <5>3 DEF Call
      <4>4. Cycle(G, t, c) <=> Cycle(G, Tail(t), Left(G, c, i))
        BY <1>2, <2>5, <3>1, <3>4, CycleLater DEF Todo
      <4>5. Painted(G, t, c) = Painted(G, Tail(t), Left(G, c, i))
        BY <1>2, <2>5, <3>1, PaintedLater DEF Todo
      <4> QED BY <4>3, <4>4, <4>5 DEF Answer
    <3> QED BY <3>3, <3>4
  <2>6. i = 0 \/ c[i] \in Color
    BY <2>1 DEF Coloring
  <2> QED BY <2>2, <2>3, <2>4, <2>5, <2>6 DEF Color
<1> QED BY <1>1, <1>2

(* The arguments of the calls.                                             *)
LEMMA CallsTyped ==
    ASSUME NEW G, Drawn(G), NEW t \in Todo(G), NEW c \in Coloring(G), t # <<>>
    PROVE  /\ Tail(t) \in Todo(G)
           /\ Head(t) # 0 => Head(t) \in DOMAIN G
           /\ Head(t) # 0 /\ c[Head(t)] = "white" =>
                /\ Targets(G, Head(t)) \in Todo(G)
                /\ Entered(c, Head(t)) \in Coloring(G)
                /\ Left(G, c, Head(t)) \in Coloring(G)
<1>1. Tail(t) \in Todo(G) /\ (Head(t) # 0 => Head(t) \in DOMAIN G)
  BY ListsHead DEF Todo
<1>2. ASSUME Head(t) # 0, c[Head(t)] = "white"
      PROVE  /\ Targets(G, Head(t)) \in Todo(G)
             /\ Entered(c, Head(t)) \in Coloring(G)
             /\ Left(G, c, Head(t)) \in Coloring(G)
  <2>1. Head(t) \in DOMAIN G
    BY <1>1, <1>2
  <2> QED BY <1>2, <2>1, EnteredIs, LeftIs DEF Drawn
<1> QED BY <1>1, <1>2

LEMMA AnswersAgree ==
    ASSUME NEW G, Drawn(G)
    PROVE  Answers(G) = Calls(G, Answers(G))
<1>1. ASSUME NEW t \in Todo(G), NEW c \in Coloring(G)
      PROVE  Answers(G)[<<t, c>>] = Answer(G, t, c)
  <2>1. <<t, c>> \in At(G)
    BY DEF At, Todo, Coloring, Color
  <2> QED BY <2>1 DEF Answers
<1>2. ASSUME NEW at \in At(G) PROVE Call(G, Answers(G), at[1], at[2]) = Answer(G, at[1], at[2])
  <2>1. at[1] \in Todo(G) /\ at[2] \in Coloring(G)
    BY DEF At, Todo, Coloring, Color
  <2>2. Agree(G, Answers(G), at[1], at[2])
    <3> SUFFICES ASSUME at[1] # <<>> PROVE Agree(G, Answers(G), at[1], at[2])
      BY DEF Agree
    <3> DEFINE i == Head(at[1])
    <3>1. /\ Tail(at[1]) \in Todo(G)
          /\ i # 0 /\ at[2][i] = "white" =>
                /\ Targets(G, i) \in Todo(G)
                /\ Entered(at[2], i) \in Coloring(G)
                /\ Left(G, at[2], i) \in Coloring(G)
      BY <2>1, CallsTyped
    <3> QED BY <1>1, <2>1, <3>1 DEF Agree, Visit
  <2> QED BY <2>1, <2>2, CallAnswered
<1> QED BY <1>2 DEF Answers, Calls

(* The search is the only function that answers its own calls.             *)
Whites(G, c) == {x \in DOMAIN G : c[x] = "white"}

LEMMA Fewer ==
    ASSUME NEW G, Drawn(G), NEW c \in Coloring(G), NEW i \in DOMAIN G, c[i] = "white"
    PROVE  /\ Cardinality(Whites(G, c)) \in Nat
           /\ Cardinality(Whites(G, Entered(c, i))) \in Nat
           /\ Cardinality(Whites(G, Left(G, c, i))) \in Nat
           /\ Cardinality(Whites(G, Entered(c, i))) < Cardinality(Whites(G, c))
           /\ Cardinality(Whites(G, Left(G, c, i))) < Cardinality(Whites(G, c))
<1> DEFINE W == Whites(G, c)
<1>1. IsFiniteSet(W) /\ i \in W
  BY FS_Subset DEF Drawn, Whites
<1>2. Whites(G, Entered(c, i)) \subseteq W \ {i}
  <2>1. Entered(c, i)[i] = "gray" /\ \A x \in DOMAIN G : x # i => Entered(c, i)[x] = c[x]
    BY EnteredIs
  <2> QED BY <2>1 DEF Whites
<1>3. Whites(G, Left(G, c, i)) \subseteq W \ {i}
  <2>1. /\ i \in Behind(G, c, i)
        /\ \A x \in DOMAIN G :
             Left(G, c, i)[x] = IF x \in Behind(G, c, i) THEN "black" ELSE c[x]
    BY LeftIs, BehindIs
  <2> QED BY <2>1 DEF Whites
<1> HIDE DEF W
<1>4. /\ IsFiniteSet(W \ {i}) /\ Cardinality(W \ {i}) = Cardinality(W) - 1
      /\ Cardinality(W) \in Nat
  BY <1>1, FS_RemoveElement, FS_CardinalityType
<1>5. ASSUME NEW V \in SUBSET (W \ {i})
      PROVE  Cardinality(V) \in Nat /\ Cardinality(V) < Cardinality(W)
  <2>1. /\ IsFiniteSet(V) /\ Cardinality(V) <= Cardinality(W \ {i})
    BY <1>4, FS_Subset
  <2>2. Cardinality(V) \in Nat
    BY <2>1, FS_CardinalityType
  <2> QED BY <1>4, <2>1, <2>2
<1> QED BY <1>2, <1>3, <1>4, <1>5 DEF W

LEMMA OnlyAnswers ==
    ASSUME NEW G, Drawn(G), NEW f, f = Calls(G, f),
           NEW t \in Todo(G), NEW c \in Coloring(G)
    PROVE  f[<<t, c>>] = Answer(G, t, c)
<1> DEFINE Wrong(s, b) == s \in Todo(G) /\ b \in Coloring(G) /\ f[<<s, b>>] # Answer(G, s, b)
           Bad == {n \in Nat : \E s, b : Wrong(s, b) /\ Cardinality(Whites(G, b)) = n}
<1>1. ASSUME NEW s \in Todo(G), NEW b \in Coloring(G), Agree(G, f, s, b)
      PROVE  f[<<s, b>>] = Answer(G, s, b)
  <2>1. <<s, b>> \in At(G)
    BY DEF At, Todo, Coloring, Color
  <2>2. Calls(G, f)[<<s, b>>] = Call(G, f, s, b)
    BY <2>1 DEF Calls
  <2> QED BY <1>1, <2>2, CallAnswered
<1> SUFFICES ASSUME Wrong(t, c) PROVE FALSE
  OBVIOUS
<1> HIDE DEF Wrong
<1>2. \A b \in Coloring(G) : Cardinality(Whites(G, b)) \in Nat
  BY FS_Subset, FS_CardinalityType DEF Drawn, Whites
<1>3. Bad \in SUBSET Nat /\ Bad # {}
  BY <1>2
<1>4. PICK n \in Bad : \A m \in Bad : n <= m
  BY <1>3, LeastNat
<1> DEFINE Long == {l \in Nat : \E s, b : /\ Wrong(s, b) /\ Cardinality(Whites(G, b)) = n
                                          /\ Len(s) = l}
<1>5. Long \in SUBSET Nat /\ Long # {}
  <2>1. PICK s, b : Wrong(s, b) /\ Cardinality(Whites(G, b)) = n
    BY <1>4
  <2>2. Len(s) \in Nat
    BY <2>1 DEF Wrong, Todo
  <2> QED BY <2>1, <2>2
<1>6. PICK l \in Long : \A m \in Long : l <= m
  BY <1>5, LeastNat
<1>7. PICK s, b : Wrong(s, b) /\ Cardinality(Whites(G, b)) = n /\ Len(s) = l
  BY <1>6
<1>8. s \in Todo(G) /\ b \in Coloring(G) /\ Len(s) \in Nat
  BY <1>7 DEF Wrong, Todo
<1>9. ASSUME NEW u \in Todo(G), NEW a \in Coloring(G),
             Cardinality(Whites(G, a)) < Cardinality(Whites(G, b))
      PROVE  f[<<u, a>>] = Answer(G, u, a)
  <2> SUFFICES ASSUME Wrong(u, a) PROVE FALSE
    BY DEF Wrong
  <2>1. Cardinality(Whites(G, a)) \in Bad
    BY <1>2
  <2> HIDE DEF Bad
  <2> QED BY <1>2, <1>4, <1>7, <1>8, <1>9, <2>1
<1>10. ASSUME NEW u \in Todo(G), Len(u) < Len(s)
       PROVE  f[<<u, b>>] = Answer(G, u, b)
  <2> SUFFICES ASSUME Wrong(u, b) PROVE FALSE
    BY <1>8 DEF Wrong
  <2>1. Len(u) \in Nat /\ Len(u) \in Long
    BY <1>7 DEF Todo
  <2> HIDE DEF Long
  <2> QED BY <1>6, <1>7, <1>8, <1>10, <2>1
<1>11. Agree(G, f, s, b)
  <2> SUFFICES ASSUME s # <<>> PROVE Agree(G, f, s, b)
    BY DEF Agree
  <2> DEFINE i == Head(s)
  <2>1. /\ Tail(s) \in Todo(G)
        /\ i # 0 => i \in DOMAIN G
        /\ i # 0 /\ b[i] = "white" =>
              /\ Targets(G, i) \in Todo(G)
              /\ Entered(b, i) \in Coloring(G)
              /\ Left(G, b, i) \in Coloring(G)
    BY <1>8, CallsTyped
  <2>2. Len(Tail(s)) < Len(s)
    BY <1>8 DEF Todo
  <2>3. ASSUME i # 0, b[i] = "white"
        PROVE  /\ f[<<Targets(G, i), Entered(b, i)>>] = Visit(G, b, i)
               /\ f[<<Tail(s), Left(G, b, i)>>] = Answer(G, Tail(s), Left(G, b, i))
    <3>1. /\ Cardinality(Whites(G, Entered(b, i))) < Cardinality(Whites(G, b))
          /\ Cardinality(Whites(G, Left(G, b, i))) < Cardinality(Whites(G, b))
      BY <1>8, <2>1, <2>3, Fewer
    <3> HIDE DEF i
    <3> QED BY <1>9, <2>1, <2>3, <3>1 DEF Visit
  <2>4. f[<<Tail(s), b>>] = Answer(G, Tail(s), b)
    BY <1>10, <2>1, <2>2
  <2> QED BY <2>3, <2>4 DEF Agree
<1> QED BY <1>1, <1>7, <1>8, <1>11 DEF Wrong

LEMMA SearchFixed ==
    ASSUME NEW G, Drawn(G)
    PROVE  \E f : /\ f = Calls(G, f)
                  /\ cyclicGroups(G) = f[<<[i \in DOMAIN G |-> i],
                                           [i \in DOMAIN G |-> "white"]>>].cycle
<1> DEFINE Fixed(f) == f = Calls(G, f)
           f == CHOOSE g : Fixed(g)
<1>1. cyclicGroups(G) = f[<<[i \in DOMAIN G |-> i], [i \in DOMAIN G |-> "white"]>>].cycle
  BY DEF cyclicGroups, Calls, Call, At
<1>2. Fixed(Answers(G))
  BY AnswersAgree
<1> HIDE DEF Fixed
<1>3. Fixed(f)
  BY <1>2
<1> HIDE DEF f
<1> QED BY <1>1, <1>3 DEF Fixed

(* The groups refer to each other in a circle.                             *)
Circle(G) ==
    \E S \in SUBSET DOMAIN G : S # {} /\ \A x \in S : \E y \in S : Edge(G, x, y)

LEMMA SearchRight ==
    ASSUME NEW G, Drawn(G), NEW n \in Nat, DOMAIN G = 1 .. n
    PROVE  cyclicGroups(G) <=> Circle(G)
<1> DEFINE t == [i \in DOMAIN G |-> i]
           c == [i \in DOMAIN G |-> "white"]
<1>1. t \in Todo(G) /\ c \in Coloring(G)
  <2>1. t \in [1 .. n -> DOMAIN G \cup {0}]
    OBVIOUS
  <2> HIDE DEF t
  <2>2. t \in Todo(G)
    BY <2>1 DEF Todo
  <2> QED BY <2>2 DEF Coloring, Color
<1>2. \A x \in DOMAIN G : Lists(t, x)
  BY DEF Lists, Drawn
<1>3. \A x \in DOMAIN G : c[x] = "white"
  OBVIOUS
<1>4. PICK f : f = Calls(G, f) /\ cyclicGroups(G) = f[<<t, c>>].cycle
  BY SearchFixed
<1> HIDE DEF t, c
<1>5. cyclicGroups(G) = Answer(G, t, c).cycle
  BY <1>1, <1>4, OnlyAnswers
<1>6. cyclicGroups(G) = Cycle(G, t, c)
  BY <1>5 DEF Answer, Cycle
<1>7. Cycle(G, t, c) <=> \E x \in DOMAIN G : Doomed(G, c, x)
  BY <1>2 DEF Cycle
<1>8. \A S : Endless(G, c, S) <=> S \in SUBSET DOMAIN G /\ \A x \in S : \E y \in S : Edge(G, x, y)
  BY <1>3 DEF Endless
<1>9. (\E x \in DOMAIN G : Doomed(G, c, x)) <=> Circle(G)
  BY <1>8 DEF Circle, Doomed
<1> QED BY <1>6, <1>7, <1>9

-------------------------------------------------------------------------------
(* In every graph of any number of groups, the search for cycles (visit in *)
(* validate.go) answers yes exactly when some groups refer to each other   *)
(* in a circle.                                                            *)
THEOREM SearchFindsCycles == \A n \in Nat : SearchExact(n)
<1> SUFFICES ASSUME NEW n \in Nat, NEW refers \in SUBSET ((1 .. n) \X (1 .. n))
             PROVE  cyclicGroups(Graph(n, refers)) <=> Looped(1 .. n, refers)
  BY DEF SearchExact
<1>1. PICK G : G = Graph(n, refers)
  OBVIOUS
<1>2. /\ DOMAIN G = 1 .. n /\ IsFiniteSet(1 .. n) /\ 0 \notin 1 .. n
      /\ \A i \in 1 .. n : DOMAIN G[i].members = 1 .. n
      /\ \A i, j \in 1 .. n :
           G[i].members[j] = IF <<i, j>> \in refers THEN Ref("group", j) ELSE Direct
  <2>1. IsFiniteSet(1 .. n) /\ 0 \notin 1 .. n
    BY FS_Interval
  <2>2. DOMAIN G = 1 .. n
    BY <1>1 DEF Graph
  <2>3. ASSUME NEW i \in 1 .. n
        PROVE  G[i].members = [j \in 1 .. n |-> IF <<i, j>> \in refers THEN Ref("group", j)
                                                ELSE Direct]
    BY <1>1 DEF Graph
  <2> QED BY <2>1, <2>2, <2>3
<1>3. ASSUME NEW i \in 1 .. n
      PROVE  /\ Targets(G, i) \in [1 .. n -> 0 .. n]
             /\ \A j \in 1 .. n : Targets(G, i)[j] = IF <<i, j>> \in refers THEN j ELSE 0
  <2>1. Targets(G, i) = [j \in 1 .. n |-> IF <<i, j>> \in refers THEN j ELSE 0]
    <3>1. ASSUME NEW j \in 1 .. n
          PROVE  (LET m == G[i].members[j]
                  IN  IF m.kind = "group" /\ m.to \in 1 .. n THEN m.to ELSE 0)
                   = IF <<i, j>> \in refers THEN j ELSE 0
      <4>1. CASE <<i, j>> \in refers
        <5>1. G[i].members[j] = Ref("group", j)
          BY <1>2, <4>1
        <5>2. Ref("group", j).kind = "group" /\ Ref("group", j).to = j
          BY DEF Ref
        <5> QED BY <4>1, <5>1, <5>2
      <4>2. CASE <<i, j>> \notin refers
        <5>1. G[i].members[j] = Direct
          BY <1>2, <4>2
        <5>2. Direct.kind # "group"
          BY DEF Ref, Direct
        <5> QED BY <4>2, <5>1, <5>2
      <4> QED BY <4>1, <4>2
    <3> QED BY <1>2, <3>1 DEF Targets
  <2> QED BY <2>1
<1>4. Drawn(G)
  <2>1. ASSUME NEW i \in 1 .. n PROVE Targets(G, i) \in Seq(1 .. n \cup {0})
    <3>1. \A j \in 1 .. n : Targets(G, i)[j] \in 1 .. n \cup {0}
      BY <1>3
    <3>2. Targets(G, i) \in [1 .. n -> 1 .. n \cup {0}]
      BY <1>3, <3>1
    <3> QED BY <3>2
  <2> QED BY <1>2, <2>1 DEF Drawn, Todo
<1>5. \A x, y \in 1 .. n : Edge(G, x, y) <=> <<x, y>> \in refers
  <2> SUFFICES ASSUME NEW x \in 1 .. n, NEW y \in 1 .. n
               PROVE  Edge(G, x, y) <=> <<x, y>> \in refers
    OBVIOUS
  <2>1. DOMAIN Targets(G, x) = 1 .. n /\ y # 0
    BY <1>3
  <2>2. Edge(G, x, y) <=> \E j \in 1 .. n : Targets(G, x)[j] = y
    BY <2>1 DEF Edge, Lists
  <2> QED BY <1>3, <2>1, <2>2
<1>6. Circle(G) <=> Looped(1 .. n, refers)
  <2>1. \A S \in SUBSET (1 .. n) :
            (\A x \in S : \E y \in S : Edge(G, x, y))
              <=> (\A x \in S : \E y \in S : <<x, y>> \in refers)
    BY <1>5
  <2> QED BY <1>2, <2>1 DEF Circle, Looped
<1> QED BY <1>1, <1>2, <1>4, <1>6, SearchRight

-----------------------------------------------------------------------------
(* The groups of a valid draft, and the rows it was stored in.             *)

LEMMA DraftDrawn ==
    ASSUME NEW d \in ValidDrafts
    PROVE  /\ Drawn(d.groups)
           /\ \A k, i \in DOMAIN d.groups :
                (\E j \in DOMAIN d.groups[k].members :
                    d.groups[k].members[j].kind = "group" /\ d.groups[k].members[j].to = i)
                  => Edge(d.groups, k, i)
<1> DEFINE G == d.groups
           n == Len(G)
<1>1. /\ n \in Nat /\ DOMAIN G = 1 .. n /\ IsFiniteSet(1 .. n)
      /\ \A k \in 1 .. n : /\ Len(G[k].members) \in Nat
                           /\ DOMAIN G[k].members = 1 .. Len(G[k].members)
  <2>1. n \in Nat /\ DOMAIN G = 1 .. n
    BY DraftTypes
  <2>2. \A k \in 1 .. n : /\ Len(G[k].members) \in Nat
                           /\ DOMAIN G[k].members = 1 .. Len(G[k].members)
    BY DraftTypes
  <2> HIDE DEF G, n
  <2> QED BY <2>1, <2>2, FS_Interval
<1> HIDE DEF G, n
<1>2. ASSUME NEW k \in 1 .. n
      PROVE  /\ DOMAIN Targets(G, k) = 1 .. Len(G[k].members)
             /\ Targets(G, k) \in Seq(1 .. n \cup {0})
  <2>1. Targets(G, k) \in [1 .. Len(G[k].members) -> 1 .. n \cup {0}]
    BY <1>1 DEF Targets
  <2> QED BY <1>1, <2>1
<1>3. Drawn(G)
  BY <1>1, <1>2 DEF Drawn, Todo
<1>4. ASSUME NEW k \in 1 .. n, NEW i \in 1 .. n, NEW j \in DOMAIN G[k].members,
             G[k].members[j].kind = "group", G[k].members[j].to = i
      PROVE  Edge(G, k, i)
  <2>1. Targets(G, k)[j] = i /\ j \in DOMAIN Targets(G, k)
    BY <1>1, <1>4 DEF Targets
  <2>2. i # 0
    BY <1>1
  <2> QED BY <2>1, <2>2 DEF Edge, Lists
<1> QED BY <1>1, <1>3, <1>4 DEF G

(* The groups of S refer to each other, by the members in M.               *)
Round(M, S) ==
    \A x \in S : \E m \in M : m.group = x /\ m.ref.kind = "group" /\ m.ref.to \in S

LEMMA ToldAcyclic ==
    ASSUME NEW d \in ValidDrafts, NEW c, NEW gid, NEW pid, NEW rid,
           NEW G, NEW M, NEW P, NEW R, NEW V, Spells(d, c, gid, pid, rid, G, M, P, R, V),
           NEW S, Round(M, S)
    PROVE  S = {}
<1> SUFFICES ASSUME S # {} PROVE FALSE
  OBVIOUS
<1> DEFINE D == DOMAIN d.groups
           T == {k \in D : gid[k] \in S}
<1>1. \A j, k \in D : gid[j] = gid[k] => j = k
  BY DEF Spells, Injection, IsInjective
<1>2. ASSUME NEW x \in S
      PROVE  \E k \in D : \E j \in DOMAIN d.groups[k].members :
                /\ gid[k] = x /\ d.groups[k].members[j].kind = "group"
                /\ d.groups[k].members[j].to \in D
                /\ gid[d.groups[k].members[j].to] \in S
  <2>1. PICK m \in M : m.group = x /\ m.ref.kind = "group" /\ m.ref.to \in S
    BY DEF Round
  <2>2. PICK k \in D : \E j \in DOMAIN d.groups[k].members : m = MemberRow(d, gid, k, j)
    BY DEF Spells
  <2>3. PICK j \in DOMAIN d.groups[k].members : m = MemberRow(d, gid, k, j)
    BY <2>2
  <2>4. m.group = gid[k] /\ m.ref = Located(d.groups[k].members[j], gid)
    BY <2>3 DEF MemberRow
  <2>5. d.groups[k].members[j].kind = "group"
    BY <2>1, <2>4 DEF Located, Ref
  <2>6. m.ref.to = gid[d.groups[k].members[j].to]
    BY <2>4, <2>5 DEF Located, Ref
  <2>7. d.groups[k].members[j].to \in D
    BY <2>5, DraftTypes DEF validateRef
  <2> QED BY <2>1, <2>4, <2>5, <2>6, <2>7
<1>3. T # {}
  BY <1>2
<1>4. ASSUME NEW k \in T PROVE \E i \in T : Edge(d.groups, k, i)
  <2>0. PICK h \in D : \E j \in DOMAIN d.groups[h].members :
            /\ gid[h] = gid[k] /\ d.groups[h].members[j].kind = "group"
            /\ d.groups[h].members[j].to \in D
            /\ gid[d.groups[h].members[j].to] \in S
    BY <1>2
  <2>1. PICK j \in DOMAIN d.groups[h].members :
            /\ gid[h] = gid[k] /\ d.groups[h].members[j].kind = "group"
            /\ d.groups[h].members[j].to \in D
            /\ gid[d.groups[h].members[j].to] \in S
    BY <2>0
  <2>2. h = k
    BY <1>1, <2>1
  <2>3. Edge(d.groups, k, d.groups[h].members[j].to)
    BY <2>1, <2>2, DraftDrawn
  <2> QED BY <2>1, <2>3
<1>5. T \in SUBSET DOMAIN d.groups
  OBVIOUS
<1> HIDE DEF T
<1>6. Circle(d.groups)
  BY <1>3, <1>4, <1>5 DEF Circle
<1>7. ~cyclicGroups(d.groups)
  BY DEF ValidDrafts, Valid, ValidateProxyGroups
<1> QED BY <1>6, <1>7, DraftTypes, DraftDrawn, SearchRight

LEMMA StoredAcyclic ==
    ASSUME IInv, Spelling,
           NEW S, Round(members, S)
    PROVE  S = {}
<1> SUFFICES ASSUME NEW s \in S PROVE FALSE
  OBVIOUS
<1>1. /\ \A m \in members : MemberWithin(m, groups)
      /\ Unique(groups) /\ Anchored(groups, anchors)
  BY DEF IInv, Refs, Rows
<1>2. PICK g \in groups : g.id = s
  BY <1>1 DEF MemberWithin, Round
<1>3. PICK y \in anchors : y.id = g.config
  BY <1>1 DEF Anchored
<1> DEFINE C == {x \in S : \E h \in groups : h.id = x /\ h.config = y.id}
<1>4. ASSUME NEW x \in C
      PROVE  \E m \in MembersOf(y.id) :
                m.group = x /\ m.ref.kind = "group" /\ m.ref.to \in C
  <2>1. PICK h \in groups : h.id = x /\ h.config = y.id
    OBVIOUS
  <2>2. PICK m \in members : m.group = x /\ m.ref.kind = "group" /\ m.ref.to \in S
    BY DEF Round
  <2>3. PICK k \in groups : k.id = m.group /\ Within(m.ref, k.config, groups)
    BY <1>1 DEF MemberWithin
  <2>4. k = h
    BY <1>1, <2>1, <2>2, <2>3 DEF Unique
  <2>5. m.ref.to \in C
    BY <2>1, <2>2, <2>3, <2>4 DEF Within, Has
  <2>6. m \in MembersOf(y.id)
    BY <2>1, <2>2 DEF MembersOf, Of
  <2> QED BY <2>2, <2>5, <2>6
<1>5. s \in C
  BY <1>2, <1>3
<1> HIDE DEF C
<1>6. Round(MembersOf(y.id), C)
  BY <1>4 DEF Round
<1>7. CASE Blank(y.id)
  BY <1>4, <1>5, <1>7 DEF Blank, MembersOf
<1>8. ASSUME NEW d \in ValidDrafts, Told(y.id, d) PROVE FALSE
  <2>1. PICK gid, pid, rid : Spells(d, y.id, gid, pid, rid, Of(groups, y.id), MembersOf(y.id),
                                    Of(providers, y.id), Of(rules, y.id), Of(values, y.id))
    BY <1>8 DEF Told
  <2>2. C = {}
    BY <1>6, <2>1, ToldAcyclic
  <2> QED BY <1>5, <2>2
<1> QED BY <1>7, <1>8 DEF Spelling

(* No stored group leads back to itself: the search refuses every draft    *)
(* that loops, and storing it under new ids or cloning it makes no loop.   *)
THEOREM Acyclic == Spec => []GroupsAcyclic
<1>1. IInv /\ Spelling => GroupsAcyclic
  <2> SUFFICES ASSUME IInv, Spelling PROVE GroupsAcyclic
    OBVIOUS
  <2> DEFINE refs == {<<m.group, m.ref.to>> : m \in {x \in members : x.ref.kind = "group"}}
  <2>1. ASSUME NEW S, \A x \in S : \E y \in S : <<x, y>> \in refs
        PROVE  S = {}
    <3>1. ASSUME NEW x \in S
          PROVE  \E m \in members : m.group = x /\ m.ref.kind = "group" /\ m.ref.to \in S
      <4>1. PICK y \in S : <<x, y>> \in refs
        BY <2>1
      <4>2. PICK m \in {z \in members : z.ref.kind = "group"} : <<x, y>> = <<m.group, m.ref.to>>
        BY <4>1
      <4> QED BY <4>2
    <3>2. Round(members, S)
      BY <3>1 DEF Round
    <3> QED BY <3>2, StoredAcyclic
  <2>2. ~Looped({r[1] : r \in refs}, refs)
    <3> HIDE DEF refs
    <3> QED BY <2>1 DEF Looped
  <2>3. SearchExact(3)
    BY SearchFindsCycles
  <2> QED BY <2>2, <2>3 DEF GroupsAcyclic
<1> QED BY <1>1, SpellingHolds, PTL

===============================================================================
