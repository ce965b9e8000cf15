-------------------------- MODULE SubscriptionProofs --------------------------
(***************************************************************************)
(* Theorems about Subscription, for any clients, users and drafts: nobody  *)
(* is served another user's config, and the profile refers to nothing it   *)
(* does not define, whatever admins do between the nine queries; when they *)
(* do nothing, the profile is what the config holds.                       *)
(***************************************************************************)
EXTENDS Subscription, ConfigStoreProofs

ValueType == [config : ConfigId, value : STRING]
Stage == {"idle", "token", "custom", "base", "fleet", "rules", "groups", "members",
          "providers", "setting", "profile", "served"}

(* What a request may have read: rows of the tables, at different times.   *)
SubRequest ==
    [pc : Stage, user : User \cup {Nobody}, config : Nat, has : SUBSET Inbound,
     rules : SUBSET RuleType, groups : SUBSET GroupType, members : SUBSET MemberType,
     providers : SUBSET ProviderType, setting : SUBSET ValueType, profile : SUBSET ValueType,
     quiet : BOOLEAN]

(* The config it picked is its user's or the base, or gone for good; the   *)
(* members it has read have their places to themselves.                    *)
Bound(r) ==
    /\ r.config <= lastId.anchors
    /\ \A x \in anchors : x.id = r.config => x.owner \in {r.user, Base}
Listable(M) ==
    /\ IsFiniteSet(M)
    /\ \A m, n \in M : m.group = n.group /\ m.pos = n.pos => m = n

SubInv ==
    /\ IInv
    /\ sub \in [Client -> SubRequest]
    /\ \A s \in Client : Bound(sub[s]) /\ Listable(sub[s].members)

-----------------------------------------------------------------------------
(* What the admins' steps do to the anchors: some go, new ones have new ids. *)

LEMMA AnchorsIssued ==
    ASSUME IInv, [Next]_vars
    PROVE  /\ lastId.anchors \in Nat /\ lastId'.anchors \in Nat
           /\ lastId.anchors <= lastId'.anchors
           /\ \A x \in anchors' : x \in anchors \/ x.id > lastId.anchors
<1> DEFINE Same == anchors' \subseteq anchors /\ lastId'.anchors = lastId.anchors
           Made == /\ \E o \in Owner :
                        anchors' = anchors \cup {[id |-> lastId.anchors + 1, owner |-> o]}
                   /\ lastId'.anchors = lastId.anchors + 1
<1>1. lastId \in [anchors : Nat, groups : Nat, providers : Nat] /\ lastId.anchors \in Nat
  BY DEF IInv, Issued
<1>2. ASSUME NEW a \in Admin, Submit(a) \/ ResolveConfig(a) PROVE Same
  BY <1>2 DEF Submit, ResolveConfig
<1>3. ASSUME NEW a \in Admin, EnsureBase(a) PROVE Same \/ Made
  <2>1. Base \in Owner
    BY DEF Owner
  <2>2. CASE ConfigsOf(Base) = {}
    <3>1. /\ anchors' = anchors \cup {[id |-> lastId.anchors + 1, owner |-> Base]}
          /\ lastId' = [lastId EXCEPT !.anchors = @ + 1]
      BY <1>3, <2>2 DEF EnsureBase
    <3>2. lastId'.anchors = lastId.anchors + 1
      BY <1>1, <3>1
    <3> QED BY <2>1, <3>1, <3>2
  <2>3. CASE ConfigsOf(Base) # {}
    BY <1>3, <2>3 DEF EnsureBase
  <2> QED BY <2>2, <2>3
<1>4. ASSUME NEW a \in Admin, SaveMihomoConfig(a) PROVE Same
  <2>1. \/ lastId' = lastId
        \/ lastId' = [lastId EXCEPT !.groups = @ + Len(req[a].draft.groups),
                                    !.providers = @ + Len(req[a].draft.providers)]
    BY <1>4 DEF SaveMihomoConfig
  <2>2. lastId'.anchors = lastId.anchors
    BY <1>1, <2>1
  <2> QED BY <1>4, <2>2 DEF SaveMihomoConfig
<1>5. ASSUME NEW u \in User, CreateUserConfig(u) PROVE Made
  <2>1. /\ anchors' = anchors \cup {[id |-> lastId.anchors + 1, owner |-> u]}
        /\ u \in Owner
    BY <1>5 DEF CreateUserConfig, NextConfig, Owner
  <2>2. lastId'.anchors = lastId.anchors + 1
    <3>1. CASE ConfigsOf(Base) = {}
      <4>1. lastId' = [lastId EXCEPT !.anchors = @ + 1]
        BY <1>5, <3>1 DEF CreateUserConfig
      <4> QED BY <1>1, <4>1
    <3>2. CASE ConfigsOf(Base) # {}
      <4>1. \E m, n : lastId' = [anchors |-> lastId.anchors + 1, groups |-> m, providers |-> n]
        BY <1>5, <3>2 DEF CreateUserConfig
      <4> QED BY <4>1
    <3> QED BY <3>1, <3>2
  <2> QED BY <2>1, <2>2
<1>6. ASSUME NEW u \in User, DeleteUserConfig(u) \/ DeleteUser(u) PROVE Same
  <2>1. lastId' = lastId
    BY <1>6 DEF DeleteUserConfig, DeleteUser
  <2>2. anchors' \subseteq anchors
    BY <1>6 DEF DeleteUserConfig, DeleteUser, Cascade
  <2> QED BY <2>1, <2>2
<1>7. ASSUME NEW i \in Inbound, DropInbound(i) PROVE Same
  BY <1>7 DEF DropInbound
<1>8. ASSUME Quiet \/ UNCHANGED vars PROVE Same
  BY <1>8 DEF Quiet, vars
<1>9. Same \/ Made
  BY <1>2, <1>3, <1>4, <1>5, <1>6, <1>7, <1>8 DEF Next
<1>10. CASE Same
  BY <1>1, <1>10
<1>11. CASE Made
  BY <1>1, <1>11
<1> QED BY <1>9, <1>10, <1>11

-----------------------------------------------------------------------------
(* A step of the handler: what it reads is there when it reads it. *)

(* What a step of the handler changes in a request, and what it leaves.    *)
Like(r) == {n \in SubRequest : /\ n.config = r.config /\ n.user = r.user
                               /\ n.members = r.members}

LEMMA Changes ==
    ASSUME NEW r \in SubRequest, NEW pc \in Stage
    PROVE  /\ [r EXCEPT !.pc = pc] \in Like(r)
           /\ \A S \in SUBSET Inbound : [r EXCEPT !.pc = pc, !.has = S] \in Like(r)
           /\ \A R \in SUBSET RuleType : [r EXCEPT !.pc = pc, !.rules = R] \in Like(r)
           /\ \A G \in SUBSET GroupType : [r EXCEPT !.pc = pc, !.groups = G] \in Like(r)
           /\ \A P \in SUBSET ProviderType : [r EXCEPT !.pc = pc, !.providers = P] \in Like(r)
           /\ \A V \in SUBSET ValueType : [r EXCEPT !.pc = pc, !.setting = V] \in Like(r)
           /\ \A V \in SUBSET ValueType : [r EXCEPT !.pc = pc, !.profile = V] \in Like(r)
           /\ \A c \in Nat : [r EXCEPT !.pc = pc, !.config = c] \in SubRequest
           /\ \A M \in SUBSET MemberType : [r EXCEPT !.pc = pc, !.members = M] \in SubRequest
<1>1. [r EXCEPT !.pc = pc] \in Like(r)
  BY DEF SubRequest, Like
<1>2. \A S \in SUBSET Inbound : [r EXCEPT !.pc = pc, !.has = S] \in Like(r)
  BY DEF SubRequest, Like
<1>3. \A R \in SUBSET RuleType : [r EXCEPT !.pc = pc, !.rules = R] \in Like(r)
  BY DEF SubRequest, Like
<1>4. \A G \in SUBSET GroupType : [r EXCEPT !.pc = pc, !.groups = G] \in Like(r)
  BY DEF SubRequest, Like
<1>5. \A P \in SUBSET ProviderType : [r EXCEPT !.pc = pc, !.providers = P] \in Like(r)
  BY DEF SubRequest, Like
<1>6. \A V \in SUBSET ValueType : [r EXCEPT !.pc = pc, !.setting = V] \in Like(r)
  BY DEF SubRequest, Like
<1>7. \A V \in SUBSET ValueType : [r EXCEPT !.pc = pc, !.profile = V] \in Like(r)
  BY DEF SubRequest, Like
<1>8. \A c \in Nat : [r EXCEPT !.pc = pc, !.config = c] \in SubRequest
  BY DEF SubRequest, Like
<1>9. \A M \in SUBSET MemberType : [r EXCEPT !.pc = pc, !.members = M] \in SubRequest
  BY DEF SubRequest, Like
<1> QED BY <1>1, <1>2, <1>3, <1>4, <1>5, <1>6, <1>7, <1>8, <1>9

LEMMA ServeKeeps ==
    ASSUME SubInv, UNCHANGED vars,
           NEW s \in Client, NEW r \in SubRequest, SetSub(s, r),
           Bound(r), Listable(r.members)
    PROVE  SubInv'
<1>1. IInv'
  <2>1. IInv /\ [Next]_vars
    BY DEF SubInv
  <2> QED BY <2>1, Inductive
<1>2. sub' \in [Client -> SubRequest]
  BY DEF SubInv, SetSub
<1>3. ASSUME NEW c \in Client PROVE Bound(sub[c])' /\ Listable(sub[c].members)'
  <2>1. sub'[c] = r \/ sub'[c] = sub[c]
    BY DEF SubInv, SetSub
  <2>2. Bound(sub'[c]) /\ Listable(sub'[c].members)
    BY <2>1 DEF SubInv
  <2>3. anchors' = anchors /\ lastId' = lastId
    BY DEF vars
  <2> QED BY <2>2, <2>3 DEF Bound, Listable
<1> QED BY <1>1, <1>2, <1>3 DEF SubInv

LEMMA ReadsRows ==
    ASSUME IInv
    PROVE  /\ users \subseteq User /\ inbounds \subseteq Inbound
           /\ \A c : /\ Of(rules, c) \subseteq RuleType
                     /\ Of(groups, c) \subseteq GroupType
                     /\ Of(providers, c) \subseteq ProviderType
                     /\ Of(values, c) \subseteq ValueType
           /\ members \subseteq MemberType
           /\ Listable(members)
           /\ lastId.anchors \in Nat
           /\ \A x \in anchors : x.id \in Nat \ {0} /\ x.id <= lastId.anchors
<1>1. /\ users \subseteq User /\ inbounds \subseteq Inbound /\ members \subseteq MemberType
      /\ \A c : /\ Of(rules, c) \subseteq RuleType
                /\ Of(groups, c) \subseteq GroupType
                /\ Of(providers, c) \subseteq ProviderType
                /\ Of(values, c) \subseteq ValueType
  BY DEF IInv, TypeOK, Of, RuleType, GroupType, ProviderType, MemberType,
         ValueType
<1>2. Listable(members)
  BY DEF IInv, Rows, Finite, Listable
<1>3. lastId.anchors \in Nat /\ \A x \in anchors : x.id <= lastId.anchors
  BY DEF IInv, Issued
<1>4. \A x \in anchors : x.id \in Nat \ {0}
  BY StoreAssumption DEF IInv, TypeOK, ConfigId, StoreAssumption
<1> QED BY <1>1, <1>2, <1>3, <1>4

LEMMA NoSubFits ==
    ASSUME IInv
    PROVE  NoSub \in SubRequest /\ Bound(NoSub) /\ Listable(NoSub.members)
<1>1. NoSub \in SubRequest
  BY DEF NoSub, SubRequest, Stage
<1>2. Bound(NoSub)
  <2>1. NoSub.config = 0
    BY DEF NoSub
  <2> QED BY <2>1, ReadsRows DEF Bound
<1>3. NoSub.members = {}
  BY DEF NoSub
<1>4. Listable({})
  BY FS_EmptySet DEF Listable
<1> QED BY <1>1, <1>2, <1>3, <1>4

LEMMA Picked ==
    ASSUME IInv, NEW o \in Owner, NEW c \in ConfigsOf(o)
    PROVE  /\ c \in Nat /\ c <= lastId.anchors
           /\ \A x \in anchors : x.id = c => x.owner = o
<1>1. PICK y \in anchors : y.owner = o /\ y.id = c
  BY DEF ConfigsOf
<1>2. \A x \in anchors : x.id = y.id => x = y
  BY DEF IInv, Anchors, Unique
<1> QED BY <1>1, <1>2, ReadsRows

(* A request that goes on from r, with only what is not bound changed.     *)
LEMMA GoesOn ==
    ASSUME SubInv, UNCHANGED vars,
           NEW s \in Client, NEW r \in Like(sub[s]), SetSub(s, r)
    PROVE  SubInv'
<1>1. r \in SubRequest /\ Bound(r) /\ Listable(r.members)
  BY DEF SubInv, Bound, Like
<1> QED BY <1>1, ServeKeeps

LEMMA ServeInvariant ==
    ASSUME SubInv, NEW s \in Client, Serve(s), UNCHANGED vars
    PROVE  SubInv'
<1>0. IInv /\ sub[s] \in SubRequest /\ Bound(sub[s]) /\ Listable(sub[s].members)
  BY DEF SubInv
<1>n. ASSUME SetSub(s, NoSub) PROVE SubInv'
  BY <1>0, <1>n, NoSubFits, ServeKeeps
<1>g. ASSUME NEW pc \in Stage, Go(s, pc) PROVE SubInv'
  <2> DEFINE r == [sub[s] EXCEPT !.pc = pc]
  <2>1. r \in Like(sub[s])
    BY <1>0, Changes DEF Stage
  <2>2. SetSub(s, r)
    BY <1>g DEF Stage, Go
  <2> QED BY <2>1, <2>2, GoesOn
<1>p. ASSUME NEW o \in {sub[s].user, Base} \cap Owner, NEW c \in ConfigsOf(o), Pick(s, c)
      PROVE  SubInv'
  <2> DEFINE r == [sub[s] EXCEPT !.pc = "fleet", !.config = c]
  <2>1. /\ c \in Nat /\ c <= lastId.anchors
        /\ \A x \in anchors : x.id = c => x.owner = o
    BY <1>0, Picked
  <2>5. r \in SubRequest
    BY <1>0, <2>1, Changes DEF Stage
  <2>2. r \in SubRequest /\ r.config = c
        /\ r.user = sub[s].user /\ r.members = sub[s].members
    BY <1>0, <2>5 DEF SubRequest
  <2>3. Bound(r) /\ Listable(r.members)
    BY <1>0, <2>1, <2>2 DEF Bound
  <2>4. SetSub(s, r)
    BY <1>p DEF Pick
  <2> QED BY <2>2, <2>3, <2>4, ServeKeeps
<1>1. CASE MatchToken(s)
  <2>1. PICK u \in users : SetSub(s, [NoSub EXCEPT !.pc = "token", !.user = u])
    BY <1>1 DEF MatchToken
  <2> DEFINE r == [NoSub EXCEPT !.pc = "token", !.user = u]
  <2>2. u \in User
    BY <1>0, ReadsRows
  <2>3. r \in SubRequest /\ r.config = 0 /\ r.members = {}
    BY <2>2 DEF NoSub, SubRequest, Stage
  <2>4. Bound(r)
    BY <1>0, <2>3, ReadsRows DEF Bound
  <2>5. Listable({})
    BY FS_EmptySet DEF Listable
  <2> QED BY <2>1, <2>3, <2>4, <2>5, ServeKeeps
<1>2. CASE ResolveUser(s)
  BY <1>2, <1>n, <1>g DEF Stage, ResolveUser
<1>3. CASE CustomConfig(s)
  <2>1. CASE ConfigsOf(sub[s].user) = {}
    BY <1>3, <2>1, <1>g DEF Stage, CustomConfig
  <2>2. CASE ConfigsOf(sub[s].user) # {}
    <3>1. PICK c \in ConfigsOf(sub[s].user) : Pick(s, c)
      BY <1>3, <2>2 DEF CustomConfig
    <3>2. sub[s].user \in Owner
      BY <1>0, <3>1 DEF ConfigsOf, IInv, TypeOK
    <3> QED BY <3>1, <3>2, <1>p
  <2> QED BY <2>1, <2>2
<1>4. CASE BaseConfig(s)
  <2>1. CASE ConfigsOf(Base) = {}
    BY <1>4, <2>1, <1>g DEF Stage, BaseConfig
  <2>2. CASE ConfigsOf(Base) # {}
    <3>1. PICK c \in ConfigsOf(Base) : Pick(s, c)
      BY <1>4, <2>2 DEF BaseConfig
    <3> QED BY <3>1, <1>p DEF Owner
  <2> QED BY <2>1, <2>2
<1>5. CASE Fleet(s)
  <2>1. ASSUME NEW S \in SUBSET inbounds,
               SetSub(s, [sub[s] EXCEPT !.pc = "rules", !.has = S])
        PROVE  SubInv'
    <3> DEFINE r == [sub[s] EXCEPT !.pc = "rules", !.has = S]
    <3>1. S \subseteq Inbound
      BY <1>0, ReadsRows
    <3>2. r \in Like(sub[s])
      BY <1>0, <3>1, Changes DEF Stage
    <3> QED BY <2>1, <3>2, GoesOn
  <2> QED BY <1>5, <2>1, <1>n DEF Fleet
<1>6. CASE ReadRules(s)
  <2> DEFINE r == [sub[s] EXCEPT !.pc = "groups", !.rules = Of(rules, sub[s].config)]
  <2>1. Of(rules, sub[s].config) \subseteq RuleType
    BY <1>0, ReadsRows
  <2>2. r \in Like(sub[s])
    BY <1>0, <2>1, Changes DEF Stage
  <2>3. SetSub(s, r)
    BY <1>6 DEF ReadRules
  <2> QED BY <2>2, <2>3, GoesOn
<1>7. CASE ReadGroups(s)
  <2> DEFINE r == [sub[s] EXCEPT !.pc = "members", !.groups = Of(groups, sub[s].config)]
  <2>1. Of(groups, sub[s].config) \subseteq GroupType
    BY <1>0, ReadsRows
  <2>2. r \in Like(sub[s])
    BY <1>0, <2>1, Changes DEF Stage
  <2>3. SetSub(s, r)
    BY <1>7 DEF ReadGroups
  <2> QED BY <2>2, <2>3, GoesOn
<1>8. CASE ReadMembers(s)
  <2> DEFINE M == {m \in members : \E g \in sub[s].groups : g.id = m.group}
             r == [sub[s] EXCEPT !.pc = "providers", !.members = M]
  <2>1. M \subseteq members /\ members \subseteq MemberType /\ Listable(members)
    BY <1>0, ReadsRows
  <2>2. Listable(M)
    <3>1. IsFiniteSet(M)
      BY <2>1, FS_Subset DEF Listable
    <3> QED BY <2>1, <3>1 DEF Listable
  <2>3. M \subseteq MemberType
    BY <2>1
  <2>4. SetSub(s, r)
    BY <1>8 DEF ReadMembers
  <2> HIDE DEF M
  <2>7. r \in SubRequest
    BY <1>0, <2>3, Changes DEF Stage
  <2>5. r.members = M /\ r.config = sub[s].config /\ r.user = sub[s].user
    BY <1>0 DEF SubRequest
  <2>6. Bound(r)
    BY <1>0, <2>5 DEF Bound
  <2> QED BY <2>2, <2>4, <2>5, <2>6, <2>7, ServeKeeps
<1>9. CASE ReadProviders(s)
  <2> DEFINE r == [sub[s] EXCEPT !.pc = "setting", !.providers = Of(providers, sub[s].config)]
  <2>1. Of(providers, sub[s].config) \subseteq ProviderType
    BY <1>0, ReadsRows
  <2>2. r \in Like(sub[s])
    BY <1>0, <2>1, Changes DEF Stage
  <2>3. SetSub(s, r)
    BY <1>9 DEF ReadProviders
  <2> QED BY <2>2, <2>3, GoesOn
<1>10. CASE ReadSetting(s)
  <2> DEFINE r == [sub[s] EXCEPT !.pc = "profile", !.setting = Of(values, sub[s].config)]
  <2>1. Of(values, sub[s].config) \subseteq ValueType
    BY <1>0, ReadsRows
  <2>2. r \in Like(sub[s])
    BY <1>0, <2>1, Changes DEF Stage
  <2>3. SetSub(s, r)
    BY <1>10 DEF ReadSetting
  <2> QED BY <2>2, <2>3, GoesOn
<1>11. CASE ReadProfile(s)
  <2> DEFINE r == [sub[s] EXCEPT !.pc = "served", !.profile = Of(values, sub[s].config)]
  <2>1. Of(values, sub[s].config) \subseteq ValueType
    BY <1>0, ReadsRows
  <2>2. r \in Like(sub[s])
    BY <1>0, <2>1, Changes DEF Stage
  <2>3. SetSub(s, r)
    BY <1>11 DEF ReadProfile
  <2> QED BY <2>2, <2>3, GoesOn
<1>12. CASE Leave(s)
  BY <1>12, <1>n DEF Leave
<1> QED BY <1>1, <1>2, <1>3, <1>4, <1>5, <1>6, <1>7, <1>8, <1>9, <1>10, <1>11, <1>12
        DEF Serve

-----------------------------------------------------------------------------
(* A step of an admin, who changes the tables under the requests. *)

LEMMA AdministerInvariant ==
    ASSUME SubInv, Administer
    PROVE  SubInv'
<1>1. IInv /\ [Next]_vars /\ IInv'
  BY Inductive DEF SubInv, Administer
<1>2. \E quiet \in [Client -> BOOLEAN] :
        sub' = [s \in Client |-> [sub[s] EXCEPT !.quiet = quiet[s]]]
  <2> DEFINE q == [s \in Client |-> sub[s].quiet /\ <<users, anchors, tables>>'
                                                     = <<users, anchors, tables>>]
  <2>1. sub' = [s \in Client |-> [sub[s] EXCEPT !.quiet = q[s]]]
    BY DEF Administer, SubInv, SubRequest
  <2>2. \A s \in Client : sub[s].quiet \in BOOLEAN
    BY DEF SubInv, SubRequest
  <2>3. q \in [Client -> BOOLEAN]
    BY <2>2
  <2> QED BY <2>1, <2>3
<1>3. PICK quiet \in [Client -> BOOLEAN] :
        sub' = [s \in Client |-> [sub[s] EXCEPT !.quiet = quiet[s]]]
  BY <1>2
<1>4. ASSUME NEW s \in Client
      PROVE  /\ sub'[s] \in SubRequest
             /\ sub'[s].config = sub[s].config /\ sub'[s].user = sub[s].user
             /\ sub'[s].members = sub[s].members
  <2>1. sub[s] \in SubRequest /\ quiet[s] \in BOOLEAN
    BY DEF SubInv
  <2>2. sub'[s] = [sub[s] EXCEPT !.quiet = quiet[s]]
    BY <1>3
  <2> QED BY <2>1, <2>2 DEF SubRequest
<1>5. ASSUME NEW s \in Client PROVE Bound(sub[s])' /\ Listable(sub[s].members)'
  <2>1. sub[s].config \in Nat /\ Bound(sub[s]) /\ Listable(sub[s].members)
    BY DEF SubInv, SubRequest
  <2>2. /\ lastId.anchors \in Nat /\ lastId'.anchors \in Nat
        /\ lastId.anchors <= lastId'.anchors
        /\ \A x \in anchors' : x \in anchors \/ x.id > lastId.anchors
    BY <1>1, AnchorsIssued
  <2>3. \A x \in anchors' : x.id \in Nat
    BY <1>1 DEF IInv, TypeOK, ConfigId
  <2>4. sub[s].config <= lastId.anchors
        /\ \A x \in anchors : x.id = sub[s].config => x.owner \in {sub[s].user, Base}
    BY <2>1 DEF Bound
  <2>5. \A x \in anchors' : x.id = sub[s].config => x.owner \in {sub[s].user, Base}
    BY <2>1, <2>2, <2>3, <2>4
  <2>6. sub[s].config <= lastId'.anchors
    BY <2>1, <2>2, <2>4
  <2>7. Bound(sub[s])'
    BY <1>4, <2>5, <2>6 DEF Bound
  <2> QED BY <1>4, <2>1, <2>7 DEF Listable
<1>6. sub' \in [Client -> SubRequest]
  BY <1>3, <1>4
<1> QED BY <1>1, <1>5, <1>6 DEF SubInv

LEMMA SubHolds == SubSpec => []SubInv
<1>1. SubInit => SubInv
  <2> SUFFICES ASSUME SubInit PROVE SubInv
    OBVIOUS
  <2>1. IInv
    BY InitKeeps DEF SubInit
  <2>2. \A s \in Client : sub[s] = NoSub
    BY DEF SubInit
  <2>3. sub \in [Client -> SubRequest]
    BY <2>1, NoSubFits DEF SubInit
  <2> QED BY <2>1, <2>2, <2>3, NoSubFits DEF SubInv
<1>2. SubInv /\ [SubNext]_<<vars, sub>> => SubInv'
  <2> SUFFICES ASSUME SubInv, [SubNext]_<<vars, sub>> PROVE SubInv'
    OBVIOUS
  <2>1. CASE Administer
    BY <2>1, AdministerInvariant
  <2>2. ASSUME NEW s \in Client, Serve(s) /\ UNCHANGED vars PROVE SubInv'
    BY <2>2, ServeInvariant
  <2>3. CASE UNCHANGED <<vars, sub>>
    <3>1. UNCHANGED vars /\ sub' = sub /\ IInv
      BY <2>3 DEF SubInv
    <3>2. IInv'
      BY <3>1, Inductive
    <3>3. anchors' = anchors /\ lastId' = lastId
      BY <3>1 DEF vars
    <3> QED BY <3>1, <3>2, <3>3 DEF SubInv, Bound, Listable
  <2> QED BY <2>1, <2>2, <2>3 DEF SubNext
<1> QED BY <1>1, <1>2, PTL DEF SubSpec

(* No subscriber is served another user's custom config: a request keeps   *)
(* the id UserConfigID or BaseConfigID gave it while the config is deleted *)
(* and others are created, and AUTOINCREMENT hands no id out again.        *)
THEOREM NobodyElses == SubSpec => []NeverAnothersConfig
<1>1. SubInv => NeverAnothersConfig
  BY DEF SubInv, Bound, NeverAnothersConfig
<1> QED BY <1>1, SubHolds, PTL

-----------------------------------------------------------------------------
(* The profile. *)

LEMMA EveryPlace ==
    ASSUME NEW S, IsFiniteSet(S), \A m \in S : m.pos \in Nat,
           \A m, n \in S : m.pos = n.pos => m = n,
           NEW j \in 1 .. Cardinality(S)
    PROVE  \E m \in S : Place({x.pos : x \in S}, m.pos) = j
<1> DEFINE K == {x.pos : x \in S}
           h == [m \in S |-> m.pos]
           f == [m \in S |-> Place(K, m.pos)]
           N == Cardinality(S)
<1>1. K \in SUBSET Nat /\ \A m \in S : m.pos \in K
  OBVIOUS
<1>2. h \in Surjection(S, K) /\ h \in Injection(S, K)
  <2>1. h \in [S -> K] /\ \A k \in K : \E m \in S : h[m] = k
    OBVIOUS
  <2>2. \A m, n \in S : h[m] = h[n] => m = n
    OBVIOUS
  <2> HIDE DEF h, K
  <2> QED BY <2>1, <2>2 DEF Surjection, Injection, IsInjective
<1>3. IsFiniteSet(K) /\ Cardinality(K) = N
  <2> HIDE DEF h, K
  <2> QED BY <1>2, FS_Surjection
<1>4. N \in Nat /\ IsFiniteSet(1 .. N) /\ Cardinality(1 .. N) = N
  <2>1. N \in Nat
    BY FS_CardinalityType
  <2> HIDE DEF N
  <2> QED BY <2>1, FS_Interval
<1> HIDE DEF K, N
<1>5. f \in Injection(S, 1 .. N)
  <2>1. ASSUME NEW m \in S PROVE Place(K, m.pos) \in 1 .. N
    <3>1. /\ Place(K, m.pos) \in Nat
          /\ 1 <= Place(K, m.pos) /\ Place(K, m.pos) <= Cardinality(K)
      BY <1>1, <1>3, PlaceRange
    <3> QED BY <1>3, <1>4, <3>1
  <2>2. ASSUME NEW m \in S, NEW n \in S, f[m] = f[n] PROVE m = n
    <3>1. Place(K, m.pos) = Place(K, n.pos)
      BY <2>2
    <3>2. m.pos = n.pos
      BY <1>1, <1>3, <3>1, PlaceApart
    <3> QED BY <3>2
  <2>3. f \in [S -> 1 .. N]
    BY <2>1
  <2> HIDE DEF f
  <2> QED BY <2>2, <2>3 DEF Injection, IsInjective
<1>6. f \in Surjection(S, 1 .. N)
  <2> HIDE DEF f
  <2> QED BY <1>4, <1>5, FS_Injection DEF N
<1>7. PICK m \in S : f[m] = j
  BY <1>6 DEF Surjection, N
<1> QED BY <1>7 DEF K

(* What request r may name: groups it defines, inbounds it has proxies for. *)
Defined(r, ref) ==
    /\ ref.kind = "group" => \E g \in r.groups : g.name = ref.to
    /\ ref.kind = "inbound" => ref.to \in r.has

LEMMA NameDefined ==
    ASSUME NEW r, NEW ref, Resolves(r, ref)
    PROVE  Defined(r, NameIn(r, ref))
<1>1. CASE ref.kind = "group"
  <2>1. \E g \in r.groups : g.id = ref.to
    BY <1>1 DEF Resolves
  <2>2. Row(r.groups, ref.to) \in r.groups
    BY <2>1 DEF Row
  <2>3. NameIn(r, ref) = [kind |-> "group", to |-> Row(r.groups, ref.to).name]
    BY <1>1, <2>1 DEF NameIn, Ref
  <2> QED BY <2>2, <2>3 DEF Defined
<1>2. CASE ref.kind # "group"
  <2>1. NameIn(r, ref) = ref
    BY <1>2 DEF NameIn
  <2>2. ref.kind = "inbound" => ref.to \in r.has
    BY DEF Resolves
  <2> QED BY <1>2, <2>1, <2>2 DEF Defined
<1> QED BY <1>1, <1>2

LEMMA ListedDefined ==
    ASSUME NEW r \in SubRequest, Listable(r.members), NEW g \in r.groups
    PROVE  /\ Listed(r, g) # <<>>
           /\ \A j \in DOMAIN Listed(r, g) : Defined(r, Listed(r, g)[j])
<1> DEFINE S == Shown(r, g)
<1>1. CASE S = {}
  <2>1. Listed(r, g) = <<Direct>>
    BY <1>1 DEF Listed
  <2>2. Defined(r, Direct)
    BY DEF Defined, Direct, Ref
  <2> QED BY <2>1, <2>2
<1>2. CASE S # {}
  <2> DEFINE at(j) == CHOOSE m \in S : Place({x.pos : x \in S}, m.pos) = j
             N == Cardinality(S)
  <2>1. /\ IsFiniteSet(S)
        /\ \A m \in S : m.pos \in Nat /\ Resolves(r, m.ref)
        /\ \A m, n \in S : m.pos = n.pos => m = n
    <3>1. S \subseteq r.members /\ r.members \subseteq MemberType
      BY DEF Shown, SubRequest
    <3>2. IsFiniteSet(S)
      <4> HIDE DEF S
      <4> QED BY <3>1, FS_Subset DEF Listable
    <3> QED BY <3>1, <3>2 DEF Shown, Listable, MemberType
  <2>2. N \in Nat /\ N # 0
    <3> HIDE DEF S
    <3> QED BY <1>2, <2>1, FS_CardinalityType, FS_EmptySet
  <2>3. Listed(r, g) = [j \in 1 .. N |-> NameIn(r, at(j).ref)]
    BY <1>2 DEF Listed
  <2>4. ASSUME NEW j \in 1 .. N PROVE at(j) \in S
    <3> HIDE DEF S
    <3>1. \E m \in S : Place({x.pos : x \in S}, m.pos) = j
      BY <2>1, <2>4, EveryPlace DEF N
    <3> QED BY <3>1
  <2> HIDE DEF at, S, N
  <2>5. ASSUME NEW j \in 1 .. N PROVE Defined(r, Listed(r, g)[j])
    <3>1. Resolves(r, at(j).ref)
      BY <2>1, <2>4
    <3> QED BY <2>3, <3>1, NameDefined
  <2>6. 1 \in DOMAIN Listed(r, g) /\ DOMAIN Listed(r, g) = 1 .. N
    BY <2>2, <2>3
  <2>7. DOMAIN <<>> = {}
    OBVIOUS
  <2>8. Listed(r, g) # <<>>
    BY <2>6, <2>7
  <2> QED BY <2>5, <2>6, <2>8
<1> QED BY <1>1, <1>2

LEMMA RulesDefined ==
    ASSUME NEW r \in SubRequest, NEW x \in Rendered(r).rules
    PROVE  /\ Defined(r, x[2].target)
           /\ \A p \in x[2].providers : p[2] \in Offered(r) \cup {""}
<1> DEFINE path == PathOf(r.rules)
           providerName(y) ==
               IF y.provider = 0 THEN ""
               ELSE IF \E p \in r.providers : p.id = y.provider
               THEN Row(r.providers, y.provider).name ELSE Unresolved
           line(y) == [target |-> NameIn(r, y.target),
                       providers |-> {<<path[j], providerName(Row(r.rules, j))>>
                                        : j \in Below(path, path[y.id])}]
<1>1. PICK y \in Lines(r) : x = <<y.pos, line(y)>>
  BY DEF Rendered
<1>2. Resolves(r, y.target) /\ MatcherRenders(r, path, y.id)
  BY DEF Lines
<1>3. /\ x[2].target = NameIn(r, y.target)
      /\ x[2].providers = {<<path[j], providerName(Row(r.rules, j))>>
                              : j \in Below(path, path[y.id])}
  <2>1. x[2] = line(y)
    BY <1>1
  <2>2. /\ line(y).target = NameIn(r, y.target)
        /\ line(y).providers = {<<path[j], providerName(Row(r.rules, j))>>
                                  : j \in Below(path, path[y.id])}
    OBVIOUS
  <2> HIDE DEF line, providerName, path
  <2> QED BY <2>1, <2>2
<1>4. Defined(r, x[2].target)
  <2>1. Defined(r, NameIn(r, y.target))
    BY <1>2, NameDefined
  <2> QED BY <1>3, <2>1
<1>5. ASSUME NEW p \in x[2].providers PROVE p[2] \in Offered(r) \cup {""}
  <2>1. PICK j \in Below(path, path[y.id]) : p = <<path[j], providerName(Row(r.rules, j))>>
    BY <1>3, <1>5
  <2>2. p[2] = providerName(Row(r.rules, j))
    BY <2>1
  <2>3. \/ Row(r.rules, j).provider = 0
        \/ \E q \in r.providers : q.id = Row(r.rules, j).provider
    BY <1>2 DEF MatcherRenders
  <2>4. CASE Row(r.rules, j).provider = 0
    BY <2>2, <2>4
  <2>5. CASE Row(r.rules, j).provider # 0
    <3>1. Row(r.providers, Row(r.rules, j).provider) \in r.providers
      BY <2>3, <2>5 DEF Row
    <3>2. p[2] = Row(r.providers, Row(r.rules, j).provider).name
      BY <2>2, <2>3, <2>5
    <3> QED BY <3>1, <3>2 DEF Offered
  <2> QED BY <2>4, <2>5
<1> QED BY <1>4, <1>5

(* Whatever admins saved or deleted between the queries of ProxyGroups,    *)
(* Rules and the rest, the profile the renderer makes of them names no     *)
(* group and no provider it does not define, and leaves no group empty:    *)
(* buildGroups and buildRules drop what does not resolve.                  *)
THEOREM Loads == SubSpec => []SelfContained
<1>1. SubInv => SelfContained
  <2> SUFFICES ASSUME SubInv, NEW s \in Client PROVE
                 LET r == sub[s]
                     out == Rendered(r)
                     defined(ref) ==
                         /\ ref.kind = "group" => \E g \in out.groups : g[2] = ref.to
                         /\ ref.kind = "inbound" => ref.to \in r.has
                 IN  /\ \A x \in out.rules :
                          /\ defined(x[2].target)
                          /\ \A p \in x[2].providers : p[2] \in out.providers \cup {""}
                     /\ \A g \in out.groups :
                          /\ g[3] # <<>>
                          /\ \A j \in DOMAIN g[3] : defined(g[3][j])
    BY DEF SelfContained, Served
  <2> DEFINE r == sub[s]
             out == Rendered(r)
             defined(ref) ==
                 /\ ref.kind = "group" => \E g \in out.groups : g[2] = ref.to
                 /\ ref.kind = "inbound" => ref.to \in r.has
  <2>1. r \in SubRequest /\ Listable(r.members)
    BY DEF SubInv
  <2>2. /\ out.groups = {<<g.pos, g.name, Listed(r, g)>> : g \in r.groups}
        /\ out.providers = Offered(r)
    BY DEF Rendered
  <2>3. ASSUME NEW ref, Defined(r, ref) PROVE defined(ref)
    <3>1. ASSUME NEW g \in r.groups PROVE \E x \in out.groups : x[2] = g.name
      <4> DEFINE x == <<g.pos, g.name, Listed(r, g)>>
      <4>1. x \in out.groups /\ x[2] = g.name
        BY <2>2
      <4> QED BY <4>1
    <3> QED BY <2>3, <3>1 DEF Defined
  <2>4. ASSUME NEW x \in out.rules
        PROVE  /\ defined(x[2].target)
               /\ \A p \in x[2].providers : p[2] \in out.providers \cup {""}
    BY <2>1, <2>2, <2>3, <2>4, RulesDefined
  <2>5. ASSUME NEW g \in out.groups
        PROVE  g[3] # <<>> /\ \A j \in DOMAIN g[3] : defined(g[3][j])
    <3>1. PICK h \in r.groups : g = <<h.pos, h.name, Listed(r, h)>>
      BY <2>2
    <3>2. g[3] = Listed(r, h)
      BY <3>1
    <3> QED BY <2>1, <2>3, <3>2, ListedDefined
  <2> HIDE DEF out, defined
  <2> QED BY <2>4, <2>5 DEF out, defined
<1> QED BY <1>1, SubHolds, PTL


-----------------------------------------------------------------------------
(* What the rows of a valid draft are rendered as: each reference comes back *)
(* as the policy the draft names, a group's members in their order.          *)

LEMMA EveryNth ==
    ASSUME NEW S \in SUBSET Nat, IsFiniteSet(S), NEW j \in 1 .. Cardinality(S)
    PROVE  \E x \in S : Place(S, x) = j
<1> DEFINE N == Cardinality(S)
           f == [x \in S |-> Place(S, x)]
<1>1. N \in Nat /\ IsFiniteSet(1 .. N) /\ Cardinality(1 .. N) = N
  <2>1. N \in Nat
    BY FS_CardinalityType
  <2> HIDE DEF N
  <2> QED BY <2>1, FS_Interval
<1>2. f \in [S -> 1 .. N]
  <2>1. ASSUME NEW x \in S PROVE Place(S, x) \in 1 .. N
    BY <1>1, PlaceRange
  <2> QED BY <2>1
<1>3. \A x, y \in S : f[x] = f[y] => x = y
  BY PlaceApart
<1> HIDE DEF f, N
<1>4. f \in Injection(S, 1 .. N)
  BY <1>2, <1>3 DEF Injection, IsInjective
<1>5. f \in Surjection(S, 1 .. N)
  BY <1>1, <1>4, FS_Injection DEF N
<1>6. PICK x \in S : f[x] = j
  BY <1>5 DEF Surjection, N
<1> QED BY <1>6 DEF f

(* A policy that may be listed for an account with proxies for inbounds S,  *)
(* and the policy of draft d with the group's name for its place.           *)
Usable(ref, S) == ref.kind = "inbound" => ref.to \in S
Spoken(d, ref) == IF ref.kind = "group" THEN Ref("group", d.groups[ref.to].name) ELSE ref
Policy(ref) == ref.kind \in {"direct", "inbound", "group"}

LEMMA SpokenUsable ==
    ASSUME NEW d, NEW ref, NEW S
    PROVE  Usable(Spoken(d, ref), S) <=> Usable(ref, S)
BY DEF Usable, Spoken, Ref

(* Request r takes a row's reference for what the draft's says. *)
ReadBack(d, gid, r, ref) ==
    /\ Resolves(r, Located(ref, gid)) <=> Usable(ref, r.has)
    /\ NameIn(r, Located(ref, gid)) = Spoken(d, ref)

LEMMA ResolvesTold ==
    ASSUME NEW d \in ValidDrafts, NEW c, NEW gid, NEW pid, NEW rid, NEW r,
           Spells(d, c, gid, pid, rid, r.groups, r.members, r.providers, r.rules, r.setting),
           NEW ref, Policy(ref), validateRef(ref, Len(d.groups))
    PROVE  ReadBack(d, gid, r, ref)
<1> USE DEF ReadBack
<1>1. CASE ref.kind = "group"
  <2>1. ref.to \in DOMAIN d.groups
    BY <1>1, DraftTypes DEF validateRef
  <2>2. GroupRow(d, c, gid, ref.to) \in r.groups
    BY <2>1, GroupsTold
  <2>3. GroupRow(d, c, gid, ref.to).id = gid[ref.to]
    BY DEF GroupRow
  <2>4. Located(ref, gid).kind = "group" /\ Located(ref, gid).to = gid[ref.to]
    BY <1>1 DEF Located, Ref
  <2>5. \E g \in r.groups : g.id = Located(ref, gid).to
    BY <2>2, <2>3, <2>4
  <2>6. Resolves(r, Located(ref, gid)) /\ Usable(ref, r.has)
    BY <1>1, <2>4, <2>5 DEF Resolves, Usable
  <2>7. NameIn(r, Located(ref, gid)) = Named(r.groups, Located(ref, gid))
    BY <2>4, <2>5 DEF NameIn, Named
  <2>8. Named(r.groups, Located(ref, gid)) = Spoken(d, ref)
    BY NamedBack DEF Spoken
  <2> QED BY <2>6, <2>7, <2>8
<1>2. CASE ref.kind = "inbound"
  BY <1>2 DEF Located, Resolves, Usable, NameIn, Spoken
<1>3. CASE ref.kind = "direct"
  BY <1>3 DEF Located, Resolves, Usable, NameIn, Spoken
<1> QED BY <1>1, <1>2, <1>3 DEF Policy

(* The places of group k's members that are listed, and the list.           *)
Kept(d, k, S) == {j \in DOMAIN d.groups[k].members : Usable(d.groups[k].members[j], S)}
Line(d, k, S) ==
    IF Kept(d, k, S) = {} THEN <<Direct>>
    ELSE [i \in 1 .. Cardinality(Kept(d, k, S)) |->
            Spoken(d, d.groups[k].members[Nth(Kept(d, k, S), i)])]

LEMMA ListedTold ==
    ASSUME NEW d \in ValidDrafts, NEW c, NEW gid, NEW pid, NEW rid, NEW r,
           Spells(d, c, gid, pid, rid, r.groups, r.members, r.providers, r.rules, r.setting),
           NEW k \in DOMAIN d.groups
    PROVE  Listed(r, GroupRow(d, c, gid, k)) = Line(d, k, r.has)
<1> DEFINE g == GroupRow(d, c, gid, k)
           J == Kept(d, k, r.has)
           S == Shown(r, g)
           row(j) == MemberRow(d, gid, k, j)
           member(j) == d.groups[k].members[j]
<1>0. g.id = gid[k]
  BY DEF GroupRow
<1>1. /\ DOMAIN d.groups[k].members = 1 .. Len(d.groups[k].members)
      /\ Len(d.groups[k].members) \in Nat
      /\ \A j \in DOMAIN d.groups[k].members :
           /\ Policy(member(j)) /\ validateRef(member(j), Len(d.groups))
           /\ Resolves(r, Located(member(j), gid)) <=> Usable(member(j), r.has)
           /\ NameIn(r, Located(member(j), gid)) = Spoken(d, member(j))
  <2>1. \A j \in DOMAIN d.groups[k].members :
          Policy(member(j)) /\ validateRef(member(j), Len(d.groups))
    BY DraftTypes, DraftPolicies DEF Policy
  <2>2. ASSUME NEW j \in DOMAIN d.groups[k].members
        PROVE  /\ Resolves(r, Located(member(j), gid)) <=> Usable(member(j), r.has)
               /\ NameIn(r, Located(member(j), gid)) = Spoken(d, member(j))
    <3>1. ReadBack(d, gid, r, member(j))
      BY <2>1, ResolvesTold
    <3> QED BY <3>1 DEF ReadBack
  <2>3. /\ DOMAIN d.groups[k].members = 1 .. Len(d.groups[k].members)
        /\ Len(d.groups[k].members) \in Nat
    BY DraftTypes
  <2> QED BY <2>1, <2>2, <2>3
<1>2. \A j : row(j).group = gid[k] /\ row(j).pos = j /\ row(j).ref = Located(member(j), gid)
  BY DEF MemberRow
<1>3. \A j \in DOMAIN d.groups[k].members : MemberAt(r.members, gid[k], j, row(j))
  BY MembersTold
<1> HIDE DEF g, row
<1>4. \A m : m \in S <=> \E j \in J : m = row(j)
  <2>1. ASSUME NEW m \in S PROVE \E j \in J : m = row(j)
    <3>1. m \in r.members /\ m.group = gid[k] /\ Resolves(r, m.ref)
      BY <1>0 DEF Shown
    <3>2. PICK l \in DOMAIN d.groups : \E j \in DOMAIN d.groups[l].members :
             m = MemberRow(d, gid, l, j)
      BY <3>1 DEF Spells
    <3>3. PICK j \in DOMAIN d.groups[l].members : m = MemberRow(d, gid, l, j)
      BY <3>2
    <3>4. m.group = gid[l]
      BY <3>3 DEF MemberRow
    <3>5. l = k
      <4>1. \A i \in DOMAIN d.groups : gid[i] = gid[k] => i = k
        BY GroupsTold
      <4> QED BY <3>1, <3>4, <4>1
    <3>6. m = row(j)
      BY <3>3, <3>5 DEF row
    <3>7. Usable(member(j), r.has)
      BY <1>1, <1>2, <3>1, <3>5, <3>6
    <3> QED BY <3>3, <3>5, <3>6, <3>7 DEF Kept
  <2>2. ASSUME NEW j \in J PROVE row(j) \in S
    <3>1. j \in DOMAIN d.groups[k].members /\ Usable(member(j), r.has)
      BY DEF Kept
    <3>2. row(j) \in r.members
      BY <1>3, <3>1 DEF MemberAt
    <3>3. row(j).group = g.id /\ Resolves(r, row(j).ref)
      BY <1>0, <1>1, <1>2, <3>1
    <3> QED BY <3>2, <3>3 DEF Shown
  <2> QED BY <2>1, <2>2
<1>5. J \in SUBSET Nat /\ IsFiniteSet(J) /\ \A j \in J : j \in DOMAIN d.groups[k].members
  <2>1. J \in SUBSET (1 .. Len(d.groups[k].members))
    BY <1>1 DEF Kept
  <2>2. IsFiniteSet(1 .. Len(d.groups[k].members))
    BY <1>1, FS_Interval
  <2>3. \A i \in 1 .. Len(d.groups[k].members) : i \in Nat
    BY <1>1
  <2> HIDE DEF J
  <2> QED BY <1>1, <2>1, <2>2, <2>3, FS_Subset
<1> HIDE DEF J, S
<1>6. {x.pos : x \in S} = J
  BY <1>2, <1>4
<1>7. CASE J = {}
  <2>1. S = {}
    BY <1>4, <1>7
  <2> QED BY <1>7, <2>1 DEF Listed, Line, S, J, g
<1>8. CASE J # {}
  <2> DEFINE at(i) == CHOOSE m \in S : Place({x.pos : x \in S}, m.pos) = i
             N == Cardinality(J)
  <2>1. S # {}
    BY <1>4, <1>8
  <2>2. IsFiniteSet(S) /\ Cardinality(S) = N
    <3> DEFINE h == [j \in J |-> row(j)]
    <3>1. h \in Bijection(J, S)
      <4>1. \A i, j \in J : h[i] = h[j] => i = j
        BY <1>2
      <4>2. h \in [J -> S] /\ \A m \in S : \E j \in J : h[j] = m
        BY <1>4
      <4> HIDE DEF h
      <4> QED BY <4>1, <4>2 DEF Bijection, Injection, Surjection, IsInjective
    <3> HIDE DEF h
    <3> QED BY <1>5, <3>1, FS_Bijection DEF ExistsBijection
  <2>3. Listed(r, g) = [i \in 1 .. N |-> NameIn(r, at(i).ref)]
    <3>1. Listed(r, g) = [i \in 1 .. Cardinality(S) |-> NameIn(r, at(i).ref)]
      BY <2>1 DEF Listed, S
    <3> HIDE DEF at
    <3> QED BY <2>2, <3>1
  <2>4. ASSUME NEW i \in 1 .. N
        PROVE  NameIn(r, at(i).ref) = Spoken(d, member(Nth(J, i)))
    <3>1. \A m \in S : m.pos \in J
      BY <1>2, <1>4
    <3>2. \E m \in S : Place(J, m.pos) = i
      <4>1. /\ \A m \in S : m.pos \in Nat
            /\ \A m, n \in S : m.pos = n.pos => m = n
        BY <1>2, <1>4, <1>5
      <4>2. i \in 1 .. Cardinality(S)
        BY <2>2
      <4> QED BY <1>6, <2>2, <4>1, <4>2, EveryPlace
    <3>3. at(i) \in S /\ Place(J, at(i).pos) = i
      BY <1>6, <3>2
    <3> HIDE DEF at
    <3>4. Nth(J, i) \in J /\ Place(J, Nth(J, i)) = i
      BY <3>1, <3>3 DEF Nth
    <3>5. at(i).pos = Nth(J, i)
      BY <1>5, <3>1, <3>3, <3>4, PlaceApart
    <3>6. at(i) = row(Nth(J, i))
      BY <1>2, <1>4, <3>3, <3>5
    <3> HIDE DEF member
    <3>7. at(i).ref = Located(member(Nth(J, i)), gid)
      BY <1>2, <3>6
    <3> QED BY <1>1, <1>5, <3>4, <3>7
  <2> HIDE DEF at
  <2>5. Listed(r, g) = [i \in 1 .. N |-> Spoken(d, member(Nth(J, i)))]
    BY <2>3, <2>4
  <2> QED BY <1>8, <2>5 DEF Line, J, g
<1> QED BY <1>7, <1>8

-----------------------------------------------------------------------------
(* The rules: the tree of ids is the tree of paths again.                   *)

(* The rules under a top-level rule, the providers they name, the entry of  *)
(* the profile for it, and the top-level rules that have one.               *)
Under(d, q) == {p \in DOMAIN d.rules : p[1] = q[1]}
ProviderAt(d, p) ==
    IF d.rules[p].provider = 0 THEN "" ELSE d.providers[d.rules[p].provider]
Entry(d, q) ==
    <<q[1], [target |-> Spoken(d, d.rules[q].target),
             providers |-> {<<p, ProviderAt(d, p)>> : p \in Under(d, q)}]>>
Tops(d, S) ==
    {q \in DOMAIN d.rules : Len(q) = 1 /\ Usable(d.rules[q].target, S)}

LEMMA SubtreeTold ==
    ASSUME NEW d \in ValidDrafts, NEW c, NEW gid, NEW pid, NEW rid,
           NEW G, NEW M, NEW P, NEW R, NEW V, Spells(d, c, gid, pid, rid, G, M, P, R, V),
           NEW q \in DOMAIN d.rules, Len(q) = 1
    PROVE  /\ PathOf(R)[rid[q]] = q
           /\ \A j : j \in Below(PathOf(R), q) <=> \E p \in Under(d, q) : j = rid[p]
<1> DEFINE path == PathOf(R)
<1>1. /\ \A i : i \in DOMAIN path <=> \E p \in DOMAIN d.rules : i = rid[p]
      /\ \A p \in DOMAIN d.rules : path[rid[p]] = p
  BY PathsTold
<1> HIDE DEF path
<1>2. ASSUME NEW p \in DOMAIN d.rules
      PROVE  /\ rid[p] \in DOMAIN path
             /\ SubSeq(path[rid[p]], 1, Len(q)) = q <=> p[1] = q[1]
  <2>1. rid[p] \in DOMAIN path
    BY <1>1
  <2>2. p \in Seq(Nat) /\ Len(p) \in Nat \ {0} /\ q \in Seq(Nat)
    BY DraftTypes
  <2>3. SubSeq(p, 1, 1) \in Seq(Nat) /\ Len(SubSeq(p, 1, 1)) = 1 /\ SubSeq(p, 1, 1)[1] = p[1]
    BY <2>2
  <2>4. SubSeq(p, 1, 1) = q <=> p[1] = q[1]
    <3>1. p[1] = q[1] => \A i \in 1 .. 1 : SubSeq(p, 1, 1)[i] = q[i]
      BY <2>3
    <3> QED BY <2>2, <2>3, <3>1, SeqEqual
  <2> QED BY <1>1, <2>1, <2>4
<1>4. ASSUME NEW j PROVE j \in Below(path, q) <=> \E p \in Under(d, q) : j = rid[p]
  BY <1>1, <1>2 DEF Below, Under
<1> QED BY <1>1, <1>4 DEF path

LEMMA RulesRendered ==
    ASSUME NEW d \in ValidDrafts, NEW c, NEW gid, NEW pid, NEW rid, NEW r,
           Spells(d, c, gid, pid, rid, r.groups, r.members, r.providers, r.rules, r.setting)
    PROVE  Rendered(r).rules = {Entry(d, q) : q \in Tops(d, r.has)}
<1> DEFINE path == PathOf(r.rules)
           providerName(x) ==
               IF x.provider = 0 THEN ""
               ELSE IF \E p \in r.providers : p.id = x.provider
               THEN Row(r.providers, x.provider).name ELSE Unresolved
           of(x) == {<<path[j], providerName(Row(r.rules, j))>> : j \in Below(path, path[x.id])}
           line(x) == [target |-> NameIn(r, x.target), providers |-> of(x)]
           row(q) == RuleRow(d, c, gid, pid, rid, q)
<1>1. Rendered(r).rules = {<<x.pos, line(x)>> : x \in Lines(r)}
  BY DEF Rendered
<1>2. \A x : x \in r.rules <=> \E q \in DOMAIN d.rules : x = row(q)
  BY DEF Spells
<1>3. ASSUME NEW q \in DOMAIN d.rules
      PROVE  /\ Row(r.rules, rid[q]) = row(q)
             /\ providerName(row(q)) = ProviderAt(d, q)
             /\ row(q).provider = 0 \/ \E p \in r.providers : p.id = row(q).provider
  <2>1. d.rules[q].provider \in 0 .. Len(d.providers)
        /\ DOMAIN d.providers = 1 .. Len(d.providers) /\ Len(d.providers) \in Nat
    BY DraftTypes
  <2>2. row(q).provider = IF d.rules[q].provider = 0 THEN 0 ELSE pid[d.rules[q].provider]
    BY DEF RuleRow
  <2> HIDE DEF row
  <2>3. CASE d.rules[q].provider = 0
    <3>1. row(q).provider = 0
      BY <2>2, <2>3
    <3> QED BY <2>3, <3>1, RulesTold DEF ProviderAt, row
  <2>4. CASE d.rules[q].provider # 0
    <3>1. PICK k \in DOMAIN d.providers : k = d.rules[q].provider
      BY <2>1, <2>4
    <3>2. pid[k] \in Nat \ {0} /\ Row(r.providers, pid[k]).name = d.providers[k]
      BY ProvidersTold
    <3>3. \E p \in r.providers : p.id = pid[k]
      <4>1. ProviderRow(d, c, pid, k) \in r.providers
        BY DEF Spells
      <4>2. ProviderRow(d, c, pid, k).id = pid[k]
        BY DEF ProviderRow
      <4> QED BY <4>1, <4>2
    <3>4. row(q).provider = pid[k]
      BY <2>2, <2>4, <3>1
    <3>5. providerName(row(q)) = d.providers[k]
      BY <3>2, <3>3, <3>4
    <3>6. ProviderAt(d, q) = d.providers[k]
      BY <2>4, <3>1 DEF ProviderAt
    <3>7. Row(r.rules, rid[q]) = row(q)
      BY RulesTold DEF row
    <3> HIDE DEF providerName
    <3> QED BY <3>3, <3>4, <3>5, <3>6, <3>7
  <2> QED BY <2>3, <2>4
<1>4. ASSUME NEW q \in DOMAIN d.rules
      PROVE  /\ row(q).id = rid[q] /\ (row(q).parent = 0 <=> Len(q) = 1)
             /\ row(q).target = Located(d.rules[q].target, gid)
             /\ Len(q) = 1 => row(q).pos = q[1]
  <2>1. /\ row(q).id = rid[q] /\ row(q).target = Located(d.rules[q].target, gid)
        /\ row(q).pos = q[Len(q)]
        /\ row(q).parent = IF Len(q) = 1 THEN 0 ELSE rid[Prefix(q)]
    BY DEF RuleRow
  <2> HIDE DEF row
  <2>2. Len(q) # 1 => rid[Prefix(q)] # 0
    <3>1. Len(q) \in Nat \ {0} /\ (Len(q) > 1 => Prefix(q) \in DOMAIN d.rules)
      BY DraftTypes
    <3>2. \A n \in Nat \ {0} : n # 1 => n > 1
      OBVIOUS
    <3>3. \A p \in DOMAIN d.rules : rid[p] # 0
      BY RulesTold
    <3> QED BY <3>1, <3>2, <3>3
  <2> QED BY <2>1, <2>2
<1>5. ASSUME NEW q \in DOMAIN d.rules, Len(q) = 1
      PROVE  /\ row(q) \in Lines(r) <=> q \in Tops(d, r.has)
             /\ <<row(q).pos, line(row(q))>> = Entry(d, q)
  <2>1. path[row(q).id] = q /\ \A j : j \in Below(path, q) <=> \E p \in Under(d, q) : j = rid[p]
    BY <1>4, <1>5, SubtreeTold
  <2>2. \A p \in Under(d, q) : p \in DOMAIN d.rules
    BY DEF Under
  <2>3. ReadBack(d, gid, r, d.rules[q].target)
    <3>1. Policy(d.rules[q].target) /\ validateRef(d.rules[q].target, Len(d.groups))
      BY <1>5, DraftTypes, DraftPolicies DEF Policy
    <3> QED BY <3>1, ResolvesTold
  <2>4. NameIn(r, row(q).target) = Spoken(d, d.rules[q].target)
        /\ (Resolves(r, row(q).target) <=> Usable(d.rules[q].target, r.has))
    BY <1>4, <2>3 DEF ReadBack
  <2>5. MatcherRenders(r, path, row(q).id)
    <3>1. ASSUME NEW j \in Below(path, path[row(q).id])
          PROVE  \/ Row(r.rules, j).provider = 0
                 \/ \E p \in r.providers : p.id = Row(r.rules, j).provider
      <4> HIDE DEF path, row
      <4>1. PICK p \in Under(d, q) : j = rid[p]
        BY <2>1
      <4> QED BY <1>3, <2>2, <4>1
    <3> HIDE DEF path, row
    <3> QED BY <3>1 DEF MatcherRenders
  <2>6. row(q) \in Lines(r) <=> q \in Tops(d, r.has)
    <3>1. row(q) \in r.rules /\ row(q).parent = 0
      BY <1>2, <1>4, <1>5
    <3> HIDE DEF row
    <3> QED BY <1>5, <2>4, <2>5, <3>1 DEF Lines, Tops, path
  <2>7. of(row(q)) = {<<p, ProviderAt(d, p)>> : p \in Under(d, q)}
    <3>1. \A p \in Under(d, q) : path[rid[p]] = p
      <4>1. \A p \in DOMAIN d.rules : PathOf(r.rules)[rid[p]] = p
        BY PathsTold
      <4> QED BY <2>2, <4>1
    <3> HIDE DEF path, row, providerName
    <3>2. of(row(q)) = {<<path[j], providerName(Row(r.rules, j))>> : j \in Below(path, q)}
      BY <2>1
    <3> HIDE DEF of
    <3>3. \A p \in Under(d, q) : providerName(Row(r.rules, rid[p])) = ProviderAt(d, p)
      BY <1>3, <2>2
    <3> QED BY <2>1, <3>1, <3>2, <3>3
  <2>8. line(row(q)) = [target |-> Spoken(d, d.rules[q].target),
                        providers |-> {<<p, ProviderAt(d, p)>> : p \in Under(d, q)}]
    <3> HIDE DEF of, row
    <3> QED BY <2>4, <2>7
  <2>9. row(q).pos = q[1]
    BY <1>4, <1>5
  <2> HIDE DEF line, row
  <2> QED BY <2>6, <2>8, <2>9 DEF Entry
<1>6. \A x : x \in Lines(r) <=> \E q \in Tops(d, r.has) : x = row(q)
  <2>1. ASSUME NEW x \in Lines(r) PROVE \E q \in Tops(d, r.has) : x = row(q)
    <3>1. x \in r.rules /\ x.parent = 0
      BY DEF Lines
    <3>2. PICK q \in DOMAIN d.rules : x = row(q)
      BY <1>2, <3>1
    <3> HIDE DEF row
    <3>3. Len(q) = 1
      <4>1. row(q).parent = 0 <=> Len(q) = 1
        BY <1>4
      <4> QED BY <3>1, <3>2, <4>1
    <3> QED BY <1>5, <3>2, <3>3
  <2>2. ASSUME NEW q \in Tops(d, r.has) PROVE row(q) \in Lines(r)
    BY <1>5, <2>2 DEF Tops
  <2> QED BY <2>1, <2>2
<1>7. \A q \in Tops(d, r.has) : <<row(q).pos, line(row(q))>> = Entry(d, q)
  BY <1>5 DEF Tops
<1> HIDE DEF line, row
<1> QED BY <1>1, <1>6, <1>7

-----------------------------------------------------------------------------
(* The whole profile, from the rows and from the content.                   *)

(* The policies of a group by name, and those that are left of it. *)
Policies(d, k) ==
    [j \in DOMAIN d.groups[k].members |-> Spoken(d, d.groups[k].members[j])]
Usables(ms, S) == {j \in DOMAIN ms : Usable(ms[j], S)}
Filtered(ms, S) ==
    [i \in 1 .. Cardinality(Usables(ms, S)) |-> ms[Nth(Usables(ms, S), i)]]

LEMMA KeptTold ==
    ASSUME NEW d \in ValidDrafts, NEW S, NEW k \in DOMAIN d.groups
    PROVE  (IF Filtered(Policies(d, k), S) = <<>> THEN <<Direct>>
            ELSE Filtered(Policies(d, k), S)) = Line(d, k, S)
<1> DEFINE member(j) == d.groups[k].members[j]
           J == Kept(d, k, S)
           N == Cardinality(J)
           kept == Filtered(Policies(d, k), S)
<1>1. J = Usables(Policies(d, k), S)
  BY SpokenUsable DEF Kept, Usables, Policies
<1>2. IsFiniteSet(J) /\ J \in SUBSET Nat /\ J \in SUBSET DOMAIN d.groups[k].members
  <2>1. Len(d.groups[k].members) \in Nat
        /\ DOMAIN d.groups[k].members = 1 .. Len(d.groups[k].members)
    BY DraftTypes
  <2>2. J \in SUBSET (1 .. Len(d.groups[k].members))
    BY <2>1 DEF Kept
  <2>3. /\ IsFiniteSet(1 .. Len(d.groups[k].members))
        /\ 1 .. Len(d.groups[k].members) \in SUBSET Nat
    BY <2>1, FS_Interval
  <2> HIDE DEF J
  <2> QED BY <2>1, <2>2, <2>3, FS_Subset
<1>3. kept = [i \in 1 .. N |-> Policies(d, k)[Nth(J, i)]]
  BY <1>1 DEF Filtered
<1> HIDE DEF J
<1>4. N \in Nat /\ (N = 0 <=> J = {})
  BY <1>2, FS_CardinalityType, FS_EmptySet
<1>5. ASSUME NEW i \in 1 .. N PROVE Policies(d, k)[Nth(J, i)] = Spoken(d, member(Nth(J, i)))
  <2>1. \E j \in J : Place(J, j) = i
    BY <1>2, EveryNth
  <2>2. Nth(J, i) \in J
    BY <2>1 DEF Nth
  <2> QED BY <1>2, <2>2 DEF Policies
<1> HIDE DEF kept, N, member
<1>6. kept = [i \in 1 .. N |-> Spoken(d, member(Nth(J, i)))]
  BY <1>3, <1>5
<1>7. kept = <<>> <=> J = {}
  <2>1. DOMAIN kept = 1 .. N
    BY <1>6
  <2>2. CASE J = {}
    <3>1. N = 0
      BY <1>4, <2>2
    <3>2. 1 .. N = {}
      BY <3>1
    <3>3. kept = <<>>
      BY <1>6, <3>2
    <3> QED BY <2>2, <3>3
  <2>3. CASE J # {}
    <3>1. 1 \in DOMAIN kept
      BY <1>4, <2>1, <2>3
    <3>2. DOMAIN <<>> = {}
      OBVIOUS
    <3> QED BY <2>3, <3>1, <3>2
  <2> QED BY <2>2, <2>3
<1> QED BY <1>6, <1>7 DEF Line, J, N, kept, member

(* The profile of a draft, in the draft's own terms.                        *)
Shelf(d, S) ==
    [groups |-> {<<k, d.groups[k].name, Line(d, k, S)>> : k \in DOMAIN d.groups},
     rules |-> {Entry(d, q) : q \in Tops(d, S)},
     providers |-> {d.providers[k] : k \in DOMAIN d.providers},
     base |-> {d.value}, headers |-> {d.value}]

LEMMA MeantFields ==
    ASSUME NEW d
    PROVE  /\ DOMAIN Meant(d).groups = DOMAIN d.groups
           /\ \A k \in DOMAIN d.groups : /\ Meant(d).groups[k].name = d.groups[k].name
                                         /\ Meant(d).groups[k].members = Policies(d, k)
           /\ DOMAIN Meant(d).rules = DOMAIN d.rules
           /\ \A q \in DOMAIN d.rules :
                /\ Meant(d).rules[q].target = Spoken(d, d.rules[q].target)
                /\ Meant(d).rules[q].provider = ProviderAt(d, q)
           /\ Meant(d).providers = {d.providers[k] : k \in DOMAIN d.providers}
           /\ Meant(d).value = {d.value}
<1> DEFINE group(k) == [name |-> d.groups[k].name, members |-> Policies(d, k)]
           rule(q) == [provider |-> ProviderAt(d, q), target |-> Spoken(d, d.rules[q].target)]
           gs == [k \in DOMAIN d.groups |-> group(k)]
           rs == [q \in DOMAIN d.rules |-> rule(q)]
<1>1. Meant(d) = [groups |-> gs, providers |-> {d.providers[k] : k \in DOMAIN d.providers},
                  rules |-> rs, value |-> {d.value}]
  BY DEF Meant, Spoken, ProviderAt, Policies
<1>2. /\ \A k : group(k).name = d.groups[k].name /\ group(k).members = Policies(d, k)
      /\ \A q : rule(q).provider = ProviderAt(d, q)
                /\ rule(q).target = Spoken(d, d.rules[q].target)
  OBVIOUS
<1> HIDE DEF group, rule
<1>3. /\ DOMAIN gs = DOMAIN d.groups /\ \A k \in DOMAIN d.groups : gs[k] = group(k)
      /\ DOMAIN rs = DOMAIN d.rules /\ \A q \in DOMAIN d.rules : rs[q] = rule(q)
  OBVIOUS
<1> HIDE DEF gs, rs
<1>4. /\ Meant(d).groups = gs /\ Meant(d).rules = rs
      /\ Meant(d).providers = {d.providers[k] : k \in DOMAIN d.providers}
      /\ Meant(d).value = {d.value}
  BY <1>1
<1> QED BY <1>2, <1>3, <1>4

LEMMA ExpectedTold ==
    ASSUME NEW d \in ValidDrafts, NEW S
    PROVE  Expected(Meant(d), S) = Shelf(d, S)
<1>0. PICK c : c = Meant(d)
  OBVIOUS
<1> DEFINE usable(ref) == ref.kind = "inbound" => ref.to \in S
           kept(g) == LET J == {j \in DOMAIN g.members : usable(g.members[j])}
                      IN  [i \in 1 .. Cardinality(J) |-> g.members[Nth(J, i)]]
           tops == {q \in DOMAIN c.rules : Len(q) = 1 /\ usable(c.rules[q].target)}
           under(q) == {p \in DOMAIN c.rules : p[1] = q[1]}
           shown(k) == IF kept(c.groups[k]) = <<>> THEN <<Direct>> ELSE kept(c.groups[k])
           entry(q) == <<q[1], [target |-> c.rules[q].target,
                                providers |-> {<<p, c.rules[p].provider>> : p \in under(q)}]>>
<1>1. Expected(c, S) =
        [groups |-> {<<k, c.groups[k].name, shown(k)>> : k \in DOMAIN c.groups},
         rules |-> {entry(q) : q \in tops},
         providers |-> c.providers, base |-> c.value, headers |-> c.value]
  BY DEF Expected
<1>2. \A g : kept(g) = Filtered(g.members, S)
  BY DEF Filtered, Usables, Usable
<1>3. \A q : entry(q) = <<q[1], [target |-> c.rules[q].target,
                                 providers |-> {<<p, c.rules[p].provider>> : p \in under(q)}]>>
  OBVIOUS
<1> HIDE DEF kept, entry
<1>4. ASSUME NEW k \in DOMAIN d.groups
      PROVE  c.groups[k].name = d.groups[k].name /\ shown(k) = Line(d, k, S)
  <2>1. c.groups[k].name = d.groups[k].name /\ c.groups[k].members = Policies(d, k)
    BY <1>0, MeantFields
  <2> QED BY <1>2, <2>1, KeptTold
<1>5. /\ DOMAIN c.groups = DOMAIN d.groups
      /\ c.providers = {d.providers[k] : k \in DOMAIN d.providers} /\ c.value = {d.value}
  BY <1>0, MeantFields
<1>6. /\ DOMAIN c.rules = DOMAIN d.rules
      /\ \A q \in DOMAIN d.rules : /\ c.rules[q].target = Spoken(d, d.rules[q].target)
                                   /\ c.rules[q].provider = ProviderAt(d, q)
  BY <1>0, MeantFields
<1>7. tops = Tops(d, S)
  <2>1. \A q \in DOMAIN d.rules : usable(c.rules[q].target) <=> Usable(d.rules[q].target, S)
    <3>1. \A ref : usable(ref) <=> Usable(ref, S)
      BY DEF Usable
    <3> HIDE DEF usable
    <3> QED BY <1>6, <3>1, SpokenUsable
  <2> HIDE DEF usable
  <2> QED BY <1>6, <2>1 DEF Tops
<1>8. \A q : under(q) = Under(d, q)
  BY <1>6 DEF Under
<1> HIDE DEF tops, under, shown, usable
<1>9. ASSUME NEW q \in tops PROVE entry(q) = Entry(d, q)
  <2>1. q \in DOMAIN d.rules
    BY <1>7 DEF Tops
  <2>2. \A p \in Under(d, q) : c.rules[p].provider = ProviderAt(d, p)
    BY <1>6 DEF Under
  <2>3. {<<p, c.rules[p].provider>> : p \in under(q)} =
          {<<p, ProviderAt(d, p)>> : p \in Under(d, q)}
    BY <1>8, <2>2
  <2> QED BY <1>3, <1>6, <2>1, <2>3 DEF Entry
<1>10. {<<k, c.groups[k].name, shown(k)>> : k \in DOMAIN c.groups} =
         {<<k, d.groups[k].name, Line(d, k, S)>> : k \in DOMAIN d.groups}
  BY <1>4, <1>5
<1>11. {entry(q) : q \in tops} = {Entry(d, q) : q \in Tops(d, S)}
  BY <1>7, <1>9
<1> QED BY <1>0, <1>1, <1>5, <1>10, <1>11 DEF Shelf
LEMMA RenderedTold ==
    ASSUME NEW d \in ValidDrafts, NEW c, NEW gid, NEW pid, NEW rid, NEW r,
           Spells(d, c, gid, pid, rid, r.groups, r.members, r.providers, r.rules, r.setting),
           r.profile = r.setting
    PROVE  Rendered(r) = Expected(Meant(d), r.has)
<1> DEFINE row(k) == GroupRow(d, c, gid, k)
           shown(g) == <<g.pos, g.name, Listed(r, g)>>
           out == Rendered(r)
<1>1. out = [groups |-> {shown(g) : g \in r.groups}, rules |-> out.rules,
             providers |-> Offered(r), base |-> {v.value : v \in r.setting},
             headers |-> {v.value : v \in r.profile}]
  BY DEF Rendered
<1>2. out.rules = {Entry(d, q) : q \in Tops(d, r.has)}
  BY RulesRendered
<1>3. {shown(g) : g \in r.groups} =
        {<<k, d.groups[k].name, Line(d, k, r.has)>> : k \in DOMAIN d.groups}
  <2>1. \A g : g \in r.groups <=> \E k \in DOMAIN d.groups : g = row(k)
    BY DEF Spells
  <2>2. \A k \in DOMAIN d.groups : shown(row(k)) = <<k, d.groups[k].name, Line(d, k, r.has)>>
    <3>1. \A k \in DOMAIN d.groups : Listed(r, row(k)) = Line(d, k, r.has)
      BY ListedTold
    <3>2. \A k : row(k).pos = k /\ row(k).name = d.groups[k].name
      BY DEF GroupRow
    <3> HIDE DEF row
    <3> QED BY <3>1, <3>2
  <2> HIDE DEF row, shown
  <2> QED BY <2>1, <2>2
<1>4. Offered(r) = {d.providers[k] : k \in DOMAIN d.providers}
  BY ProvidersTold DEF Offered
<1>5. {v.value : v \in r.setting} = {d.value} /\ {v.value : v \in r.profile} = {d.value}
  BY DEF Spells
<1> HIDE DEF out, shown
<1>6. out = Shelf(d, r.has)
  BY <1>1, <1>2, <1>3, <1>4, <1>5 DEF Shelf
<1> QED BY <1>6, ExpectedTold DEF out

LEMMA RenderedBlank ==
    ASSUME NEW r, r.groups = {}, r.rules = {}, r.providers = {}, r.setting = {}, r.profile = {}
    PROVE  Rendered(r) = Expected(EmptyContent, r.has)
<1> DEFINE nothing == [groups |-> {}, rules |-> {}, providers |-> {}, base |-> {}, headers |-> {}]
<1>1. Rendered(r) = nothing
  <2> DEFINE out == Rendered(r)
             shown(g) == <<g.pos, g.name, Listed(r, g)>>
             path == PathOf(r.rules)
             providerName(x) ==
                 IF x.provider = 0 THEN ""
                 ELSE IF \E p \in r.providers : p.id = x.provider
                 THEN Row(r.providers, x.provider).name ELSE Unresolved
             line(x) == [target |-> NameIn(r, x.target),
                         providers |-> {<<path[j], providerName(Row(r.rules, j))>>
                                          : j \in Below(path, path[x.id])}]
             entry(x) == <<x.pos, line(x)>>
  <2>1. out = [groups |-> {shown(g) : g \in r.groups}, rules |-> {entry(x) : x \in Lines(r)},
               providers |-> Offered(r), base |-> {v.value : v \in r.setting},
               headers |-> {v.value : v \in r.profile}]
    BY DEF Rendered
  <2>2. Lines(r) = {} /\ Offered(r) = {}
    BY DEF Lines, Offered
  <2> HIDE DEF shown, entry, out
  <2> QED BY <2>1, <2>2 DEF out
<1>2. Expected(EmptyContent, r.has) = nothing
  <2>0. PICK c : c = EmptyContent
    OBVIOUS
  <2> DEFINE S == r.has
             usable(ref) == ref.kind = "inbound" => ref.to \in S
             kept(g) == LET J == {j \in DOMAIN g.members : usable(g.members[j])}
                        IN  [i \in 1 .. Cardinality(J) |-> g.members[Nth(J, i)]]
             tops == {q \in DOMAIN c.rules : Len(q) = 1 /\ usable(c.rules[q].target)}
             under(q) == {p \in DOMAIN c.rules : p[1] = q[1]}
             shown(k) == <<k, c.groups[k].name,
                           IF kept(c.groups[k]) = <<>> THEN <<Direct>> ELSE kept(c.groups[k])>>
             entry(q) == <<q[1], [target |-> c.rules[q].target,
                                  providers |-> {<<p, c.rules[p].provider>> : p \in under(q)}]>>
  <2>1. Expected(c, S) =
          [groups |-> {shown(k) : k \in DOMAIN c.groups}, rules |-> {entry(q) : q \in tops},
           providers |-> c.providers, base |-> c.value, headers |-> c.value]
    BY DEF Expected
  <2>2. /\ DOMAIN c.groups = {} /\ DOMAIN c.rules = {}
        /\ c.providers = {} /\ c.value = {}
    BY <2>0 DEF EmptyContent
  <2>3. tops = {}
    BY <2>2
  <2> HIDE DEF shown, entry, tops
  <2> QED BY <2>0, <2>1, <2>2, <2>3
<1> QED BY <1>1, <1>2

-----------------------------------------------------------------------------
(* A request that no admin's step came between.                             *)

(* The config of a request: its user's, or the base, or none.              *)
Chosen(r) ==
    \/ r.config \in ConfigsOf(r.user)
    \/ ConfigsOf(r.user) = {} /\ r.config \in ConfigsOf(Base)
    \/ ConfigsOf(r.user) = {} /\ ConfigsOf(Base) = {} /\ r.config = 0

(* The stages after a query of the handler.                                *)
HasProfile == {"served"}
HasSetting == HasProfile \cup {"profile"}
HasProviders == HasSetting \cup {"setting"}
HasMembers == HasProviders \cup {"providers"}
HasGroups == HasMembers \cup {"members"}
HasRules == HasGroups \cup {"groups"}
HasConfig == HasRules \cup {"fleet", "rules"}

(* What a request no admin interfered with has read is what is there.      *)
UpToDate(r) ==
    /\ r.pc # "idle" => r.user \in User
    /\ r.pc \in {"token", "custom", "base"} => r.config = 0
    /\ r.pc = "base" => ConfigsOf(r.user) = {}
    /\ r.pc \in HasConfig => Chosen(r)
    /\ r.pc \in HasRules => r.rules = Of(rules, r.config)
    /\ r.pc \in HasGroups => r.groups = Of(groups, r.config)
    /\ r.pc \in HasMembers => r.members = MembersOf(r.config)
    /\ r.pc \in HasProviders => r.providers = Of(providers, r.config)
    /\ r.pc \in HasSetting => r.setting = Of(values, r.config)
    /\ r.pc \in HasProfile => r.profile = Of(values, r.config)

(* What the nine queries of an undisturbed request have in common.          *)
QuietInv == \A s \in Client : sub[s].quiet => UpToDate(sub[s])

LEMMA QuietKept ==
    ASSUME SubInv, QuietInv, UNCHANGED vars,
           NEW s \in Client, NEW r, SetSub(s, r), r.quiet => UpToDate(r)
    PROVE  QuietInv'
<1>1. /\ users' = users /\ anchors' = anchors /\ groups' = groups /\ members' = members
      /\ providers' = providers /\ rules' = rules /\ values' = values
  BY DEF vars, tables
<1>2. ASSUME NEW c \in Client PROVE (sub[c].quiet => UpToDate(sub[c]))'
  <2>1. sub'[c] = r \/ sub'[c] = sub[c]
    BY DEF SubInv, SetSub
  <2>2. sub'[c].quiet => UpToDate(sub'[c])
    BY <2>1 DEF QuietInv
  <2>3. UpToDate(sub'[c]) => UpToDate(sub[c])'
    BY <1>1 DEF UpToDate, Chosen, ConfigsOf, Of, MembersOf
  <2> QED BY <2>2, <2>3
<1> QED BY <1>2 DEF QuietInv

LEMMA ServeQuiet ==
    ASSUME SubInv, QuietInv, NEW s \in Client, Serve(s), UNCHANGED vars
    PROVE  QuietInv'
<1> USE DEF HasProfile, HasSetting, HasProviders, HasMembers, HasGroups, HasRules, HasConfig
<1>0. /\ sub[s] \in SubRequest
      /\ sub[s].quiet => UpToDate(sub[s])
  BY DEF SubInv, QuietInv
<1>n. ASSUME SetSub(s, NoSub) PROVE QuietInv'
  <2>1. UpToDate(NoSub)
    BY DEF UpToDate, NoSub
  <2> QED BY <1>n, <2>1, QuietKept
<1>g. ASSUME NEW pc \in Stage, Go(s, pc),
             sub[s].quiet /\ UpToDate(sub[s]) => UpToDate([sub[s] EXCEPT !.pc = pc])
      PROVE  QuietInv'
  <2> DEFINE r == [sub[s] EXCEPT !.pc = pc]
  <2>1. r.quiet = sub[s].quiet
    BY <1>0 DEF SubRequest
  <2>2. SetSub(s, r)
    BY <1>g DEF Go
  <2> QED BY <1>0, <1>g, <2>1, <2>2, QuietKept
<1>p. ASSUME NEW c, Pick(s, c), sub[s].pc \in {"custom", "base"},
             \/ c \in ConfigsOf(sub[s].user)
             \/ ConfigsOf(sub[s].user) = {} /\ c \in ConfigsOf(Base)
      PROVE  QuietInv'
  <2> DEFINE r == [sub[s] EXCEPT !.pc = "fleet", !.config = c]
  <2>1. /\ r.quiet = sub[s].quiet /\ r.pc = "fleet" /\ r.config = c
        /\ r.user = sub[s].user
    BY <1>0 DEF SubRequest
  <2>2. SetSub(s, r)
    BY <1>p DEF Pick
  <2> HIDE DEF r
  <2>3. r.quiet => UpToDate(r)
    BY <1>0, <1>p, <2>1 DEF UpToDate, Chosen
  <2> QED BY <2>2, <2>3, QuietKept
<1>1. CASE MatchToken(s)
  <2>1. PICK u \in users : SetSub(s, [NoSub EXCEPT !.pc = "token", !.user = u])
    BY <1>1 DEF MatchToken
  <2> DEFINE r == [NoSub EXCEPT !.pc = "token", !.user = u]
  <2>2. r.pc = "token" /\ r.user = u /\ r.config = 0
    BY DEF NoSub
  <2>3. u \in User
    BY ReadsRows DEF SubInv
  <2> HIDE DEF r
  <2>4. UpToDate(r)
    BY <2>2, <2>3 DEF UpToDate
  <2> QED BY <2>1, <2>4, QuietKept DEF r
<1>2. CASE ResolveUser(s)
  <2>1. CASE sub[s].user \in users
    <3> DEFINE r == [sub[s] EXCEPT !.pc = "custom"]
    <3>1. r.pc = "custom" /\ r.user = sub[s].user /\ r.config = sub[s].config
      BY <1>0 DEF SubRequest
    <3> HIDE DEF r
    <3>2. UpToDate(sub[s]) => UpToDate(r)
      BY <1>2, <3>1 DEF UpToDate, ResolveUser
    <3> QED BY <1>2, <2>1, <3>2, <1>g DEF ResolveUser, r, Stage
  <2>2. CASE sub[s].user \notin users
    BY <1>2, <2>2, <1>n DEF ResolveUser
  <2> QED BY <2>1, <2>2
<1>3. CASE CustomConfig(s)
  <2>1. CASE ConfigsOf(sub[s].user) = {}
    <3> DEFINE r == [sub[s] EXCEPT !.pc = "base"]
    <3>1. r.pc = "base" /\ r.user = sub[s].user /\ r.config = sub[s].config
      BY <1>0 DEF SubRequest
    <3> HIDE DEF r
    <3>2. UpToDate(sub[s]) => UpToDate(r)
      BY <1>3, <2>1, <3>1 DEF UpToDate, CustomConfig
    <3> QED BY <1>3, <2>1, <3>2, <1>g DEF CustomConfig, r, Stage
  <2>2. CASE ConfigsOf(sub[s].user) # {}
    BY <1>3, <2>2, <1>p DEF CustomConfig
  <2> QED BY <2>1, <2>2
<1>4. CASE BaseConfig(s)
  <2>1. CASE ConfigsOf(Base) = {}
    <3> DEFINE r == [sub[s] EXCEPT !.pc = "fleet"]
    <3>1. r.pc = "fleet" /\ r.user = sub[s].user /\ r.config = sub[s].config
      BY <1>0 DEF SubRequest
    <3> HIDE DEF r
    <3>2. UpToDate(sub[s]) => UpToDate(r)
      BY <1>4, <2>1, <3>1 DEF UpToDate, BaseConfig, Chosen
    <3> QED BY <1>4, <2>1, <3>2, <1>g DEF BaseConfig, r, Stage
  <2>2. CASE ConfigsOf(Base) # {}
    <3>1. PICK c \in ConfigsOf(Base) : Pick(s, c)
      BY <1>4, <2>2 DEF BaseConfig
    <3>2. CASE sub[s].quiet
      <4>1. ConfigsOf(sub[s].user) = {}
        BY <1>0, <1>4, <3>2 DEF UpToDate, BaseConfig
      <4> QED BY <1>4, <3>1, <4>1, <1>p DEF BaseConfig
    <3>3. CASE ~sub[s].quiet
      <4> DEFINE r == [sub[s] EXCEPT !.pc = "fleet", !.config = c]
      <4>1. r.quiet = sub[s].quiet
        BY <1>0 DEF SubRequest
      <4>2. SetSub(s, r)
        BY <3>1 DEF Pick
      <4> QED BY <3>3, <4>1, <4>2, QuietKept
    <3> QED BY <3>2, <3>3
  <2> QED BY <2>1, <2>2
<1>5. CASE Fleet(s)
  <2>1. ASSUME NEW S \in SUBSET inbounds,
               SetSub(s, [sub[s] EXCEPT !.pc = "rules", !.has = S])
        PROVE  QuietInv'
    <3> DEFINE r == [sub[s] EXCEPT !.pc = "rules", !.has = S]
    <3>1. /\ r.pc = "rules" /\ r.user = sub[s].user /\ r.config = sub[s].config
          /\ r.quiet = sub[s].quiet
      BY <1>0 DEF SubRequest
    <3> HIDE DEF r
    <3>2. UpToDate(sub[s]) => UpToDate(r)
      BY <1>5, <3>1 DEF UpToDate, Fleet, Chosen
    <3> QED BY <1>0, <2>1, <3>1, <3>2, QuietKept DEF r
  <2> QED BY <1>5, <2>1, <1>n DEF Fleet
<1>6. CASE ReadRules(s)
  <2> DEFINE r == [sub[s] EXCEPT !.pc = "groups", !.rules = Of(rules, sub[s].config)]
  <2>1. /\ r.pc = "groups" /\ r.user = sub[s].user /\ r.config = sub[s].config
        /\ r.quiet = sub[s].quiet /\ r.rules = Of(rules, sub[s].config)
    BY <1>0 DEF SubRequest
  <2>2. SetSub(s, r)
    BY <1>6 DEF ReadRules
  <2> HIDE DEF r
  <2>3. UpToDate(sub[s]) => UpToDate(r)
    BY <1>6, <2>1 DEF UpToDate, ReadRules, Chosen
  <2> QED BY <1>0, <2>1, <2>2, <2>3, QuietKept
<1>7. CASE ReadGroups(s)
  <2> DEFINE r == [sub[s] EXCEPT !.pc = "members", !.groups = Of(groups, sub[s].config)]
  <2>1. /\ r.pc = "members" /\ r.user = sub[s].user /\ r.config = sub[s].config
        /\ r.quiet = sub[s].quiet /\ r.rules = sub[s].rules
        /\ r.groups = Of(groups, sub[s].config)
    BY <1>0 DEF SubRequest
  <2>2. SetSub(s, r)
    BY <1>7 DEF ReadGroups
  <2> HIDE DEF r
  <2>3. UpToDate(sub[s]) => UpToDate(r)
    BY <1>7, <2>1 DEF UpToDate, ReadGroups, Chosen
  <2> QED BY <1>0, <2>1, <2>2, <2>3, QuietKept
<1>8. CASE ReadMembers(s)
  <2> DEFINE M == {m \in members : \E g \in sub[s].groups : g.id = m.group}
             r == [sub[s] EXCEPT !.pc = "providers", !.members = M]
  <2>1. /\ r.pc = "providers" /\ r.user = sub[s].user /\ r.config = sub[s].config
        /\ r.quiet = sub[s].quiet /\ r.rules = sub[s].rules
        /\ r.groups = sub[s].groups /\ r.members = M
    <3> HIDE DEF M
    <3> QED BY <1>0 DEF SubRequest
  <2>2. SetSub(s, r)
    BY <1>8 DEF ReadMembers
  <2>3. sub[s].groups = Of(groups, sub[s].config) => M = MembersOf(sub[s].config)
    BY DEF MembersOf
  <2> HIDE DEF r, M
  <2>4. UpToDate(sub[s]) => UpToDate(r)
    BY <1>8, <2>1, <2>3 DEF UpToDate, ReadMembers, Chosen
  <2> QED BY <1>0, <2>1, <2>2, <2>4, QuietKept
<1>9. CASE ReadProviders(s)
  <2> DEFINE r == [sub[s] EXCEPT !.pc = "setting", !.providers = Of(providers, sub[s].config)]
  <2>1. /\ r.pc = "setting" /\ r.user = sub[s].user /\ r.config = sub[s].config
        /\ r.quiet = sub[s].quiet /\ r.rules = sub[s].rules
        /\ r.groups = sub[s].groups /\ r.members = sub[s].members
        /\ r.providers = Of(providers, sub[s].config)
    BY <1>0 DEF SubRequest
  <2>2. SetSub(s, r)
    BY <1>9 DEF ReadProviders
  <2> HIDE DEF r
  <2>3. UpToDate(sub[s]) => UpToDate(r)
    BY <1>9, <2>1 DEF UpToDate, ReadProviders, Chosen
  <2> QED BY <1>0, <2>1, <2>2, <2>3, QuietKept
<1>10. CASE ReadSetting(s)
  <2> DEFINE r == [sub[s] EXCEPT !.pc = "profile", !.setting = Of(values, sub[s].config)]
  <2>1. /\ r.pc = "profile" /\ r.user = sub[s].user /\ r.config = sub[s].config
        /\ r.quiet = sub[s].quiet /\ r.rules = sub[s].rules
        /\ r.groups = sub[s].groups /\ r.members = sub[s].members
        /\ r.providers = sub[s].providers /\ r.setting = Of(values, sub[s].config)
    BY <1>0 DEF SubRequest
  <2>2. SetSub(s, r)
    BY <1>10 DEF ReadSetting
  <2> HIDE DEF r
  <2>3. UpToDate(sub[s]) => UpToDate(r)
    BY <1>10, <2>1 DEF UpToDate, ReadSetting, Chosen
  <2> QED BY <1>0, <2>1, <2>2, <2>3, QuietKept
<1>11. CASE ReadProfile(s)
  <2> DEFINE r == [sub[s] EXCEPT !.pc = "served", !.profile = Of(values, sub[s].config)]
  <2>1. /\ r.pc = "served" /\ r.user = sub[s].user /\ r.config = sub[s].config
        /\ r.quiet = sub[s].quiet /\ r.rules = sub[s].rules
        /\ r.groups = sub[s].groups /\ r.members = sub[s].members
        /\ r.providers = sub[s].providers /\ r.setting = sub[s].setting
        /\ r.profile = Of(values, sub[s].config)
    BY <1>0 DEF SubRequest
  <2>2. SetSub(s, r)
    BY <1>11 DEF ReadProfile
  <2> HIDE DEF r
  <2>3. UpToDate(sub[s]) => UpToDate(r)
    BY <1>11, <2>1 DEF UpToDate, ReadProfile, Chosen
  <2> QED BY <1>0, <2>1, <2>2, <2>3, QuietKept
<1>12. CASE Leave(s)
  BY <1>12, <1>n DEF Leave
<1> QED BY <1>1, <1>2, <1>3, <1>4, <1>5, <1>6, <1>7, <1>8, <1>9, <1>10, <1>11, <1>12
        DEF Serve

LEMMA AdministerQuiet ==
    ASSUME SubInv, QuietInv, Administer
    PROVE  QuietInv'
<1> SUFFICES ASSUME NEW s \in Client, sub'[s].quiet PROVE UpToDate(sub[s])'
  BY DEF QuietInv
<1>1. sub[s] \in SubRequest
  BY DEF SubInv
<1>2. sub'[s] = [sub[s] EXCEPT !.quiet = @ /\ <<users, anchors, tables>>'
                                              = <<users, anchors, tables>>]
  BY DEF Administer
<1>3. <<users, anchors, tables>>' = <<users, anchors, tables>> /\ sub[s].quiet
  BY <1>1, <1>2 DEF SubRequest
<1>4. /\ sub'[s].pc = sub[s].pc /\ sub'[s].user = sub[s].user
      /\ sub'[s].config = sub[s].config
      /\ sub'[s].rules = sub[s].rules /\ sub'[s].groups = sub[s].groups
      /\ sub'[s].members = sub[s].members /\ sub'[s].providers = sub[s].providers
      /\ sub'[s].setting = sub[s].setting /\ sub'[s].profile = sub[s].profile
  BY <1>1, <1>2 DEF SubRequest
<1>5. /\ anchors' = anchors /\ groups' = groups /\ members' = members
      /\ providers' = providers /\ rules' = rules /\ values' = values
  BY <1>3 DEF tables
<1>6. UpToDate(sub[s])
  BY <1>3 DEF QuietInv
<1>7. UpToDate(sub'[s])
  BY <1>4, <1>6 DEF UpToDate, Chosen
<1>8. UpToDate(sub'[s]) => UpToDate(sub[s])'
  BY <1>5 DEF UpToDate, Chosen, ConfigsOf, Of, MembersOf
<1> QED BY <1>7, <1>8

LEMMA QuietHolds == SubSpec => [](SubInv /\ Spelling /\ QuietInv)
<1>1. SubInit => Spelling /\ QuietInv
  <2> SUFFICES ASSUME SubInit PROVE Spelling /\ QuietInv
    OBVIOUS
  <2>1. Spelling
    BY DEF SubInit, Init, Spelling, Anchored
  <2>2. \A s \in Client : sub[s] = NoSub
    BY DEF SubInit
  <2>3. UpToDate(NoSub)
    BY DEF UpToDate, NoSub, HasProfile, HasSetting, HasProviders, HasMembers, HasGroups,
           HasRules, HasConfig
  <2> QED BY <2>1, <2>2, <2>3 DEF QuietInv
<1>2. SubInv /\ SubInv' /\ Spelling /\ QuietInv /\ [SubNext]_<<vars, sub>>
        => Spelling' /\ QuietInv'
  <2> SUFFICES ASSUME SubInv, SubInv', Spelling, QuietInv, [SubNext]_<<vars, sub>>
               PROVE  Spelling' /\ QuietInv'
    OBVIOUS
  <2>1. Spelling'
    <3>1. [Next]_vars
      BY DEF SubNext, Administer
    <3> QED BY <3>1, Implements DEF SubInv
  <2>2. CASE Administer
    BY <2>1, <2>2, AdministerQuiet
  <2>3. ASSUME NEW s \in Client, Serve(s) /\ UNCHANGED vars PROVE QuietInv'
    BY <2>3, ServeQuiet
  <2>4. CASE UNCHANGED <<vars, sub>>
    <3>1. /\ sub' = sub /\ anchors' = anchors /\ groups' = groups /\ members' = members
          /\ providers' = providers /\ rules' = rules /\ values' = values
      BY <2>4 DEF vars, tables
    <3>2. ASSUME NEW s \in Client PROVE UpToDate(sub[s]) => UpToDate(sub[s])'
      <4>1. UpToDate(sub[s]) => UpToDate(sub'[s])
        BY <3>1
      <4>2. UpToDate(sub'[s]) => UpToDate(sub[s])'
        BY <3>1 DEF UpToDate, Chosen, ConfigsOf, Of, MembersOf
      <4> QED BY <4>1, <4>2
    <3>3. QuietInv'
      BY <3>1, <3>2 DEF QuietInv
    <3> QED BY <2>1, <3>3
  <2> QED BY <2>1, <2>2, <2>3, <2>4 DEF SubNext
<1> QED BY <1>1, <1>2, SubHolds, PTL DEF SubSpec

(* What a config holds and what is rendered of its rows. *)
LEMMA ServesHeld ==
    ASSUME IInv, Spelling, NEW x \in anchors, NEW r, r.config = x.id,
           r.rules = Of(rules, x.id), r.groups = Of(groups, x.id),
           r.members = MembersOf(x.id), r.providers = Of(providers, x.id),
           r.setting = Of(values, x.id), r.profile = Of(values, x.id)
    PROVE  Rendered(r) = Expected(Held(x.id), r.has)
<1>1. CASE Blank(x.id)
  <2>1. Rendered(r) = Expected(EmptyContent, r.has)
    BY <1>1, RenderedBlank DEF Blank
  <2> QED BY <1>1, <2>1, HeldBlank
<1>2. ASSUME NEW d \in ValidDrafts, Told(x.id, d)
      PROVE  Rendered(r) = Expected(Held(x.id), r.has)
  <2>1. PICK gid, pid, rid : Spells(d, x.id, gid, pid, rid, r.groups, r.members,
                                    r.providers, r.rules, r.setting)
    BY <1>2 DEF Told
  <2>2. Rendered(r) = Expected(Meant(d), r.has)
    BY <2>1, RenderedTold
  <2> QED BY <1>2, <2>2, HeldTold
<1> QED BY <1>1, <1>2 DEF Spelling

(* A request that no admin changes a config under serves what the user's   *)
(* config, or else the base, holds by the store's promise: the nine        *)
(* queries, each on its own, add up to the content, and the names, the     *)
(* order and the tree of rules that the ids stand for come out again.      *)
THEOREM QuietServes == SubSpec => []QuietServesConfig
<1>1. SubInv /\ Spelling /\ QuietInv => QuietServesConfig
  <2> SUFFICES ASSUME SubInv, Spelling, QuietInv,
                      NEW s \in Client, sub[s].pc = "served", sub[s].quiet
               PROVE  LET r == sub[s]
                          mine == content[r.user]
                          c == IF mine # Absent THEN mine
                               ELSE IF content[Base] # Absent THEN content[Base]
                               ELSE EmptyContent
                      IN  Rendered(r) = Expected(c, r.has)
    BY DEF QuietServesConfig, Served
  <2> DEFINE r == sub[s]
             mine == content[r.user]
             c == IF mine # Absent THEN mine
                  ELSE IF content[Base] # Absent THEN content[Base] ELSE EmptyContent
  <2>1. IInv /\ UpToDate(r)
    BY DEF SubInv, QuietInv
  <2>2. /\ r.user \in Owner /\ Base \in Owner /\ Chosen(r)
        /\ r.rules = Of(rules, r.config) /\ r.groups = Of(groups, r.config)
        /\ r.members = MembersOf(r.config) /\ r.providers = Of(providers, r.config)
        /\ r.setting = Of(values, r.config) /\ r.profile = Of(values, r.config)
    BY <2>1 DEF UpToDate, Owner, HasProfile, HasSetting, HasProviders, HasMembers,
                HasGroups, HasRules, HasConfig
  <2>3. ASSUME NEW x \in anchors, r.config = x.id
        PROVE  /\ Rendered(r) = Expected(content[x.owner], r.has)
               /\ content[x.owner] # Absent
    <3>1. Rendered(r) = Expected(Held(x.id), r.has)
      BY <2>1, <2>2, <2>3, ServesHeld
    <3>2. content[x.owner] = Held(x.id) /\ Held(x.id) # Absent
      BY <2>1, ContentOf, HeldContent
    <3> QED BY <3>1, <3>2
  <2>4. CASE r.config \in ConfigsOf(r.user)
    <3>1. PICK x \in anchors : x.owner = r.user /\ x.id = r.config
      BY <2>4 DEF ConfigsOf
    <3> QED BY <2>3, <3>1
  <2>5. CASE ConfigsOf(r.user) = {} /\ r.config \in ConfigsOf(Base)
    <3>1. PICK x \in anchors : x.owner = Base /\ x.id = r.config
      BY <2>5 DEF ConfigsOf
    <3>2. mine = Absent
      BY <2>2, <2>5, NoContent
    <3> QED BY <2>3, <3>1, <3>2
  <2>6. CASE ConfigsOf(r.user) = {} /\ ConfigsOf(Base) = {} /\ r.config = 0
    <3>1. c = EmptyContent
      BY <2>2, <2>6, NoContent
    <3>2. /\ r.rules = {} /\ r.groups = {} /\ r.providers = {}
          /\ r.setting = {} /\ r.profile = {}
      <4>1. 0 \notin ConfigId
        BY DEF ConfigId
      <4> QED BY <2>1, <2>2, <2>6, <4>1 DEF IInv, TypeOK, Of
    <3> HIDE DEF r
    <3>3. Rendered(r) = Expected(EmptyContent, r.has)
      BY <3>2, RenderedBlank
    <3> QED BY <3>1, <3>3 DEF r
  <2> QED BY <2>2, <2>4, <2>5, <2>6 DEF Chosen
<1> QED BY <1>1, QuietHolds, PTL

=============================================================================
