----------------------------- MODULE ConfigStore -----------------------------
(***************************************************************************)
(* Subscription configs in the store: the anchors of repository/configs    *)
(* and the mihomo content of repository/routing, driven by the admin       *)
(* handlers config_save, custom_create, custom_delete and user_delete.     *)
(*                                                                         *)
(* A save or a clone is one transaction on the store's only connection,    *)
(* hence one step.  config_save resolves the config first, in a step of    *)
(* its own, and everything else may come in between.                       *)
(*                                                                         *)
(* The tables are sets of rows.  A draft refers to its groups and          *)
(* providers by index, the rows by id, and what is served goes by name.    *)
(* Abstracted: `value` stands for the base YAML and the profile row; the   *)
(* health-check columns of a group, and a rule's type, value and           *)
(* no_resolve, are written and copied along with the rest of their row.    *)
(***************************************************************************)
EXTENDS Drafts

CONSTANTS
    Admin,       \* admin requests that may be in flight
    User,        \* users who may own a custom config
    Base,        \* stands for user_id NULL
    Inbound,     \* node_inbounds rows at the start
    Draft,       \* drafts that admins submit
    Absent,
    MaxConfigs,  \* bound: configs ever created, the base among them
    MaxWrites    \* bound: saves and clones in a behaviour

ASSUME StoreAssumption ==
    /\ Base \notin User
    /\ MaxConfigs \in Nat \ {0}
    /\ MaxWrites \in Nat

(* A policy, and a rule's optional target: NoRef is a nil pointer, while a  *)
(* group's members are policies, by value.                                 *)
PolicyOf(G) == {Direct} \cup [kind : {"inbound"}, to : Inbound]
                        \cup [kind : {"group"}, to : G]
TargetOf(G) == {NoRef} \cup PolicyOf(G)
Target == TargetOf(Nat)

(* A draft as it is decoded, valid or not: an index is any number.         *)
Decoded(d) ==
    /\ d.groups \in Seq([name : STRING, members : Seq(PolicyOf(Int))])
    /\ d.providers \in Seq(STRING)
    /\ d.rules \in [DOMAIN d.rules -> [provider : Int, target : TargetOf(Int)]]
    /\ IsFiniteSet(DOMAIN d.rules)
    /\ \A q \in DOMAIN d.rules : q \in Seq(Nat \ {0}) /\ q # <<>>
    /\ d.value \in STRING

ASSUME DraftAssumption == \A d \in Draft : Decoded(d)

Owner == User \cup {Base}
ConfigId == 1 .. MaxConfigs

VARIABLES
    users,      \* rows of users that exist
    anchors,    \* subscription_configs: [id, owner]
    groups,     \* mihomo_proxy_groups: [id, config, pos, name]
    members,    \* mihomo_proxy_group_members: [group, pos, ref]
    providers,  \* mihomo_rule_providers: [id, config, name]
    rules,      \* mihomo_routing_rules: [id, config, parent, pos, provider, target]
    values,     \* mihomo_settings and mihomo_profile: [config, value]
    inbounds,   \* node_inbounds that exist
    lastId,     \* AUTOINCREMENT of anchors, groups and providers
    req,        \* the save each admin request is at
    writes

tables == <<groups, members, providers, rules, values>>
vars == <<users, anchors, tables, inbounds, lastId, req, writes>>

Idle == [pc |-> "idle", owner |-> Base, draft |-> Absent, config |-> 0]
Request ==
    [pc : {"resolve", "ensured", "save"}, owner : Owner, draft : Draft,
     config : 0 .. MaxConfigs]

Init ==
    /\ users = User
    /\ anchors = {} /\ groups = {} /\ members = {}
    /\ providers = {} /\ rules = {} /\ values = {}
    /\ inbounds = Inbound
    /\ lastId = [anchors |-> 0, groups |-> 0, providers |-> 0]
    /\ req = [a \in Admin |-> Idle]
    /\ writes = 0

-----------------------------------------------------------------------------
(* Rows.                                                                   *)

Of(table, c) == {r \in table : r.config = c}
MembersOf(c) == {m \in members : \E g \in Of(groups, c) : g.id = m.group}
ConfigsOf(o) == {r.id : r \in {x \in anchors : x.owner = o}}

(* The i-th of a finite set of numbers, and the place of a number in it. *)
Place(S, x) == Cardinality({y \in S : y <= x})
Nth(S, i) == CHOOSE x \in S : Place(S, x) = i

(* Depth-first order, in which insertRules numbers the rules. *)
Precedes(p, q) ==
    \/ \E k \in 1 .. Len(p) : /\ k <= Len(q) /\ p[k] < q[k]
                              /\ \A j \in 1 .. k - 1 : p[j] = q[j]
    \/ Len(p) <= Len(q) /\ \A j \in 1 .. Len(p) : p[j] = q[j]
Rank(paths, q) == Cardinality({p \in paths : Precedes(p, q)})

(* Slip: the first rule gets id 0. *)
MaxRuleId_fromZero(S, c) ==
    LET ids == {r.id : r \in S}
    IN  IF ids = {} THEN -1 ELSE Nth(ids, Cardinality(ids))
(* SELECT COALESCE(MAX(id), 0), over the rules of every config. *)
MaxRuleId(S, c) ==
    LET ids == {r.id : r \in S}
    IN  IF ids = {} THEN 0 ELSE Nth(ids, Cardinality(ids))

(* refColumns: a group is referred to by the id it was just given. *)
Resolved(ref, base) ==
    IF ref.kind = "group" THEN Ref("group", base + ref.to) ELSE ref

(* Rows of a draft saved to config c. *)
DraftGroups(d, c) ==
    {[id |-> lastId.groups + k, config |-> c, pos |-> k, name |-> d.groups[k].name]
        : k \in DOMAIN d.groups}
DraftMembers(d) ==
    UNION {{[group |-> lastId.groups + k, pos |-> j,
             ref |-> Resolved(d.groups[k].members[j], lastId.groups)]
               : j \in DOMAIN d.groups[k].members} : k \in DOMAIN d.groups}
DraftProviders(d, c) ==
    {[id |-> lastId.providers + k, config |-> c, name |-> d.providers[k]]
        : k \in DOMAIN d.providers}
DraftRules(d, c) ==
    LET rest == rules \ Of(rules, c)
        idOf(q) == MaxRuleId(rest, c) + Rank(DOMAIN d.rules, q)
    IN  {[id |-> idOf(q), config |-> c,
          parent |-> IF Len(q) = 1 THEN 0 ELSE idOf(Prefix(q)),
          pos |-> q[Len(q)],
          provider |-> IF d.rules[q].provider = 0 THEN 0
                       ELSE lastId.providers + d.rules[q].provider,
          target |-> Resolved(d.rules[q].target, lastId.groups)]
            : q \in DOMAIN d.rules}

InboundsIn(memberRows, ruleRows) ==
    {ref.to : ref \in {x \in {m.ref : m \in memberRows} \cup {r.target : r \in ruleRows}
                         : x.kind = "inbound"}}

-----------------------------------------------------------------------------
(* config_save: decode and validate, resolve the config, save.  A draft    *)
(* that does not pass changes nothing.                                     *)

SetReq(a, r) == req' = [req EXCEPT ![a] = r]
Done(a) == SetReq(a, Idle)

ValidDrafts == {d \in Draft : Valid(d)}

Submit(a) ==
    /\ req[a] = Idle
    /\ writes < MaxWrites
    /\ writes' = writes + 1
    /\ \E o \in Owner, d \in ValidDrafts :
        SetReq(a, [pc |-> "resolve", owner |-> o, draft |-> d, config |-> 0])
    /\ UNCHANGED <<users, anchors, tables, inbounds, lastId>>

(* EnsureBaseConfigID: INSERT OR IGNORE, then SELECT. *)
EnsureBase(a) ==
    /\ req[a].pc = "resolve" /\ req[a].owner = Base
    /\ SetReq(a, [req[a] EXCEPT !.pc = "ensured"])
    /\ IF ConfigsOf(Base) = {}
       THEN /\ anchors' = anchors \cup {[id |-> lastId.anchors + 1, owner |-> Base]}
            /\ lastId' = [lastId EXCEPT !.anchors = @ + 1]
       ELSE UNCHANGED <<anchors, lastId>>
    /\ UNCHANGED <<users, tables, inbounds, writes>>

(* UserConfigID: a user without a custom config ends the request. *)
ResolveConfig(a) ==
    LET o == req[a].owner
    IN  /\ req[a].pc = (IF o = Base THEN "ensured" ELSE "resolve")
        /\ IF ConfigsOf(o) = {}
           THEN Done(a)
           ELSE \E c \in ConfigsOf(o) :
                  SetReq(a, [req[a] EXCEPT !.pc = "save", !.config = c])
        /\ UNCHANGED <<users, anchors, tables, inbounds, lastId, writes>>

(* The members have no config_id: scoped via their group. *)
Cleared(c) == MembersOf(c)

NamesTwice(d) ==
    \E j, k \in DOMAIN d.providers : j # k /\ d.providers[j] = d.providers[k]

(* SaveMihomoConfig.  A config or an inbound that is gone is a foreign-key *)
(* violation, a provider named twice a UNIQUE one, which no validation has *)
(* looked for: the whole transaction is rolled back.                       *)
SaveMihomoConfig(a) ==
    LET d == req[a].draft
        c == req[a].config
        memberRows == DraftMembers(d)
        ruleRows == DraftRules(d, c)
    IN  /\ req[a].pc = "save"
        /\ Done(a)
        /\ IF /\ \E r \in anchors : r.id = c
              /\ ~NamesTwice(d)
              /\ InboundsIn(memberRows, ruleRows) \subseteq inbounds
           THEN /\ groups' = (groups \ Of(groups, c)) \cup DraftGroups(d, c)
                /\ members' = (members \ Cleared(c)) \cup memberRows
                /\ providers' = (providers \ Of(providers, c)) \cup DraftProviders(d, c)
                /\ rules' = (rules \ Of(rules, c)) \cup ruleRows
                /\ values' = (values \ Of(values, c))
                               \cup {[config |-> c, value |-> d.value]}
                /\ lastId' = [lastId EXCEPT !.groups = @ + Len(d.groups),
                                            !.providers = @ + Len(d.providers)]
           ELSE UNCHANGED <<tables, lastId>>
        /\ UNCHANGED <<users, anchors, inbounds, writes>>

-----------------------------------------------------------------------------
(* custom_create.                                                          *)

(* The id a row of the base gets in the copy: copies are inserted in the   *)
(* order of the originals.                                                 *)
CopyOf(table, c, base, id) == base + Place({r.id : r \in Of(table, c)}, id)

(* Slip: the copy's references still point into the base. *)
Remap_none(ref, src) == ref
Remap(ref, src) ==
    IF ref.kind = "group"
    THEN Ref("group", CopyOf(groups, src, lastId.groups, ref.to)) ELSE ref

(* Slip: a sub-rule keeps its parent in the base. *)
CopiedParent_kept(r, src) == r.parent
CopiedParent(r, src) ==
    IF r.parent = 0 THEN 0 ELSE CopyOf(rules, src, MaxRuleId(rules, src), r.parent)

ClonedProviders(src, dst) ==
    {[p EXCEPT !.id = CopyOf(providers, src, lastId.providers, @), !.config = dst]
        : p \in Of(providers, src)}
ClonedValues(src, dst) == {[v EXCEPT !.config = dst] : v \in Of(values, src)}

(* CloneConfig, group by group, provider by provider, rule by rule. *)
CloneConfig(src, dst) ==
    /\ groups' = groups \cup
         {[g EXCEPT !.id = CopyOf(groups, src, lastId.groups, @), !.config = dst]
             : g \in Of(groups, src)}
    /\ members' = members \cup
         {[m EXCEPT !.group = CopyOf(groups, src, lastId.groups, @),
                    !.ref = Remap(@, src)] : m \in MembersOf(src)}
    /\ providers' = providers \cup ClonedProviders(src, dst)
    /\ rules' = rules \cup
         {[r EXCEPT !.id = CopyOf(rules, src, MaxRuleId(rules, src), @),
                    !.config = dst,
                    !.parent = CopiedParent(r, src),
                    !.provider = IF @ = 0 THEN 0
                                 ELSE CopyOf(providers, src, lastId.providers, @),
                    !.target = Remap(@, src)] : r \in Of(rules, src)}
    /\ values' = values \cup ClonedValues(src, dst)

(* Slip: the next id is one above the highest in use. *)
NextConfig_reused ==
    LET ids == {r.id : r \in anchors}
    IN  IF ids = {} THEN 1 ELSE Nth(ids, Cardinality(ids)) + 1
NextConfig == lastId.anchors + 1

(* CreateUserConfig: the anchor and the copy commit together. *)
CreateUserConfig(u) ==
    LET c == NextConfig
        count(table, b) == Cardinality(Of(table, b))
    IN  /\ writes < MaxWrites
        /\ Cardinality(ConfigsOf(Base)) + MaxConfigs > lastId.anchors + 1  \* one for the base
        /\ u \in users
        /\ ConfigsOf(u) = {}
        /\ anchors' = anchors \cup {[id |-> c, owner |-> u]}
        /\ IF ConfigsOf(Base) = {}
           THEN /\ lastId' = [lastId EXCEPT !.anchors = @ + 1]
                /\ UNCHANGED tables
           ELSE \E b \in ConfigsOf(Base) :
                  /\ CloneConfig(b, c)
                  /\ lastId' = [anchors |-> lastId.anchors + 1,
                                groups |-> lastId.groups + count(groups, b),
                                providers |-> lastId.providers + count(providers, b)]
        /\ writes' = writes + 1
        /\ UNCHANGED <<users, inbounds, req>>

-----------------------------------------------------------------------------
(* custom_delete, user_delete and the node handlers.                       *)

(* ON DELETE CASCADE from an anchor to all of its content. *)
Cascade(c) ==
    /\ anchors' = {r \in anchors : r.id # c}
    /\ groups' = groups \ Of(groups, c)
    /\ members' = members \ MembersOf(c)
    /\ providers' = providers \ Of(providers, c)
    /\ rules' = rules \ Of(rules, c)
    /\ values' = values \ Of(values, c)

DeleteUserConfig(u) ==
    /\ \E c \in ConfigsOf(u) : Cascade(c)
    /\ UNCHANGED <<users, inbounds, lastId, req, writes>>

DeleteUser(u) ==
    /\ u \in users
    /\ users' = users \ {u}
    /\ IF ConfigsOf(u) = {}
       THEN UNCHANGED <<anchors, tables>>
       ELSE \E c \in ConfigsOf(u) : Cascade(c)
    /\ UNCHANGED <<inbounds, lastId, req, writes>>

(* node_save and node_delete: an inbound a member or a rule refers to stays. *)
DropInbound(i) ==
    /\ i \in inbounds \ InboundsIn(members, rules)
    /\ inbounds' = inbounds \ {i}
    /\ UNCHANGED <<users, anchors, tables, lastId, req, writes>>

(* The bound on writes is reached and all have ended: not a deadlock. *)
Quiet ==
    /\ writes = MaxWrites
    /\ \A a \in Admin : req[a] = Idle
    /\ UNCHANGED vars

Next ==
    \/ \E a \in Admin : \/ Submit(a) \/ EnsureBase(a)
                        \/ ResolveConfig(a) \/ SaveMihomoConfig(a)
    \/ \E u \in User : CreateUserConfig(u) \/ DeleteUserConfig(u) \/ DeleteUser(u)
    \/ \E i \in Inbound : DropInbound(i)
    \/ Quiet

Spec == Init /\ [][Next]_vars

-----------------------------------------------------------------------------
(* What a config holds, as ProxyGroups, RuleProviders, Rules, Setting and  *)
(* Profile put it together from the rows.                                  *)

Row(table, id) == CHOOSE r \in table : r.id = id
Named(G, ref) == IF ref.kind = "group" THEN Ref("group", Row(G, ref.to).name) ELSE ref

(* The tree Rules links via parent_id, as paths; a sub-rule without its    *)
(* parent among the config's rules is left out: its path is empty.         *)
PathOf(R) ==
    LET ids == {r.id : r \in R}
        path[i \in ids] ==
            LET r == Row(R, i)
            IN  IF r.parent = 0 THEN <<r.pos>>
                ELSE IF r.parent \notin ids \/ path[r.parent] = <<>> THEN <<>>
                ELSE Append(path[r.parent], r.pos)
    IN  path

(* Groups G with members M, providers P, rules R and values V of a config: *)
(* ids are looked up among its own rows.                                   *)
Assembled(G, M, P, R, V) ==
    LET path == PathOf(R)
        ruleAt(q) == CHOOSE r \in R : path[r.id] = q
        groupAt(k) == CHOOSE g \in G : g.pos = k
        memberAt(g, j) == CHOOSE m \in M : m.group = g.id /\ m.pos = j
        size(g) == Cardinality({m \in M : m.group = g.id})
    IN  [groups |-> [k \in 1 .. Cardinality(G) |->
                       [name |-> groupAt(k).name,
                        members |-> [j \in 1 .. size(groupAt(k)) |->
                                       Named(G, memberAt(groupAt(k), j).ref)]]],
         providers |-> {p.name : p \in P},
         rules |-> [q \in {path[r.id] : r \in R} \ {<<>>} |->
                      [provider |-> IF ruleAt(q).provider = 0 THEN ""
                                    ELSE Row(P, ruleAt(q).provider).name,
                       target |-> Named(G, ruleAt(q).target)]],
         value |-> {v.value : v \in V}]

Held(c) == Assembled(Of(groups, c), MembersOf(c), Of(providers, c), Of(rules, c),
                     Of(values, c))

(* What a draft says, in the same terms. *)
Meant(d) ==
    LET named(ref) ==
            IF ref.kind = "group" THEN Ref("group", d.groups[ref.to].name) ELSE ref
    IN  [groups |-> [k \in DOMAIN d.groups |->
                       [name |-> d.groups[k].name,
                        members |-> [j \in DOMAIN d.groups[k].members |->
                                       named(d.groups[k].members[j])]]],
         providers |-> {d.providers[k] : k \in DOMAIN d.providers},
         rules |-> [q \in DOMAIN d.rules |->
                      [provider |-> IF d.rules[q].provider = 0 THEN ""
                                    ELSE d.providers[d.rules[q].provider],
                       target |-> named(d.rules[q].target)]],
         value |-> {d.value}]

Contents == {Meant(d) : d \in ValidDrafts}
EmptyContent == [groups |-> <<>>, providers |-> {}, rules |-> <<>>, value |-> {}]
ASSUME AbsentAssumption == Absent \notin Contents \cup {EmptyContent}

content == [o \in Owner |->
              IF ConfigsOf(o) = {} THEN Absent ELSE Held(CHOOSE c \in ConfigsOf(o) : TRUE)]

Profiles == INSTANCE ConfigProfiles
              WITH Content <- Contents, Empty <- EmptyContent

-----------------------------------------------------------------------------
(* What the store promises.                                                *)

TypeOK ==
    /\ users \subseteq User
    /\ anchors \subseteq [id : ConfigId, owner : Owner]
    /\ groups \subseteq [id : Nat \ {0}, config : ConfigId, pos : Nat, name : STRING]
    /\ members \subseteq [group : Nat, pos : Nat, ref : Target]
    /\ providers \subseteq [id : Nat \ {0}, config : ConfigId, name : STRING]
    /\ rules \subseteq [id : Nat \ {0}, config : ConfigId, parent : Nat, pos : Nat,
                        provider : Nat, target : Target]
    /\ values \subseteq [config : ConfigId, value : STRING]
    /\ inbounds \subseteq Inbound
    /\ req \in [Admin -> Request \cup {Idle}]
    /\ writes \in 0 .. MaxWrites

(* Row ids identify rows, every row hangs off a config that exists, and a  *)
(* rule, a sub-rule or a member refers to rows of its own config only: the *)
(* rows of one config can be replaced or deleted without a foreign key of  *)
(* another one in the way, although ids of rules are taken from MAX(id)    *)
(* over all configs and a clone starts from the rows of the base.          *)
ConfigsApart ==
    LET configOf(table, id) == {r.config : r \in {x \in table : x.id = id}}
        inside(ref, c) == ref.kind = "group" => configOf(groups, ref.to) = {c}
    IN  /\ \A table \in {groups, providers, rules} :
             /\ \A r, s \in table : r.id = s.id => r = s
             /\ \A r \in table : \E x \in anchors : x.id = r.config
        /\ \A r \in rules :
             /\ inside(r.target, r.config)
             /\ r.provider # 0 => configOf(providers, r.provider) = {r.config}
             /\ r.parent # 0 => configOf(rules, r.parent) = {r.config}
                                /\ r.parent < r.id
        /\ \A m \in members : \E g \in groups :
             g.id = m.group /\ inside(m.ref, g.config)
        /\ InboundsIn(members, rules) \subseteq inbounds
        /\ \A o \in Owner : Cardinality(ConfigsOf(o)) <= 1

(* The search for cycles (cyclicGroups in validate.go) refuses a draft      *)
(* exactly when a group of it leads back to itself, in every graph of three *)
(* groups, and so no stored group does, although members are stored under  *)
(* new ids and a clone renumbers them once more: clients do not load a     *)
(* config whose groups loop.                                               *)
GroupsAcyclic ==
    LET refers == {<<m.group, m.ref.to>> : m \in {x \in members : x.ref.kind = "group"}}
    IN  /\ ~Looped({r[1] : r \in refers}, refers)
        /\ writes = 0 => SearchExact(3)  \* constant: one look is enough

(* The detailed store implements the promise: a save stores exactly the    *)
(* content of the draft and a clone exactly that of the base, groups,      *)
(* members, sub-rules and providers in their order and under their names,  *)
(* and no step changes two configs.                                        *)
ImplementsProfiles == Profiles!Spec

(* A save that was resolved for one owner never lands on another's config, *)
(* though the custom config may be deleted and created anew, for the same  *)
(* user or another, between config_save's two steps.                       *)
SaveHitsItsOwner ==
    [][\A a \in Admin, o \in Owner :
         SaveMihomoConfig(a) /\ o # req[a].owner => content'[o] = content[o]]_vars

=============================================================================
