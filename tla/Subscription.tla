----------------------------- MODULE Subscription -----------------------------
(***************************************************************************)
(* GET /sub/{kind}/{token} while the admin handlers work: the sub handler  *)
(* and its mihomo renderer over ConfigStore.                               *)
(*                                                                         *)
(* The handler reads the store in nine queries, each a step and none in a  *)
(* transaction with another; then the profile is rendered from what they   *)
(* brought.  References are resolved by row id, and a save gives every     *)
(* group and provider a new one.                                           *)
(*                                                                         *)
(* Abstracted: the HMAC (the token of a user matches that user), the       *)
(* engine registry (mihomo is the only engine), and the proxies beyond     *)
(* the inbounds they belong to.                                            *)
(***************************************************************************)
EXTENDS ConfigStore

CONSTANTS Client,  \* subscription requests that may be in flight
          Nobody   \* no user

VARIABLE sub       \* the request each client is at

(* quiet: history, no admin changed a config or a user since the request   *)
(* began.                                                                  *)
NoSub == [pc |-> "idle", user |-> Nobody, config |-> 0, has |-> {},
          rules |-> {}, groups |-> {}, members |-> {}, providers |-> {},
          setting |-> {}, profile |-> {}, quiet |-> TRUE]

SubInit == Init /\ sub = [s \in Client |-> NoSub]

SetSub(s, r) == sub' = [sub EXCEPT ![s] = r]
Go(s, pc) == SetSub(s, [sub[s] EXCEPT !.pc = pc])

-----------------------------------------------------------------------------
(* The handler.                                                            *)

(* SubIDs: the token matches a user of the service. *)
MatchToken(s) ==
    /\ sub[s].pc = "idle"
    /\ \E u \in users :
        SetSub(s, [NoSub EXCEPT !.pc = "token", !.user = u])

(* IDBySubID: an error if the user has gone since. *)
ResolveUser(s) ==
    /\ sub[s].pc = "token"
    /\ IF sub[s].user \in users THEN Go(s, "custom") ELSE SetSub(s, NoSub)

Pick(s, c) ==
    SetSub(s, [sub[s] EXCEPT !.pc = "fleet", !.config = c])

(* UserConfigID *)
CustomConfig(s) ==
    /\ sub[s].pc = "custom"
    /\ IF ConfigsOf(sub[s].user) = {}
       THEN Go(s, "base")
       ELSE \E c \in ConfigsOf(sub[s].user) : Pick(s, c)

(* Neither a custom nor a base: config id 0, which no row has. *)
BaseConfig(s) ==
    /\ sub[s].pc = "base"
    /\ IF ConfigsOf(Base) = {}
       THEN Go(s, "fleet")
       ELSE \E c \in ConfigsOf(Base) : Pick(s, c)

(* The subscriber's proxies, which depend on the panels; a fleet that is   *)
(* entirely out of reach fails the request.                                *)
Fleet(s) ==
    /\ sub[s].pc = "fleet"
    /\ \/ \E S \in SUBSET inbounds : SetSub(s, [sub[s] EXCEPT !.pc = "rules", !.has = S])
       \/ SetSub(s, NoSub)

ReadRules(s) ==
    /\ sub[s].pc = "rules"
    /\ SetSub(s, [sub[s] EXCEPT !.pc = "groups", !.rules = Of(rules, sub[s].config)])

(* ProxyGroups: the groups, and then the members of all groups there are,  *)
(* of which those of groups read before are kept.                          *)
ReadGroups(s) ==
    /\ sub[s].pc = "groups"
    /\ SetSub(s, [sub[s] EXCEPT !.pc = "members", !.groups = Of(groups, sub[s].config)])

(* Slip: members are attached by the position of their group. *)
ReadMembers_byPosition(s) ==
    /\ sub[s].pc = "members"
    /\ SetSub(s, [sub[s] EXCEPT !.pc = "providers",
                    !.members = UNION {{[m EXCEPT !.group = g.id] :
                        m \in {x \in members : Row(groups, x.group).pos = g.pos}}
                      : g \in sub[s].groups}])
ReadMembers(s) ==
    /\ sub[s].pc = "members"
    /\ SetSub(s, [sub[s] EXCEPT !.pc = "providers",
                    !.members = {m \in members :
                                   \E g \in sub[s].groups : g.id = m.group}])

ReadProviders(s) ==
    /\ sub[s].pc = "providers"
    /\ SetSub(s, [sub[s] EXCEPT !.pc = "setting",
                                !.providers = Of(providers, sub[s].config)])

ReadSetting(s) ==
    /\ sub[s].pc = "setting"
    /\ SetSub(s, [sub[s] EXCEPT !.pc = "profile", !.setting = Of(values, sub[s].config)])

ReadProfile(s) ==
    /\ sub[s].pc = "profile"
    /\ SetSub(s, [sub[s] EXCEPT !.pc = "served", !.profile = Of(values, sub[s].config)])

Leave(s) == sub[s].pc = "served" /\ SetSub(s, NoSub)

Serve(s) ==
    \/ MatchToken(s) \/ ResolveUser(s) \/ CustomConfig(s) \/ BaseConfig(s)
    \/ Fleet(s) \/ ReadRules(s) \/ ReadGroups(s) \/ ReadMembers(s)
    \/ ReadProviders(s) \/ ReadSetting(s) \/ ReadProfile(s) \/ Leave(s)

Administer ==
    /\ Next
    /\ sub' = [s \in Client |->
                 [sub[s] EXCEPT !.quiet = @ /\ <<users, anchors, tables>>'
                                                = <<users, anchors, tables>>]]

SubNext == Administer \/ \E s \in Client : Serve(s) /\ UNCHANGED vars

SubSpec == SubInit /\ [][SubNext]_<<vars, sub>>

-----------------------------------------------------------------------------
(* Rendering.                                                              *)

(* entityNameResolver.resolve, for what request r has read. *)
Resolves(r, ref) ==
    CASE ref.kind = "inbound" -> ref.to \in r.has
      [] ref.kind = "group" -> \E g \in r.groups : g.id = ref.to
      [] OTHER -> ref.kind = "direct"

NameIn(r, ref) ==
    IF ref.kind = "group" /\ (\E g \in r.groups : g.id = ref.to)
    THEN Ref("group", Row(r.groups, ref.to).name) ELSE ref

(* The rule and, for a logical one, its sub-rules, to any depth. *)
Below(path, q) == {p \in DOMAIN path : SubSeq(path[p], 1, Len(q)) = q}

(* Slip: a sub-rule without its provider is not looked at. *)
MatcherRenders_top(r, path, id) ==
    LET x == Row(r.rules, id)
    IN  x.provider = 0 \/ \E p \in r.providers : p.id = x.provider
(* renderMatcher: one provider that does not resolve drops the rule. *)
MatcherRenders(r, path, id) ==
    \A j \in Below(path, path[id]) :
        LET x == Row(r.rules, j)
        IN  x.provider = 0 \/ \E p \in r.providers : p.id = x.provider

(* buildRules: the top-level rules that render, by position. *)
Lines(r) ==
    LET path == PathOf(r.rules)
    IN  {x \in r.rules : /\ x.parent = 0
                         /\ Resolves(r, x.target)
                         /\ MatcherRenders(r, path, x.id)}

(* buildGroups: the members of a group that resolve. *)
Shown(r, g) == {m \in r.members : m.group = g.id /\ Resolves(r, m.ref)}

(* A group's members in order, DIRECT if there are none. *)
Listed(r, g) ==
    LET S == Shown(r, g)
        at(j) == CHOOSE m \in S : Place({x.pos : x \in S}, m.pos) = j
    IN  IF S = {} THEN <<Direct>>
        ELSE [j \in 1 .. Cardinality(S) |-> NameIn(r, at(j).ref)]

Unresolved == "?" \* a name no draft gives a provider

(* ruleProviders: every provider of the config, used by a rule or not.  *)
Offered(r) == {p.name : p \in r.providers}

(* The profile: proxy-groups, rules, rule-providers, base YAML, headers. *)
Rendered(r) ==
    LET path == PathOf(r.rules)
        providerName(x) ==
            IF x.provider = 0 THEN ""
            ELSE IF \E p \in r.providers : p.id = x.provider
            THEN Row(r.providers, x.provider).name ELSE Unresolved
        line(x) == [target |-> NameIn(r, x.target),
                    providers |-> {<<path[j], providerName(Row(r.rules, j))>>
                                     : j \in Below(path, path[x.id])}]
    IN  [groups |-> {<<g.pos, g.name, Listed(r, g)>> : g \in r.groups},
         rules |-> {<<x.pos, line(x)>> : x \in Lines(r)},
         providers |-> Offered(r),
         base |-> {v.value : v \in r.setting},
         headers |-> {v.value : v \in r.profile}]

(* What the content of a config means for a subscriber with inbounds S:    *)
(* said of names, in one piece.                                            *)
Expected(c, S) ==
    LET usable(ref) == ref.kind = "inbound" => ref.to \in S
        kept(g) == LET J == {j \in DOMAIN g.members : usable(g.members[j])}
                   IN  [i \in 1 .. Cardinality(J) |-> g.members[Nth(J, i)]]
        tops == {q \in DOMAIN c.rules : Len(q) = 1 /\ usable(c.rules[q].target)}
        under(q) == {p \in DOMAIN c.rules : p[1] = q[1]}
    IN  [groups |-> {<<k, c.groups[k].name,
                       IF kept(c.groups[k]) = <<>> THEN <<Direct>> ELSE kept(c.groups[k])>>
                         : k \in DOMAIN c.groups},
         rules |-> {<<q[1], [target |-> c.rules[q].target,
                             providers |-> {<<p, c.rules[p].provider>> : p \in under(q)}]>>
                      : q \in tops},
         providers |-> c.providers, base |-> c.value, headers |-> c.value]

-----------------------------------------------------------------------------
(* What the endpoint promises.                                             *)

Served == {s \in Client : sub[s].pc = "served"}

(* The profile is one a mihomo client can load: whatever an admin saved or *)
(* deleted between the queries, a rule names only groups and providers the *)
(* profile defines, a group only groups it defines, and no group is empty. *)
SelfContained ==
    \A s \in Served :
        LET r == sub[s]
            out == Rendered(r)
            defined(ref) == /\ ref.kind = "group" => \E g \in out.groups : g[2] = ref.to
                            /\ ref.kind = "inbound" => ref.to \in r.has
        IN  /\ \A x \in out.rules :
                 /\ defined(x[2].target)
                 /\ \A p \in x[2].providers : p[2] \in out.providers \cup {""}
            /\ \A g \in out.groups :
                 /\ g[3] # <<>>
                 /\ \A j \in DOMAIN g[3] : defined(g[3][j])

(* A request no admin interferes with serves the user's custom config, or  *)
(* the base for want of one, with what the subscriber has no proxy for     *)
(* left out, and everything else in its order and under its name.          *)
QuietServesConfig ==
    \A s \in Served :
        LET r == sub[s]
            mine == content[r.user]
            c == IF mine # Absent THEN mine
                 ELSE IF content[Base] # Absent THEN content[Base] ELSE EmptyContent
        IN  r.quiet => Rendered(r) = Expected(c, r.has)

(* No subscriber is served another user's custom config, not even one made *)
(* after the subscriber's own was deleted under the request.               *)
NeverAnothersConfig ==
    \A s \in Client : \A x \in anchors :
        x.id = sub[s].config => x.owner \in {sub[s].user, Base}

=============================================================================
