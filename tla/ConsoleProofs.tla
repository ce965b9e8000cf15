--------------------------- MODULE ConsoleProofs ---------------------------
(***************************************************************************)
(* Theorems about Console and Api, for any users, page size, number of     *)
(* methods under way and operators: the SPA's calls reach the operations    *)
(* they are meant for and are understood there, what the tab shows at rest  *)
(* is what the server has, and only a good cookie changes it.              *)
(*                                                                         *)
(* The schemas nest five deep, so that decoding is unrolled, one operator   *)
(* for each depth; every body app.js sends is taken through them once.      *)
(* What the tab shows rests on OnWay: while it is left alone, one method    *)
(* runs at most, and whatever it is at, the calls it has left bring the tab *)
(* back in step with the server.                                           *)
(***************************************************************************)
EXTENDS Console, FiniteSetTheorems, WellFoundedInduction, TLAPS

(***************************************************************************)
(* Decoding.                                                                  *)
(***************************************************************************)
LEMMA Simple ==
    \A s, v : Plain(s, v) => Decode1(s, v) /\ Decode2(s, v) /\ Decode3(s, v) /\ Decode4(s, v) /\ Decodes(s, v)
<1> SUFFICES ASSUME NEW s, NEW v, Plain(s, v)
             PROVE  Decode1(s, v) /\ Decode2(s, v) /\ Decode3(s, v) /\ Decode4(s, v) /\ Decodes(s, v)
  OBVIOUS
<1>1. Decode1(s, v)
  BY DEF Decode1, Decode
<1>2. Decode2(s, v)
  BY DEF Decode2, Decode
<1>3. Decode3(s, v)
  BY DEF Decode3, Decode
<1>4. Decode4(s, v)
  BY DEF Decode4, Decode
<1>5. Decodes(s, v)
  BY DEF Decodes, Decode
<1> QED BY <1>1, <1>2, <1>3, <1>4, <1>5

LEMMA Plains ==
    /\ Plain(Str, JStr) /\ Plain(Int_, JInt) /\ Plain(Bool, JBool)
    /\ \A x, S : x \in S => Plain(Enum(S), JText(x))
BY DEF Plain, Str, JStr, Int_, JInt, Bool, JBool, Enum, JText

LEMMA Objects ==
    ASSUME NEW f, NEW g, NEW need, need \subseteq DOMAIN f
    PROVE  /\ (\A k \in DOMAIN f \cap DOMAIN g : Plain(g[k], f[k])) => Decode1(Obj(g, need), JObj(f))
           /\ (\A k \in DOMAIN f \cap DOMAIN g : Decode1(g[k], f[k])) => Decode2(Obj(g, need), JObj(f))
           /\ (\A k \in DOMAIN f \cap DOMAIN g : Decode2(g[k], f[k])) => Decode3(Obj(g, need), JObj(f))
           /\ (\A k \in DOMAIN f \cap DOMAIN g : Decode4(g[k], f[k])) => Decodes(Obj(g, need), JObj(f))
<1> DEFINE s == Obj(g, need)
           v == JObj(f)
<1>1. s.t = "obj" /\ v.t = "obj" /\ s.need = need /\ s.fields = g /\ v.of = f
  BY DEF Obj, JObj
<1> HIDE DEF s, v
<1>2. (\A k \in DOMAIN f \cap DOMAIN g : Plain(g[k], f[k])) => Decode1(s, v)
  BY <1>1 DEF Decode1, Decode
<1>3. (\A k \in DOMAIN f \cap DOMAIN g : Decode1(g[k], f[k])) => Decode2(s, v)
  BY <1>1 DEF Decode2, Decode
<1>4. (\A k \in DOMAIN f \cap DOMAIN g : Decode2(g[k], f[k])) => Decode3(s, v)
  BY <1>1 DEF Decode3, Decode
<1>5. (\A k \in DOMAIN f \cap DOMAIN g : Decode4(g[k], f[k])) => Decodes(s, v)
  BY <1>1 DEF Decodes, Decode
<1> USE DEF s, v
<1> QED BY <1>2, <1>3, <1>4, <1>5

LEMMA Flat ==
    ASSUME NEW f, NEW g, NEW need, need \subseteq DOMAIN f,
           \A k \in DOMAIN f \cap DOMAIN g : Plain(g[k], f[k])
    PROVE  /\ Decode1(Obj(g, need), JObj(f)) /\ Decode2(Obj(g, need), JObj(f))
           /\ Decode3(Obj(g, need), JObj(f)) /\ Decodes(Obj(g, need), JObj(f))
BY Objects, Simple

LEMMA Arrays ==
    ASSUME NEW s, NEW q
    PROVE  /\ (\A i \in DOMAIN q : Decode1(s, q[i])) => Decode2(Arr(s), JArr(q))
           /\ (\A i \in DOMAIN q : Decode3(s, q[i])) => Decode4(Arr(s), JArr(q)) /\ Decode4(Tree(s), JTree(q))
<1> DEFINE a == Arr(s)
           v == JArr(q)
           b == Tree(s)
           w == JTree(q)
<1>1. /\ a.t = "arr" /\ v.t = "arr" /\ a.of = s /\ v.of = q
      /\ b.t = "tree" /\ w.t = "tree" /\ b.of = s /\ w.of = q
  BY DEF Arr, JArr, Tree, JTree
<1> HIDE DEF a, v, b, w
<1>2. (\A i \in DOMAIN q : Decode1(s, q[i])) => Decode2(a, v)
  BY <1>1 DEF Decode2, Decode
<1>3. (\A i \in DOMAIN q : Decode3(s, q[i])) => Decode4(a, v) /\ Decode4(b, w)
  BY <1>1 DEF Decode4, Decode
<1> USE DEF a, v, b, w
<1> QED BY <1>2, <1>3

LEMMA Ids ==
    /\ Decodes(UserDeleteReq, JObj([id |-> JInt])) /\ Decodes(UserRecreateReq, JObj([id |-> JInt]))
    /\ Decodes(NodeDeleteReq, JObj([id |-> JInt]))
    /\ Decodes(CustomCreateReq, JObj([userId |-> JInt])) /\ Decodes(CustomDeleteReq, JObj([userId |-> JInt]))
<1>1. Decodes(Obj([id |-> Int_], {"id"}), JObj([id |-> JInt]))
  BY Flat, Plains
<1>2. Decodes(Obj([userId |-> Int_], {"userId"}), JObj([userId |-> JInt]))
  BY Flat, Plains
<1> QED BY <1>1, <1>2 DEF UserDeleteReq, UserRecreateReq, NodeDeleteReq, CustomCreateReq, CustomDeleteReq

LEMMA Checks == Decodes(ProviderCheckReq, JObj([url |-> JStr, format |-> JStr]))
BY Flat, Plains DEF ProviderCheckReq

LEMMA Inbounds == Decode4(Arr(Int_), JArr(<<JInt>>))
BY Arrays, Simple, Plains

LEMMA Queries ==
    ASSUME NEW q
    PROVE  /\ q.op = "usersGet" => decodeUsersGetParams(Request(q))
           /\ q.op = "configGet" => decodeConfigGetParams(Request(q))
<1>1. Request(q).query = Query(q)
  BY DEF Request
<1>2. ASSUME q.op = "usersGet" PROVE decodeUsersGetParams(Request(q))
  <2> DEFINE f == [q |-> JStr, inbound |-> JArr(<<JInt>>), page |-> JInt, perPage |-> JInt]
             g == [q |-> Str, inbound |-> Arr(Int_), page |-> Int_, perPage |-> Int_]
  <2>1. \A k \in DOMAIN f \cap DOMAIN g : Decode4(g[k], f[k])
    BY Plains, Simple, Inbounds
  <2>2. Decodes(Obj(g, {}), JObj(f))
    <3> HIDE DEF f, g
    <3> QED BY <2>1, Objects
  <2>3. Query(q) = f
    BY <1>2 DEF Query
  <2> QED BY <2>2, <2>3, <1>1 DEF decodeUsersGetParams
<1>3. ASSUME q.op = "configGet" PROVE decodeConfigGetParams(Request(q))
  <2>1. CASE q.arg = Base
    <3>1. Query(q) = <<>>
      BY <1>3, <2>1 DEF Query
    <3>2. Decodes(Obj([user |-> Int_], {}), JObj(<<>>))
      BY Flat
    <3> QED BY <3>1, <3>2, <1>1 DEF decodeConfigGetParams
  <2>2. CASE q.arg # Base
    <3>1. Query(q) = [user |-> JInt]
      BY <1>3, <2>2 DEF Query
    <3>2. Decodes(Obj([user |-> Int_], {}), JObj([user |-> JInt]))
      BY Flat, Plains
    <3> QED BY <3>1, <3>2, <1>1 DEF decodeConfigGetParams
  <2> QED BY <2>1, <2>2
<1> QED BY <1>2, <1>3

LEMMA UserBodies ==
    /\ Decodes(UserCreateReq, UserBody("userCreate"))
    /\ Decodes(UserEditReq, UserBody("userEdit"))
<1> DEFINE f == [inboundIDs |-> JArr(<<JInt>>), description |-> JStr]
           c == [name |-> Str, description |-> Str, inboundIDs |-> Arr(Int_)]
           e == [id |-> Int_, description |-> Str, inboundIDs |-> Arr(Int_)]
<1>0. /\ DOMAIN f = {"inboundIDs", "description"}
      /\ Decode4(c["inboundIDs"], f["inboundIDs"]) /\ Decode4(c["description"], f["description"])
      /\ Decode4(e["inboundIDs"], f["inboundIDs"]) /\ Decode4(e["description"], f["description"])
      /\ Decode4(c["name"], JStr) /\ Decode4(e["id"], JInt)
  BY Plains, Simple, Inbounds
<1> HIDE DEF f, c, e
<1>1. /\ \A k \in DOMAIN Plus(f, "name", JStr) \cap DOMAIN c : Decode4(c[k], Plus(f, "name", JStr)[k])
      /\ {"name", "inboundIDs"} \subseteq DOMAIN Plus(f, "name", JStr)
  BY <1>0 DEF Plus
<1>2. /\ \A k \in DOMAIN Plus(f, "id", JInt) \cap DOMAIN e : Decode4(e[k], Plus(f, "id", JInt)[k])
      /\ {"id", "inboundIDs"} \subseteq DOMAIN Plus(f, "id", JInt)
  BY <1>0 DEF Plus
<1> USE DEF f
<1>3. UserBody("userCreate") = JObj(Plus(f, "name", JStr)) /\ UserBody("userEdit") = JObj(Plus(f, "id", JInt))
  BY DEF UserBody
<1> HIDE DEF f
<1>4. /\ Decodes(Obj(c, {"name", "inboundIDs"}), JObj(Plus(f, "name", JStr)))
      /\ Decodes(Obj(e, {"id", "inboundIDs"}), JObj(Plus(f, "id", JInt)))
  BY <1>1, <1>2, Objects
<1> USE DEF c, e
<1> QED BY <1>3, <1>4 DEF UserCreateReq, UserEditReq

LEMMA NodeBodies ==
    ASSUME NEW draft, draft # "malformed"
    PROVE  Decodes(NodeSaveReq, NodeBody(draft))
<1> DEFINE bag == [password |-> JStr, obfs |-> JStr, obfsPassword |-> JStr, sni |-> JStr, up |-> JStr, down |-> JStr]
           vless == [id |-> JInt, name |-> JStr, kind |-> JText("vless"), port |-> JInt]
           hy2 == [id |-> JInt, name |-> JStr, kind |-> JText("hysteria2"), port |-> JInt,
                   hysteria2 |-> Hysteria2Bag]
           item == [id |-> Int_, name |-> Str, port |-> Int_, kind |-> NodeSaveReqInboundsItemKind,
                    hysteria2 |-> NodeSaveReqInboundsItemHysteria2]
           list == <<JObj(vless), JObj(hy2)>>
           body == [id |-> JInt, name |-> JStr, vpnHost |-> JStr, panelBaseURL |-> JStr, panelBasePath |-> JStr,
                    token |-> JStr, inbounds |-> JArr(list)]
           req == [id |-> Int_, name |-> Str, vpnHost |-> Str, panelBaseURL |-> Str, panelBasePath |-> Str,
                   token |-> Str, inbounds |-> Arr(NodeSaveReqInboundsItem)]
<1>1. Decode2(NodeSaveReqInboundsItemHysteria2, Hysteria2Bag)
  BY Flat, Plains DEF NodeSaveReqInboundsItemHysteria2, Hysteria2Bag
<1>2. /\ Decode2(NodeSaveReqInboundsItemKind, JText("vless"))
      /\ Decode2(NodeSaveReqInboundsItemKind, JText("hysteria2"))
  BY Plains, Simple DEF NodeSaveReqInboundsItemKind
<1>3. /\ \A k \in DOMAIN vless \cap DOMAIN item : Decode2(item[k], vless[k])
      /\ \A k \in DOMAIN hy2 \cap DOMAIN item : Decode2(item[k], hy2[k])
      /\ {"name", "port"} \subseteq DOMAIN vless /\ {"name", "port"} \subseteq DOMAIN hy2
  BY <1>1, <1>2, Plains, Simple
<1>4. NodeSaveReqInboundsItem = Obj(item, {"name", "port"})
  BY DEF NodeSaveReqInboundsItem
<1>5. Decode3(NodeSaveReqInboundsItem, JObj(vless)) /\ Decode3(NodeSaveReqInboundsItem, JObj(hy2))
  <2> HIDE DEF vless, hy2, item
  <2> QED BY <1>3, <1>4, Objects
<1>6. Decode4(Arr(NodeSaveReqInboundsItem), JArr(list))
  <2> HIDE DEF vless, hy2, item
  <2>1. DOMAIN list = {1, 2} /\ list[1] = JObj(vless) /\ list[2] = JObj(hy2)
    OBVIOUS
  <2> HIDE DEF list
  <2> QED BY <2>1, <1>5, Arrays
<1>7. NodeBody(draft) = JObj(body)
  BY DEF NodeBody
<1> HIDE DEF vless, hy2, item, list
<1>8. /\ \A k \in DOMAIN body \cap DOMAIN req : Decode4(req[k], body[k])
      /\ {"name", "vpnHost", "panelBaseURL", "panelBasePath", "inbounds"} \subseteq DOMAIN body
  BY <1>6, Plains, Simple
<1>9. NodeSaveReq = Obj(req, {"name", "vpnHost", "panelBaseURL", "panelBasePath", "inbounds"})
  BY DEF NodeSaveReq
<1> HIDE DEF body, req
<1> QED BY <1>7, <1>8, <1>9, Objects

LEMMA Policies ==
    /\ \A draft : draft # "malformed" => Decode1(PolicyRef, GroupRef(draft)) /\ Decode2(PolicyRef, GroupRef(draft))
    /\ Decode1(PolicyRef, JObj([kind |-> JStr])) /\ Decode2(PolicyRef, JObj([kind |-> JStr]))
    /\ Decode1(PolicyRef, JObj([kind |-> JStr, inboundId |-> JInt]))
<1>1. \A draft : draft # "malformed" => GroupRef(draft) = JObj([kind |-> JStr, groupIdx |-> JInt])
  BY DEF GroupRef
<1>2. /\ Decode1(PolicyRef, JObj([kind |-> JStr, groupIdx |-> JInt]))
      /\ Decode2(PolicyRef, JObj([kind |-> JStr, groupIdx |-> JInt]))
  BY Flat, Plains DEF PolicyRef
<1>3. Decode1(PolicyRef, JObj([kind |-> JStr])) /\ Decode2(PolicyRef, JObj([kind |-> JStr]))
  BY Flat, Plains DEF PolicyRef
<1>4. Decode1(PolicyRef, JObj([kind |-> JStr, inboundId |-> JInt]))
  BY Flat, Plains DEF PolicyRef
<1> QED BY <1>1, <1>2, <1>3, <1>4

LEMMA Groups ==
    ASSUME NEW draft, draft # "malformed"
    PROVE  Decode4(Arr(MihomoGroup),
                   JArr(<<JObj([name |-> JStr, type |-> JStr, url |-> JStr, interval |-> JInt, lazy |-> JBool,
                                members |-> JArr(<<GroupRef(draft), JObj([kind |-> JStr]),
                                                   JObj([kind |-> JStr, inboundId |-> JInt])>>)])>>))
<1> DEFINE list == <<GroupRef(draft), JObj([kind |-> JStr]), JObj([kind |-> JStr, inboundId |-> JInt])>>
           f == [name |-> JStr, type |-> JStr, url |-> JStr, interval |-> JInt, lazy |-> JBool,
                 members |-> JArr(list)]
           g == [name |-> Str, type |-> Str, url |-> Str, interval |-> Int_, tolerance |-> Int_,
                 lazy |-> Bool, members |-> Arr(PolicyRef)]
<1>1. Decode2(Arr(PolicyRef), JArr(list))
  <2>1. /\ DOMAIN list = {1, 2, 3}
        /\ Decode1(PolicyRef, list[1]) /\ Decode1(PolicyRef, list[2]) /\ Decode1(PolicyRef, list[3])
    BY Policies
  <2> HIDE DEF list
  <2> QED BY <2>1, Arrays
<1> HIDE DEF list
<1>2. /\ \A k \in DOMAIN f \cap DOMAIN g : Decode2(g[k], f[k])
      /\ {"name", "type", "url", "members"} \subseteq DOMAIN f
  BY <1>1, Plains, Simple
<1>3. MihomoGroup = Obj(g, {"name", "type", "url", "members"})
  BY DEF MihomoGroup
<1> HIDE DEF f, g
<1>4. Decode3(MihomoGroup, JObj(f))
  BY <1>2, <1>3, Objects
<1>5. Decode4(Arr(MihomoGroup), JArr(<<JObj(f)>>))
  BY <1>4, Arrays
<1> USE DEF f, list
<1> QED BY <1>5

LEMMA Providers ==
    Decode4(Arr(MihomoProvider),
            JArr(<<JObj([name |-> JStr, behavior |-> JStr, format |-> JStr, url |-> JStr,
                         interval |-> JInt, mirror |-> JBool, mirrorInterval |-> JInt])>>))
<1> DEFINE f == [name |-> JStr, behavior |-> JStr, format |-> JStr, url |-> JStr,
                 interval |-> JInt, mirror |-> JBool, mirrorInterval |-> JInt]
<1>1. Decode3(MihomoProvider, JObj(f))
  BY Flat, Plains DEF MihomoProvider
<1> HIDE DEF f
<1>2. Decode4(Arr(MihomoProvider), JArr(<<JObj(f)>>))
  BY <1>1, Arrays
<1> USE DEF f
<1> QED BY <1>2

LEMMA RuleTrees ==
    ASSUME NEW draft, draft # "malformed"
    PROVE  Decode4(Tree(MihomoRule),
                   JTree([path \in {<<1>>, <<2>>, <<2, 1>>} |-> RuleBody(draft, path)]))
<1> DEFINE g == [type |-> Str, value |-> Str, providerIdx |-> Int_, noResolve |-> Bool, target |-> PolicyRef]
           plain == [type |-> JStr, value |-> JStr, target |-> GroupRef(draft)]
           logical == [type |-> JStr, target |-> JObj([kind |-> JStr])]
           child == [type |-> JStr, value |-> JStr]
           rules == [path \in {<<1>>, <<2>>, <<2, 1>>} |-> RuleBody(draft, path)]
<1>1. MihomoRule = Obj(g, {"type"})
  BY DEF MihomoRule
<1>2. /\ RuleBody(draft, <<1>>) = JObj(plain)
      /\ RuleBody(draft, <<2>>) = JObj(logical)
      /\ RuleBody(draft, <<2, 1>>) = JObj(child)
  BY DEF RuleBody
<1>3. \A k \in DOMAIN plain \cap DOMAIN g : Decode2(g[k], plain[k])
  BY Plains, Simple, Policies
<1>4. \A k \in DOMAIN logical \cap DOMAIN g : Decode2(g[k], logical[k])
  BY Plains, Simple, Policies
<1>5. \A k \in DOMAIN child \cap DOMAIN g : Decode2(g[k], child[k])
  BY Plains, Simple
<1>6. {"type"} \subseteq DOMAIN plain /\ {"type"} \subseteq DOMAIN logical /\ {"type"} \subseteq DOMAIN child
  OBVIOUS
<1> HIDE DEF g, plain, logical, child
<1>7. /\ Decode3(MihomoRule, JObj(plain)) /\ Decode3(MihomoRule, JObj(logical))
      /\ Decode3(MihomoRule, JObj(child))
  BY <1>1, <1>3, <1>4, <1>5, <1>6, Objects
<1>8. \A path \in DOMAIN rules : Decode3(MihomoRule, rules[path])
  BY <1>2, <1>7
<1> HIDE DEF rules
<1>9. Decode4(Tree(MihomoRule), JTree(rules))
  BY <1>8, Arrays
<1> USE DEF rules
<1> QED BY <1>9

LEMMA ConfigBodies ==
    ASSUME NEW draft, NEW sc, draft # "malformed"
    PROVE  Decodes(ConfigSaveReq, ConfigBody(draft, sc))
<1> DEFINE groups == JArr(<<JObj([name |-> JStr, type |-> JStr, url |-> JStr, interval |-> JInt, lazy |-> JBool,
                                  members |-> JArr(<<GroupRef(draft), JObj([kind |-> JStr]),
                                                     JObj([kind |-> JStr, inboundId |-> JInt])>>)])>>)
           rules == JTree([path \in {<<1>>, <<2>>, <<2, 1>>} |-> RuleBody(draft, path)])
           providers == JArr(<<JObj([name |-> JStr, behavior |-> JStr, format |-> JStr, url |-> JStr,
                                     interval |-> JInt, mirror |-> JBool, mirrorInterval |-> JInt])>>)
           f == [groups |-> groups, rules |-> rules, providers |-> providers,
                 baseYAML |-> JStr, profileTitle |-> JStr, filename |-> JStr, profileUpdateInterval |-> JInt]
<1>1. ConfigBody(draft, sc) = JObj(IF sc = Base THEN f ELSE Plus(f, "userId", JInt))
  BY DEF ConfigBody
<1>2. /\ Decode4(Arr(MihomoGroup), groups) /\ Decode4(Tree(MihomoRule), rules)
      /\ Decode4(Arr(MihomoProvider), providers)
  BY Groups, RuleTrees, Providers
<1> HIDE DEF groups, rules, providers
<1>3. DOMAIN f = DOMAIN MihomoFields /\ "userId" \notin DOMAIN f
  BY DEF MihomoFields
<1>4. \A k \in DOMAIN f : Decode4(MihomoFields[k], f[k])
  BY <1>2, Plains, Simple DEF MihomoFields
<1>5. Decode4(Int_, JInt)
  BY Plains, Simple
<1> HIDE DEF f
<1> DEFINE g == Plus(MihomoFields, "userId", Int_)
<1>6. DOMAIN g = DOMAIN f \cup {"userId"} /\ g["userId"] = Int_ /\ \A k \in DOMAIN f : g[k] = MihomoFields[k]
  BY <1>3 DEF Plus
<1>7. ConfigSaveReq = Obj(g, DOMAIN f)
  BY <1>3 DEF ConfigSaveReq
<1> HIDE DEF g
<1>8. Decodes(ConfigSaveReq, JObj(f))
  BY <1>4, <1>6, <1>7, Objects
<1>9. \A k \in DOMAIN Plus(f, "userId", JInt) \cap DOMAIN g : Decode4(g[k], Plus(f, "userId", JInt)[k])
  BY <1>3, <1>4, <1>5, <1>6 DEF Plus
<1>10. DOMAIN f \subseteq DOMAIN Plus(f, "userId", JInt)
  BY DEF Plus
<1>11. Decodes(ConfigSaveReq, JObj(Plus(f, "userId", JInt)))
  BY <1>7, <1>9, <1>10, Objects
<1> QED BY <1>1, <1>8, <1>11

(***************************************************************************)
(* Routing.                                                                   *)
(***************************************************************************)
Malformed(op, draft) == op \in {"configSave", "nodeSave"} /\ draft = "malformed"

\* What becomes of a call for op: h is its operation, and what stops it is the session or
\* a draft that is malformed.
Reaches(h, op, draft, ok) ==
    /\ h.op = op
    /\ \/ h.stage = "call" /\ (ok \/ op = "logout")
       \/ h.stage = "SecurityError" /\ ~ok
       \/ h.stage = "DecodeRequestError" /\ Malformed(op, draft)

LEMMA Handled ==
    ASSUME NEW op, NEW draft, NEW ok \in BOOLEAN, NEW params \in BOOLEAN, NEW body \in BOOLEAN,
           params, body \/ Malformed(op, draft)
    PROVE  Reaches(Handle(op, ok, params, body), op, draft, ok)
BY DEF Reaches, Handle

LEMMA Booleans ==
    ASSUME NEW r
    PROVE  /\ decodeConfigSaveRequest(r) \in BOOLEAN /\ decodeCustomCreateRequest(r) \in BOOLEAN
           /\ decodeCustomDeleteRequest(r) \in BOOLEAN /\ decodeNodeDeleteRequest(r) \in BOOLEAN
           /\ decodeNodeSaveRequest(r) \in BOOLEAN /\ decodeProviderCheckRequest(r) \in BOOLEAN
           /\ decodeUserCreateRequest(r) \in BOOLEAN /\ decodeUserDeleteRequest(r) \in BOOLEAN
           /\ decodeUserEditRequest(r) \in BOOLEAN /\ decodeUserRecreateRequest(r) \in BOOLEAN
           /\ decodeConfigGetParams(r) \in BOOLEAN /\ decodeUsersGetParams(r) \in BOOLEAN
<1>1. \A s, v : Decodes(s, v) \in BOOLEAN
  BY DEF Decodes, Decode
<1> QED
  BY <1>1 DEF decodeConfigSaveRequest, decodeCustomCreateRequest, decodeCustomDeleteRequest,
              decodeNodeDeleteRequest, decodeNodeSaveRequest, decodeProviderCheckRequest,
              decodeUserCreateRequest, decodeUserDeleteRequest, decodeUserEditRequest,
              decodeUserRecreateRequest, decodeConfigGetParams, decodeUsersGetParams, JsonBody

LEMMA Bodied ==
    ASSUME NEW q, NEW want, Decodes(want, Body(q)), want.t # "none"
    PROVE  JsonBody(Request(q), want)
<1>1. Body(q) # NoBody
  BY DEF Decodes, Decode, Plain, NoBody
<1>2. Request(q).json /\ Request(q).body = Body(q)
  BY <1>1 DEF Request
<1> QED BY <1>1, <1>2 DEF JsonBody

LEMMA Tails ==
    \A a, b, c, d, e, f :
       /\ Tail(<<a>>) = <<>> /\ Tail(<<a, b>>) = <<b>> /\ Tail(<<a, b, c>>) = <<b, c>>
       /\ Tail(<<a, b, c, d>>) = <<b, c, d>> /\ Tail(<<a, b, c, d, e>>) = <<b, c, d, e>>
       /\ Tail(<<a, b, c, d, e, f>>) = <<b, c, d, e, f>>
OBVIOUS

LEMMA Subtrees ==
    ASSUME NEW r, NEW ok
    PROVE  /\ r.path = <<"admin", "api", "nodes">> => ServeHTTP(r, ok) = RouteNodes(r, ok, <<>>)
           /\ \A x : r.path = <<"admin", "api", "nodes", x>> => ServeHTTP(r, ok) = RouteNodes(r, ok, <<x>>)
           /\ r.path = <<"admin", "api", "users">> => ServeHTTP(r, ok) = RouteUsers(r, ok, <<>>)
           /\ \A x : r.path = <<"admin", "api", "users", x>> => ServeHTTP(r, ok) = RouteUsers(r, ok, <<x>>)
           /\ r.path = <<"admin", "api", "config", "mihomo">> => ServeHTTP(r, ok) = RouteConfig(r, ok, <<>>)
           /\ \A x : r.path = <<"admin", "api", "config", "mihomo", x>> =>
                        ServeHTTP(r, ok) = RouteConfig(r, ok, <<x>>)
           /\ \A x, y : r.path = <<"admin", "api", "config", "mihomo", x, y>> =>
                           ServeHTTP(r, ok) = RouteConfig(r, ok, <<x, y>>)
           /\ r.path = <<"admin", "api", "logout">> => ServeHTTP(r, ok) = RouteSession(r, ok, <<"logout">>)
<1>1. ASSUME r.path = <<"admin", "api", "nodes">> PROVE ServeHTTP(r, ok) = RouteNodes(r, ok, <<>>)
  <2>1. ServeHTTP(r, ok) = RouteAdmin(r, ok, <<"api", "nodes">>)
    BY <1>1, Tails DEF ServeHTTP
  <2>2. @ = RouteApi(r, ok, <<"nodes">>)
    BY Tails DEF RouteAdmin
  <2>3. @ = RouteNodes(r, ok, <<>>)
    BY Tails DEF RouteApi
  <2> QED BY <2>1, <2>2, <2>3
<1>2. ASSUME NEW x, r.path = <<"admin", "api", "nodes", x>> PROVE ServeHTTP(r, ok) = RouteNodes(r, ok, <<x>>)
  <2>1. ServeHTTP(r, ok) = RouteAdmin(r, ok, <<"api", "nodes", x>>)
    BY <1>2, Tails DEF ServeHTTP
  <2>2. @ = RouteApi(r, ok, <<"nodes", x>>)
    BY Tails DEF RouteAdmin
  <2>3. @ = RouteNodes(r, ok, <<x>>)
    BY Tails DEF RouteApi
  <2> QED BY <2>1, <2>2, <2>3
<1>3. ASSUME r.path = <<"admin", "api", "users">> PROVE ServeHTTP(r, ok) = RouteUsers(r, ok, <<>>)
  <2>1. ServeHTTP(r, ok) = RouteAdmin(r, ok, <<"api", "users">>)
    BY <1>3, Tails DEF ServeHTTP
  <2>2. @ = RouteApi(r, ok, <<"users">>)
    BY Tails DEF RouteAdmin
  <2>3. @ = RouteUsers(r, ok, <<>>)
    BY Tails DEF RouteApi
  <2> QED BY <2>1, <2>2, <2>3
<1>4. ASSUME NEW x, r.path = <<"admin", "api", "users", x>> PROVE ServeHTTP(r, ok) = RouteUsers(r, ok, <<x>>)
  <2>1. ServeHTTP(r, ok) = RouteAdmin(r, ok, <<"api", "users", x>>)
    BY <1>4, Tails DEF ServeHTTP
  <2>2. @ = RouteApi(r, ok, <<"users", x>>)
    BY Tails DEF RouteAdmin
  <2>3. @ = RouteUsers(r, ok, <<x>>)
    BY Tails DEF RouteApi
  <2> QED BY <2>1, <2>2, <2>3
<1>5. ASSUME r.path = <<"admin", "api", "config", "mihomo">> PROVE ServeHTTP(r, ok) = RouteConfig(r, ok, <<>>)
  <2>1. ServeHTTP(r, ok) = RouteAdmin(r, ok, <<"api", "config", "mihomo">>)
    BY <1>5, Tails DEF ServeHTTP
  <2>2. @ = RouteApi(r, ok, <<"config", "mihomo">>)
    BY Tails DEF RouteAdmin
  <2>3. @ = RouteConfig(r, ok, <<>>)
    BY Tails DEF RouteApi
  <2> QED BY <2>1, <2>2, <2>3
<1>6. ASSUME NEW x, r.path = <<"admin", "api", "config", "mihomo", x>> PROVE ServeHTTP(r, ok) = RouteConfig(r, ok, <<x>>)
  <2>1. ServeHTTP(r, ok) = RouteAdmin(r, ok, <<"api", "config", "mihomo", x>>)
    BY <1>6, Tails DEF ServeHTTP
  <2>2. @ = RouteApi(r, ok, <<"config", "mihomo", x>>)
    BY Tails DEF RouteAdmin
  <2>3. @ = RouteConfig(r, ok, <<x>>)
    BY Tails DEF RouteApi
  <2> QED BY <2>1, <2>2, <2>3
<1>7. ASSUME NEW x, NEW y, r.path = <<"admin", "api", "config", "mihomo", x, y>> PROVE ServeHTTP(r, ok) = RouteConfig(r, ok, <<x, y>>)
  <2>1. ServeHTTP(r, ok) = RouteAdmin(r, ok, <<"api", "config", "mihomo", x, y>>)
    BY <1>7, Tails DEF ServeHTTP
  <2>2. @ = RouteApi(r, ok, <<"config", "mihomo", x, y>>)
    BY Tails DEF RouteAdmin
  <2>3. @ = RouteConfig(r, ok, <<x, y>>)
    BY Tails DEF RouteApi
  <2> QED BY <2>1, <2>2, <2>3
<1>8. ASSUME r.path = <<"admin", "api", "logout">> PROVE ServeHTTP(r, ok) = RouteSession(r, ok, <<"logout">>)
  <2>1. ServeHTTP(r, ok) = RouteAdmin(r, ok, <<"api", "logout">>)
    BY <1>8, Tails DEF ServeHTTP
  <2>2. @ = RouteApi(r, ok, <<"logout">>)
    BY Tails DEF RouteAdmin
  <2>3. @ = RouteSession(r, ok, <<"logout">>)
    BY Tails DEF RouteApi
  <2> QED BY <2>1, <2>2, <2>3
<1> QED BY <1>1, <1>2, <1>3, <1>4, <1>5, <1>6, <1>7, <1>8

LEMMA Trie ==
    ASSUME NEW op \in Op, NEW r, NEW ok, r.path = Url(op), r.method = IF op \in Gets THEN "GET" ELSE "POST"
    PROVE  /\ op = "nodesGet" => ServeHTTP(r, ok) = handleNodesGetRequest(r, ok)
           /\ op = "nodeSave" => ServeHTTP(r, ok) = handleNodeSaveRequest(r, ok)
           /\ op = "nodeDelete" => ServeHTTP(r, ok) = handleNodeDeleteRequest(r, ok)
           /\ op = "usersGet" => ServeHTTP(r, ok) = handleUsersGetRequest(r, ok)
           /\ op = "userCreate" => ServeHTTP(r, ok) = handleUserCreateRequest(r, ok)
           /\ op = "userEdit" => ServeHTTP(r, ok) = handleUserEditRequest(r, ok)
           /\ op = "userDelete" => ServeHTTP(r, ok) = handleUserDeleteRequest(r, ok)
           /\ op = "userRecreate" => ServeHTTP(r, ok) = handleUserRecreateRequest(r, ok)
           /\ op = "configGet" => ServeHTTP(r, ok) = handleConfigGetRequest(r, ok)
           /\ op = "configSchema" => ServeHTTP(r, ok) = handleConfigSchemaRequest(r, ok)
           /\ op = "configCustoms" => ServeHTTP(r, ok) = handleConfigCustomsRequest(r, ok)
           /\ op = "configSave" => ServeHTTP(r, ok) = handleConfigSaveRequest(r, ok)
           /\ op = "customCreate" => ServeHTTP(r, ok) = handleCustomCreateRequest(r, ok)
           /\ op = "customDelete" => ServeHTTP(r, ok) = handleCustomDeleteRequest(r, ok)
           /\ op = "providerCheck" => ServeHTTP(r, ok) = handleProviderCheckRequest(r, ok)
           /\ op = "logout" => ServeHTTP(r, ok) = handleLogoutRequest(r, ok)
<1>1. ASSUME op = "nodesGet" PROVE ServeHTTP(r, ok) = handleNodesGetRequest(r, ok)
  <2>1. r.path = <<"admin", "api", "nodes">> /\ r.method = "GET"
    BY <1>1 DEF Url, Gets
  <2> QED BY <2>1, Subtrees, Tails DEF RouteNodes, On
<1>2. ASSUME op = "nodeSave" PROVE ServeHTTP(r, ok) = handleNodeSaveRequest(r, ok)
  <2>1. r.path = <<"admin", "api", "nodes", "save">> /\ r.method = "POST"
    BY <1>2 DEF Url, Gets
  <2> QED BY <2>1, Subtrees, Tails DEF RouteNodes, On
<1>3. ASSUME op = "nodeDelete" PROVE ServeHTTP(r, ok) = handleNodeDeleteRequest(r, ok)
  <2>1. r.path = <<"admin", "api", "nodes", "delete">> /\ r.method = "POST"
    BY <1>3 DEF Url, Gets
  <2> QED BY <2>1, Subtrees, Tails DEF RouteNodes, On
<1>4. ASSUME op = "usersGet" PROVE ServeHTTP(r, ok) = handleUsersGetRequest(r, ok)
  <2>1. r.path = <<"admin", "api", "users">> /\ r.method = "GET"
    BY <1>4 DEF Url, Gets
  <2> QED BY <2>1, Subtrees, Tails DEF RouteUsers, On
<1>5. ASSUME op = "userCreate" PROVE ServeHTTP(r, ok) = handleUserCreateRequest(r, ok)
  <2>1. r.path = <<"admin", "api", "users", "create">> /\ r.method = "POST"
    BY <1>5 DEF Url, Gets
  <2> QED BY <2>1, Subtrees, Tails DEF RouteUsers, On
<1>6. ASSUME op = "userEdit" PROVE ServeHTTP(r, ok) = handleUserEditRequest(r, ok)
  <2>1. r.path = <<"admin", "api", "users", "edit">> /\ r.method = "POST"
    BY <1>6 DEF Url, Gets
  <2> QED BY <2>1, Subtrees, Tails DEF RouteUsers, On
<1>7. ASSUME op = "userDelete" PROVE ServeHTTP(r, ok) = handleUserDeleteRequest(r, ok)
  <2>1. r.path = <<"admin", "api", "users", "delete">> /\ r.method = "POST"
    BY <1>7 DEF Url, Gets
  <2> QED BY <2>1, Subtrees, Tails DEF RouteUsers, On
<1>8. ASSUME op = "userRecreate" PROVE ServeHTTP(r, ok) = handleUserRecreateRequest(r, ok)
  <2>1. r.path = <<"admin", "api", "users", "recreate">> /\ r.method = "POST"
    BY <1>8 DEF Url, Gets
  <2> QED BY <2>1, Subtrees, Tails DEF RouteUsers, On
<1>9. ASSUME op = "configGet" PROVE ServeHTTP(r, ok) = handleConfigGetRequest(r, ok)
  <2>1. r.path = <<"admin", "api", "config", "mihomo">> /\ r.method = "GET"
    BY <1>9 DEF Url, Gets
  <2> QED BY <2>1, Subtrees, Tails DEF RouteConfig, On
<1>10. ASSUME op = "configSchema" PROVE ServeHTTP(r, ok) = handleConfigSchemaRequest(r, ok)
  <2>1. r.path = <<"admin", "api", "config", "mihomo", "schema">> /\ r.method = "GET"
    BY <1>10 DEF Url, Gets
  <2> QED BY <2>1, Subtrees, Tails DEF RouteConfig, On
<1>11. ASSUME op = "configCustoms" PROVE ServeHTTP(r, ok) = handleConfigCustomsRequest(r, ok)
  <2>1. r.path = <<"admin", "api", "config", "mihomo", "customs">> /\ r.method = "GET"
    BY <1>11 DEF Url, Gets
  <2> QED BY <2>1, Subtrees, Tails DEF RouteConfig, On
<1>12. ASSUME op = "configSave" PROVE ServeHTTP(r, ok) = handleConfigSaveRequest(r, ok)
  <2>1. r.path = <<"admin", "api", "config", "mihomo", "save">> /\ r.method = "POST"
    BY <1>12 DEF Url, Gets
  <2> QED BY <2>1, Subtrees, Tails DEF RouteConfig, On
<1>13. ASSUME op = "customCreate" PROVE ServeHTTP(r, ok) = handleCustomCreateRequest(r, ok)
  <2>1. r.path = <<"admin", "api", "config", "mihomo", "custom", "create">> /\ r.method = "POST"
    BY <1>13 DEF Url, Gets
  <2>2. ServeHTTP(r, ok) = RouteConfig(r, ok, <<"custom", "create">>)
    BY <2>1, Subtrees
  <2>3. @ = RouteCustom(r, ok, <<"create">>)
    BY Tails DEF RouteConfig
  <2> QED BY <2>1, <2>2, <2>3 DEF RouteCustom, On
<1>14. ASSUME op = "customDelete" PROVE ServeHTTP(r, ok) = handleCustomDeleteRequest(r, ok)
  <2>1. r.path = <<"admin", "api", "config", "mihomo", "custom", "delete">> /\ r.method = "POST"
    BY <1>14 DEF Url, Gets
  <2>2. ServeHTTP(r, ok) = RouteConfig(r, ok, <<"custom", "delete">>)
    BY <2>1, Subtrees
  <2>3. @ = RouteCustom(r, ok, <<"delete">>)
    BY Tails DEF RouteConfig
  <2> QED BY <2>1, <2>2, <2>3 DEF RouteCustom, On
<1>15. ASSUME op = "providerCheck" PROVE ServeHTTP(r, ok) = handleProviderCheckRequest(r, ok)
  <2>1. r.path = <<"admin", "api", "config", "mihomo", "provider", "check">> /\ r.method = "POST"
    BY <1>15 DEF Url, Gets
  <2>2. ServeHTTP(r, ok) = RouteConfig(r, ok, <<"provider", "check">>)
    BY <2>1, Subtrees
  <2> QED BY <2>1, <2>2 DEF RouteConfig, On
<1>16. ASSUME op = "logout" PROVE ServeHTTP(r, ok) = handleLogoutRequest(r, ok)
  <2>1. r.path = <<"admin", "api", "logout">> /\ r.method = "POST"
    BY <1>16 DEF Url, Gets
  <2> QED BY <2>1, Subtrees, Tails DEF RouteSession, On
<1> QED BY <1>1, <1>2, <1>3, <1>4, <1>5, <1>6, <1>7, <1>8, <1>9, <1>10, <1>11, <1>12, <1>13, <1>14, <1>15, <1>16

LEMMA Reached ==
    ASSUME NEW q, NEW r, NEW op \in Op, NEW draft, NEW arg, NEW ok \in BOOLEAN,
           q.op = op, q.draft = draft, q.arg = arg, r = Request(q)
    PROVE  Reaches(ServeHTTP(r, ok), op, draft, ok)
<1>2. q.op = op /\ q.draft = draft /\ q.arg = arg /\ r = Request(q)
  OBVIOUS
<1>4. r.path = Url(op) /\ r.method = IF op \in Gets THEN "GET" ELSE "POST"
  BY <1>2 DEF Request
<1>5. \A want : Decodes(want, Body(q)) /\ want.t # "none" => JsonBody(r, want)
  BY <1>2, Bodied
<1>6. CASE op = "nodesGet"
  <2>1. ServeHTTP(r, ok) = handleNodesGetRequest(r, ok)
    BY <1>6, <1>4, Trie
  <2> QED BY <1>6, <2>1, Handled DEF handleNodesGetRequest
<1>7. CASE op = "nodeSave"
  <2>1. ServeHTTP(r, ok) = handleNodeSaveRequest(r, ok)
    BY <1>7, <1>4, Trie
  <2>2. Body(q) = NodeBody(draft)
    BY <1>7, <1>2 DEF Body
  <2>3. NodeSaveReq.t # "none"
    BY DEF NodeSaveReq, Obj
  <2>4. draft # "malformed" => decodeNodeSaveRequest(r)
    BY <1>5, <2>2, <2>3, NodeBodies DEF decodeNodeSaveRequest
  <2>5. decodeNodeSaveRequest(r) \in BOOLEAN
    BY Booleans
  <2>6. decodeNodeSaveRequest(r) \/ Malformed(op, draft)
    BY <1>7, <2>4 DEF Malformed
  <2> QED BY <1>7, <2>1, <2>5, <2>6, Handled DEF handleNodeSaveRequest
<1>8. CASE op = "nodeDelete"
  <2>1. ServeHTTP(r, ok) = handleNodeDeleteRequest(r, ok)
    BY <1>8, <1>4, Trie
  <2>2. Body(q) = JObj([id |-> JInt])
    BY <1>8, <1>2 DEF Body
  <2>3. NodeDeleteReq.t # "none"
    BY DEF NodeDeleteReq, Obj
  <2>4. decodeNodeDeleteRequest(r)
    BY <1>5, <2>2, <2>3, Ids DEF decodeNodeDeleteRequest
  <2>5. decodeNodeDeleteRequest(r) \in BOOLEAN
    BY Booleans
  <2>6. decodeNodeDeleteRequest(r) \/ Malformed(op, draft)
    BY <1>8, <2>4 DEF Malformed
  <2> QED BY <1>8, <2>1, <2>5, <2>6, Handled DEF handleNodeDeleteRequest
<1>9. CASE op = "usersGet"
  <2>1. ServeHTTP(r, ok) = handleUsersGetRequest(r, ok)
    BY <1>9, <1>4, Trie
  <2>2. decodeUsersGetParams(r) /\ decodeUsersGetParams(r) \in BOOLEAN
    BY <1>9, <1>2, Queries, Booleans
  <2> QED BY <1>9, <2>1, <2>2, Handled DEF handleUsersGetRequest
<1>10. CASE op = "userCreate"
  <2>1. ServeHTTP(r, ok) = handleUserCreateRequest(r, ok)
    BY <1>10, <1>4, Trie
  <2>2. Body(q) = UserBody("userCreate")
    BY <1>10, <1>2 DEF Body
  <2>3. UserCreateReq.t # "none"
    BY DEF UserCreateReq, Obj
  <2>4. decodeUserCreateRequest(r)
    BY <1>5, <2>2, <2>3, UserBodies DEF decodeUserCreateRequest
  <2>5. decodeUserCreateRequest(r) \in BOOLEAN
    BY Booleans
  <2>6. decodeUserCreateRequest(r) \/ Malformed(op, draft)
    BY <1>10, <2>4 DEF Malformed
  <2> QED BY <1>10, <2>1, <2>5, <2>6, Handled DEF handleUserCreateRequest
<1>11. CASE op = "userEdit"
  <2>1. ServeHTTP(r, ok) = handleUserEditRequest(r, ok)
    BY <1>11, <1>4, Trie
  <2>2. Body(q) = UserBody("userEdit")
    BY <1>11, <1>2 DEF Body
  <2>3. UserEditReq.t # "none"
    BY DEF UserEditReq, Obj
  <2>4. decodeUserEditRequest(r)
    BY <1>5, <2>2, <2>3, UserBodies DEF decodeUserEditRequest
  <2>5. decodeUserEditRequest(r) \in BOOLEAN
    BY Booleans
  <2>6. decodeUserEditRequest(r) \/ Malformed(op, draft)
    BY <1>11, <2>4 DEF Malformed
  <2> QED BY <1>11, <2>1, <2>5, <2>6, Handled DEF handleUserEditRequest
<1>12. CASE op = "userDelete"
  <2>1. ServeHTTP(r, ok) = handleUserDeleteRequest(r, ok)
    BY <1>12, <1>4, Trie
  <2>2. Body(q) = JObj([id |-> JInt])
    BY <1>12, <1>2 DEF Body
  <2>3. UserDeleteReq.t # "none"
    BY DEF UserDeleteReq, Obj
  <2>4. decodeUserDeleteRequest(r)
    BY <1>5, <2>2, <2>3, Ids DEF decodeUserDeleteRequest
  <2>5. decodeUserDeleteRequest(r) \in BOOLEAN
    BY Booleans
  <2>6. decodeUserDeleteRequest(r) \/ Malformed(op, draft)
    BY <1>12, <2>4 DEF Malformed
  <2> QED BY <1>12, <2>1, <2>5, <2>6, Handled DEF handleUserDeleteRequest
<1>13. CASE op = "userRecreate"
  <2>1. ServeHTTP(r, ok) = handleUserRecreateRequest(r, ok)
    BY <1>13, <1>4, Trie
  <2>2. Body(q) = JObj([id |-> JInt])
    BY <1>13, <1>2 DEF Body
  <2>3. UserRecreateReq.t # "none"
    BY DEF UserRecreateReq, Obj
  <2>4. decodeUserRecreateRequest(r)
    BY <1>5, <2>2, <2>3, Ids DEF decodeUserRecreateRequest
  <2>5. decodeUserRecreateRequest(r) \in BOOLEAN
    BY Booleans
  <2>6. decodeUserRecreateRequest(r) \/ Malformed(op, draft)
    BY <1>13, <2>4 DEF Malformed
  <2> QED BY <1>13, <2>1, <2>5, <2>6, Handled DEF handleUserRecreateRequest
<1>14. CASE op = "configGet"
  <2>1. ServeHTTP(r, ok) = handleConfigGetRequest(r, ok)
    BY <1>14, <1>4, Trie
  <2>2. decodeConfigGetParams(r) /\ decodeConfigGetParams(r) \in BOOLEAN
    BY <1>14, <1>2, Queries, Booleans
  <2> QED BY <1>14, <2>1, <2>2, Handled DEF handleConfigGetRequest
<1>15. CASE op = "configSchema"
  <2>1. ServeHTTP(r, ok) = handleConfigSchemaRequest(r, ok)
    BY <1>15, <1>4, Trie
  <2> QED BY <1>15, <2>1, Handled DEF handleConfigSchemaRequest
<1>16. CASE op = "configCustoms"
  <2>1. ServeHTTP(r, ok) = handleConfigCustomsRequest(r, ok)
    BY <1>16, <1>4, Trie
  <2> QED BY <1>16, <2>1, Handled DEF handleConfigCustomsRequest
<1>17. CASE op = "configSave"
  <2>1. ServeHTTP(r, ok) = handleConfigSaveRequest(r, ok)
    BY <1>17, <1>4, Trie
  <2>2. Body(q) = ConfigBody(draft, arg)
    BY <1>17, <1>2 DEF Body
  <2>3. ConfigSaveReq.t # "none"
    BY DEF ConfigSaveReq, Obj
  <2>4. draft # "malformed" => decodeConfigSaveRequest(r)
    BY <1>5, <2>2, <2>3, ConfigBodies DEF decodeConfigSaveRequest
  <2>5. decodeConfigSaveRequest(r) \in BOOLEAN
    BY Booleans
  <2>6. decodeConfigSaveRequest(r) \/ Malformed(op, draft)
    BY <1>17, <2>4 DEF Malformed
  <2> QED BY <1>17, <2>1, <2>5, <2>6, Handled DEF handleConfigSaveRequest
<1>18. CASE op = "customCreate"
  <2>1. ServeHTTP(r, ok) = handleCustomCreateRequest(r, ok)
    BY <1>18, <1>4, Trie
  <2>2. Body(q) = JObj([userId |-> JInt])
    BY <1>18, <1>2 DEF Body
  <2>3. CustomCreateReq.t # "none"
    BY DEF CustomCreateReq, Obj
  <2>4. decodeCustomCreateRequest(r)
    BY <1>5, <2>2, <2>3, Ids DEF decodeCustomCreateRequest
  <2>5. decodeCustomCreateRequest(r) \in BOOLEAN
    BY Booleans
  <2>6. decodeCustomCreateRequest(r) \/ Malformed(op, draft)
    BY <1>18, <2>4 DEF Malformed
  <2> QED BY <1>18, <2>1, <2>5, <2>6, Handled DEF handleCustomCreateRequest
<1>19. CASE op = "customDelete"
  <2>1. ServeHTTP(r, ok) = handleCustomDeleteRequest(r, ok)
    BY <1>19, <1>4, Trie
  <2>2. Body(q) = JObj([userId |-> JInt])
    BY <1>19, <1>2 DEF Body
  <2>3. CustomDeleteReq.t # "none"
    BY DEF CustomDeleteReq, Obj
  <2>4. decodeCustomDeleteRequest(r)
    BY <1>5, <2>2, <2>3, Ids DEF decodeCustomDeleteRequest
  <2>5. decodeCustomDeleteRequest(r) \in BOOLEAN
    BY Booleans
  <2>6. decodeCustomDeleteRequest(r) \/ Malformed(op, draft)
    BY <1>19, <2>4 DEF Malformed
  <2> QED BY <1>19, <2>1, <2>5, <2>6, Handled DEF handleCustomDeleteRequest
<1>20. CASE op = "providerCheck"
  <2>1. ServeHTTP(r, ok) = handleProviderCheckRequest(r, ok)
    BY <1>20, <1>4, Trie
  <2>2. Body(q) = JObj([url |-> JStr, format |-> JStr])
    BY <1>20, <1>2 DEF Body
  <2>3. ProviderCheckReq.t # "none"
    BY DEF ProviderCheckReq, Obj
  <2>4. decodeProviderCheckRequest(r)
    BY <1>5, <2>2, <2>3, Checks DEF decodeProviderCheckRequest
  <2>5. decodeProviderCheckRequest(r) \in BOOLEAN
    BY Booleans
  <2>6. decodeProviderCheckRequest(r) \/ Malformed(op, draft)
    BY <1>20, <2>4 DEF Malformed
  <2> QED BY <1>20, <2>1, <2>5, <2>6, Handled DEF handleProviderCheckRequest
<1>21. CASE op = "logout"
  <2>1. ServeHTTP(r, ok) = handleLogoutRequest(r, ok)
    BY <1>21, <1>4, Trie
  <2> QED BY <1>21, <2>1 DEF handleLogoutRequest, Handle, Reaches
<1> QED BY <1>6, <1>7, <1>8, <1>9, <1>10, <1>11, <1>12, <1>13, <1>14, <1>15, <1>16, <1>17, <1>18, <1>19, <1>20, <1>21 DEF Op, Gets, Posts

LEMMA Routed ==
    ASSUME NEW op \in Op, NEW draft \in Draft, NEW arg \in Scope, NEW ok \in BOOLEAN
    PROVE  Reaches(Routing[[op |-> op, draft |-> draft, arg |-> arg, ok |-> ok]], op, draft, ok)
<1> DEFINE Q == [op : Op, draft : Draft, arg : Scope, ok : BOOLEAN]
           f == [q \in Q |-> ServeHTTP(Request(q), q.ok)]
           q == [op |-> op, draft |-> draft, arg |-> arg, ok |-> ok]
<1>1. Routing = f
  <2>1. Routing = CHOOSE g \in {f} : g = g
    BY DEF Routing
  <2> HIDE DEF f
  <2> QED BY <2>1
<1>2. q \in Q /\ q.op = op /\ q.draft = draft /\ q.ok = ok
  OBVIOUS
<1> HIDE DEF q, Q
<1>3. Routing[q] = ServeHTTP(Request(q), ok)
  BY <1>1, <1>2
<1>4. Reaches(Routing[q], op, draft, ok)
  BY <1>2, <1>3, Reached
<1> USE DEF q
<1> QED BY <1>4

(***************************************************************************)
(* The invariant.                                                             *)
(***************************************************************************)
Methods ==
    {"go", "gotoUserPage", "switchScope", "submitUser", "deleteUser", "recreateUser", "saveNode",
     "deleteNode", "saveConfig", "deleteCustom", "createCustom", "checkProvider", "logout"}
Tabs == {"users", "nodes", "config"}
Cookies == [secret : Nat, exp : Nat, till : Nat]

\* What a method has left to call after the one that is out.
Todos ==
    {<<>>, <<"usersGet">>, <<"nodesGet">>, <<"configSchema", "configCustoms", "configGet">>,
     <<"configCustoms", "configGet">>, <<"configGet">>}

\* How far the server is with a call.
Ats == {"sent", "in", "found", "stored"}

Requests == [op : Op, arg : Scope, cookie : Cookies, draft : Draft, from : Scope \cup {Blank}]
Answers == [status : Nat, rows : SUBSET User, customs : SUBSET User, total : 0..MaxUser]
Tasks ==
    [m : Methods, who : Scope, todo : Todos, ans : Answers, at : Ats, since : Nat, req : Requests,
     draft : Draft]
Orphans == [req : Requests, at : Ats, since : Nat]

Typed ==
    /\ now \in Nat /\ secret \in Nat /\ events \in Nat
    /\ born \in 0..MaxUser /\ people \subseteq 1..born /\ custom \subseteq User
    /\ jar \in Cookies
    /\ tab \in Tabs /\ scope \in Scope /\ shown \in Scope \cup {Blank}
    /\ userPage \in 1..MaxUser /\ total \in 0..MaxUser /\ schema \in BOOLEAN
    /\ tasks \in [Slots -> {Idle} \cup Tasks]
    /\ orphans \subseteq Orphans
    /\ page # "shell" => Quiet

\* A tab that shows what it should.
Table ==
    /\ rows.of = PageOf(userPage) /\ total = Cardinality(people) /\ TableReads \subseteq rows.fields
    /\ rows.of = {} => people = {}

Editor ==
    /\ shown = scope /\ rows.of = people /\ customs = custom
    /\ scope \in {Base} \cup custom

Settled == (tab = "users" => Table) /\ (tab = "config" => Editor)

\* The answer to a GET, when no handler fails and nothing is lost.
Fetches(t) == t.ans = NoAnswer \/ t.ans.status \in {200, 401}
Went(t) == t.ans.status \in 200..299

\* A user that is stored, with the panels still to come: the table shows what was.
Storing(t) == t.req.op = "userCreate" /\ t.at = "stored" /\ t.ans = NoAnswer

\* What the only method under way on the users tab is at.
ToTable(t) ==
    \/ t.req.op = "nodesGet" /\ t.todo = <<"usersGet">> /\ Fetches(t)
    \/ /\ t.req.op = "usersGet" /\ t.todo = <<>> /\ Fetches(t)
       /\ t.req.arg = userPage
       /\ Went(t) => t.ans.rows = PageOf(userPage) /\ t.ans.total = Cardinality(people)
    \/ /\ t.req.op \in {"userCreate", "userEdit", "userDelete", "userRecreate"} /\ t.todo = <<"usersGet">>
       /\ Went(t) \/ Table \/ Storing(t)
    \/ t.req.op = "logout" /\ t.todo = <<>> /\ Table

\* On the config tab.
ToEditor(t) ==
    \/ /\ t.req.op = "nodesGet" /\ t.todo = <<"configSchema", "configCustoms", "configGet">>
       /\ t.m = "go" /\ Fetches(t)
    \/ /\ t.req.op = "configSchema" /\ t.todo = <<"configCustoms", "configGet">>
       /\ t.m = "go" /\ Fetches(t)
    \/ /\ t.req.op = "configCustoms" /\ t.todo = <<"configGet">> /\ Fetches(t)
       /\ t.m \in {"go", "createCustom", "deleteCustom"}
       /\ t.m = "createCustom" => t.who \in custom
       /\ Went(t) => t.ans.rows = people /\ t.ans.customs = custom
    \/ /\ t.req.op = "configGet" /\ t.todo = <<>> /\ Fetches(t)
       /\ t.req.arg = scope /\ rows.of = people /\ customs = custom
       /\ scope \in {Base} \cup custom
    \/ /\ t.req.op = "customCreate" /\ t.todo = <<"configCustoms", "configGet">>
       /\ t.m = "createCustom" /\ t.req.arg = t.who
       /\ IF Went(t) THEN t.who \in custom ELSE Editor
    \/ /\ t.req.op = "customDelete" /\ t.todo = <<"configCustoms", "configGet">>
       /\ t.m = "deleteCustom"
       /\ Went(t) \/ Editor
    \/ t.req.op \in {"configSave", "providerCheck", "logout"} /\ t.todo = <<>> /\ Editor

OnWay(t) == (tab = "users" => ToTable(t)) /\ (tab = "config" => ToEditor(t))

Settling ==
    page = "shell" /\ clean =>
        /\ \A s, r \in Slots : tasks[s] # Idle /\ tasks[r] # Idle => s = r
        /\ Quiet => Settled
        /\ \A s \in Slots, t \in Tasks : tasks[s] = t => OnWay(t)

IInv == Typed /\ Settling

(***************************************************************************)
(* Types.                                                                     *)
(***************************************************************************)
LEMMA TaskCases ==
    ASSUME Typed, NEW s \in Slots, tasks[s] # Idle
    PROVE  tasks[s] \in Tasks
BY DEF Typed

LEMMA NotIdle == \A t \in Tasks : t # Idle
BY DEF Tasks, Idle, Methods

LEMMA CallTyped ==
    ASSUME Typed, NEW t, t.m \in Methods, t.who \in Scope, t.draft \in Draft,
           NEW calls, Head(calls) \in Op, Tail(calls) \in Todos, NEW sc \in Scope, NEW pg \in Scope
    PROVE  Call(t, calls, sc, pg) \in Tasks
<1>1. Arg(Head(calls), t.who, sc, pg) \in Scope
  BY DEF Arg
<1>2. NoAnswer \in Answers
  BY ConsoleAssumption DEF NoAnswer, Answers
<1>3. jar \in Cookies /\ shown \in Scope \cup {Blank} /\ Base \in Scope /\ "sent" \in Ats /\ 0 \in Nat
  BY DEF Typed, Scope, Ats
<1> QED BY <1>1, <1>2, <1>3 DEF Call, Tasks, Requests

LEMMA AbandonedTyped ==
    ASSUME Typed, NEW S \in SUBSET Slots
    PROVE  Abandoned(S) \subseteq Orphans
<1> SUFFICES ASSUME NEW s \in Slots, Out(s)
             PROVE  [req |-> tasks[s].req, at |-> tasks[s].at, since |-> tasks[s].since] \in Orphans
  BY DEF Abandoned
<1>1. tasks[s] \in Tasks
  BY TaskCases DEF Out
<1> QED BY <1>1 DEF Tasks, Orphans

LEMMA LeftTodos ==
    ASSUME NEW todo \in Todos, NEW have \in BOOLEAN
    PROVE  LET calls == Left(todo, have) IN
           calls # <<>> => Head(calls) \in Op /\ Tail(calls) \in Todos
<1>1. CASE todo = <<"configSchema", "configCustoms", "configGet">> /\ have
  BY <1>1 DEF Left, Todos, Op, Gets, Posts
<1>2. CASE ~(todo = <<"configSchema", "configCustoms", "configGet">> /\ have)
  <2>1. Left(todo, have) = todo
    BY <1>2 DEF Left, Todos
  <2>2. CASE todo = <<>>
    BY <2>1, <2>2
  <2>3. CASE todo \in {<<"usersGet">>, <<"nodesGet">>, <<"configGet">>}
    <3>1. PICK op \in Op : todo = <<op>>
      BY <2>3 DEF Op, Gets, Posts
    <3>2. Head(todo) = op /\ Tail(todo) = <<>>
      BY <3>1
    <3> QED BY <2>1, <3>2 DEF Todos
  <2>4. CASE todo = <<"configCustoms", "configGet">>
    BY <2>1, <2>4 DEF Todos, Op, Gets, Posts
  <2>5. CASE todo = <<"configSchema", "configCustoms", "configGet">>
    BY <2>1, <2>5 DEF Todos, Op, Gets, Posts
  <2> QED BY <2>2, <2>3, <2>4, <2>5 DEF Todos
<1> QED BY <1>1, <1>2

LEMMA Statuses ==
    /\ NoAnswer.status = 1
    /\ \A op \in Op : Encode(op)["OK"].status = IF op = "logout" THEN 204 ELSE 200
    /\ \A op \in {"configSave", "customCreate", "customDelete", "nodeDelete", "nodeSave", "providerCheck",
                  "userCreate", "userEdit"} : Encode(op)["BadRequest"].status = 400
    /\ \A op \in {"nodeSave", "userCreate"} : Encode(op)["Conflict"].status = 409
    /\ Encode("configGet")["NotFound"].status = 404
    /\ ErrorHandler("error").status = 500
    /\ Refused("SecurityError").status = 401 /\ Refused("DecodeRequestError").status = 400
<1>1. \A op \in Op : Encode(op)["OK"].status = IF op = "logout" THEN 204 ELSE 200
  BY DEF Op, Gets, Posts, Encode, Answer, Done, encodeConfigCustomsResponse, encodeConfigGetResponse,
         encodeConfigSaveResponse, encodeConfigSchemaResponse, encodeCustomCreateResponse,
         encodeCustomDeleteResponse, encodeLogoutResponse, encodeNodeDeleteResponse, encodeNodeSaveResponse,
         encodeNodesGetResponse, encodeProviderCheckResponse, encodeUserCreateResponse,
         encodeUserDeleteResponse, encodeUserEditResponse, encodeUserRecreateResponse, encodeUsersGetResponse
<1>2. \A op \in {"configSave", "customCreate", "customDelete", "nodeDelete", "nodeSave", "providerCheck",
                 "userCreate", "userEdit"} : Encode(op)["BadRequest"].status = 400
  BY DEF Encode, Answer, Bad, encodeConfigSaveResponse, encodeCustomCreateResponse,
         encodeCustomDeleteResponse, encodeNodeDeleteResponse, encodeNodeSaveResponse,
         encodeProviderCheckResponse, encodeUserCreateResponse, encodeUserEditResponse
<1>3. \A op \in {"nodeSave", "userCreate"} : Encode(op)["Conflict"].status = 409
  BY DEF Encode, Answer, Conflict, encodeNodeSaveResponse, encodeUserCreateResponse
<1>4. Encode("configGet")["NotFound"].status = 404
  BY DEF Encode, Answer, encodeConfigGetResponse
<1>5. /\ ErrorHandler("error").status = 500
      /\ Refused("SecurityError").status = 401 /\ Refused("DecodeRequestError").status = 400
  BY DEF ErrorHandler, Refused, Answer, Unauthorized, Bad
<1> QED BY <1>1, <1>2, <1>3, <1>4, <1>5 DEF NoAnswer

LEMMA ServesReaches ==
    ASSUME NEW q \in Requests
    PROVE  Reaches(Serves(q), q.op, q.draft, securityAdminSession(q.cookie))
<1>1. securityAdminSession(q.cookie) \in BOOLEAN
  BY DEF securityAdminSession
<1> QED BY <1>1, Routed DEF Serves, Requests

LEMMA ServedReaches ==
    ASSUME Typed, NEW s \in Slots, Out(s)
    PROVE  Reaches(Served(s), tasks[s].req.op, tasks[s].req.draft, securityAdminSession(tasks[s].req.cookie))
<1>1. tasks[s].req \in Requests
  BY TaskCases DEF Out, Tasks
<1> QED BY <1>1, ServesReaches DEF Served

LEMMA Understood == Typed => ContractHolds
<1> SUFFICES ASSUME Typed, NEW s \in Slots, Out(s)
             PROVE  LET h == Served(s) IN
                    /\ h.op = tasks[s].req.op
                    /\ h.stage = "call" \/ h.stage = "SecurityError"
                       \/ (h.stage = "DecodeRequestError" /\ Draft_(s) = "malformed")
  BY DEF ContractHolds
<1> QED BY ServedReaches DEF Reaches, Malformed, Draft_

(***************************************************************************)
(* What a step makes of the task of one slot.                                 *)
(***************************************************************************)
LEMMA OneMoves ==
    ASSUME Typed, Settling, NEW s \in Slots, NEW t \in {Idle} \cup Tasks,
           tasks' = [tasks EXCEPT ![s] = t],
           clean' /\ page' = "shell" =>
               /\ Quiet \/ (clean /\ page = "shell" /\ tasks[s] # Idle)
               /\ IF t = Idle THEN Settled' ELSE OnWay(t)'
    PROVE  Settling'
<1> SUFFICES ASSUME clean', page' = "shell"
             PROVE  /\ \A a, b \in Slots : tasks'[a] # Idle /\ tasks'[b] # Idle => a = b
                    /\ (\A a \in Slots : tasks'[a] = Idle) => Settled'
                    /\ \A a \in Slots, u \in Tasks : tasks'[a] = u => OnWay(u)'
  BY DEF Settling, Quiet
<1>1. tasks'[s] = t /\ \A a \in Slots : a # s => tasks'[a] = tasks[a]
  BY DEF Typed
<1>2. \A a \in Slots : a # s => tasks[a] = Idle
  BY DEF Settling, Quiet
<1>3. \A a \in Slots : tasks'[a] # Idle => a = s
  BY <1>1, <1>2
<1>4. ASSUME \A a \in Slots : tasks'[a] = Idle PROVE Settled'
  BY <1>1, <1>4
<1>5. ASSUME NEW a \in Slots, NEW u \in Tasks, tasks'[a] = u PROVE OnWay(u)'
  <2>1. u # Idle
    BY NotIdle
  <2>2. a = s /\ u = t
    BY <1>1, <1>3, <1>5, <2>1
  <2>3. OnWay(t)'
    BY <2>1, <2>2
  <2> QED BY <2>2, <2>3
<1> QED BY <1>3, <1>4, <1>5

LEMMA Begun ==
    ASSUME Typed, NEW s \in Slots, NEW m \in Methods, NEW who \in Scope, NEW draft \in Draft, NEW calls,
           Head(calls) \in Op, Tail(calls) \in Todos, NEW sc \in Scope, NEW pg \in Scope,
           Begin(s, m, who, draft, calls, sc, pg)
    PROVE  /\ page = "shell" /\ clean' \in BOOLEAN
           /\ UNCHANGED <<server, browser, events>>
           /\ clean' => Quiet /\ (clean \/ m = "go")
           /\ \E t \in Tasks :
                /\ tasks' = [tasks EXCEPT ![s] = t]
                /\ t.m = m /\ t.who = who /\ t.todo = Tail(calls) /\ t.ans = NoAnswer /\ t.at = "sent"
                /\ t.req.op = Head(calls) /\ t.req.arg = Arg(Head(calls), who, sc, pg)
<1> DEFINE p == [m |-> m, who |-> who, draft |-> draft]
<1>1. PICK t : t = Call(p, calls, sc, pg)
  OBVIOUS
<1>2. t \in Tasks
  BY <1>1, CallTyped
<1>3. tasks' = [tasks EXCEPT ![s] = t]
  BY <1>1 DEF Begin
<1>4. /\ t.m = m /\ t.who = who /\ t.todo = Tail(calls) /\ t.ans = NoAnswer /\ t.at = "sent"
      /\ t.req.op = Head(calls) /\ t.req.arg = Arg(Head(calls), who, sc, pg)
  BY <1>1 DEF Call
<1>5. page = "shell" /\ UNCHANGED <<server, browser, events>> /\ clean' \in BOOLEAN
  BY DEF Begin, Quiet
<1>6. clean' => Quiet /\ (clean \/ m = "go")
  BY DEF Begin
<1> QED BY <1>2, <1>3, <1>4, <1>5, <1>6

\* What GoOn makes of t, the task of the slot, at the calls that are left.
Continues(t, u, calls, sc, pg) ==
    IF calls = <<>> THEN u = Idle
    ELSE /\ u \in Tasks /\ u.m = t.m /\ u.who = t.who /\ u.todo = Tail(calls) /\ u.ans = NoAnswer
         /\ u.req.op = Head(calls) /\ u.req.arg = Arg(Head(calls), t.who, sc, pg)

LEMMA GoneOn ==
    ASSUME Typed, NEW s \in Slots, tasks[s] # Idle, NEW sc \in Scope, NEW pg \in Scope,
           NEW have \in BOOLEAN, GoOn(s, sc, pg, have)
    PROVE  \E u \in {Idle} \cup Tasks :
              /\ tasks' = [tasks EXCEPT ![s] = u]
              /\ Continues(tasks[s], u, Left(tasks[s].todo, have), sc, pg)
<1>1. tasks[s] \in Tasks
  BY TaskCases
<1>2. PICK calls : calls = Left(tasks[s].todo, have)
  OBVIOUS
<1>3. calls # <<>> => Head(calls) \in Op /\ Tail(calls) \in Todos
  BY <1>1, <1>2, LeftTodos DEF Tasks
<1>4. PICK u : u = IF calls = <<>> THEN Idle ELSE Call(tasks[s], calls, sc, pg)
  OBVIOUS
<1>5. tasks' = [tasks EXCEPT ![s] = u]
  BY <1>2, <1>4 DEF GoOn
<1>6. CASE calls = <<>>
  BY <1>2, <1>4, <1>5, <1>6 DEF Continues
<1>7. CASE calls # <<>>
  <2>1. u = Call(tasks[s], calls, sc, pg)
    BY <1>4, <1>7
  <2>2. u \in Tasks
    BY <2>1, <1>1, <1>3, <1>7, CallTyped DEF Tasks
  <2>3. Continues(tasks[s], u, calls, sc, pg)
    BY <2>1, <2>2, <1>7 DEF Continues, Call
  <2> QED BY <2>2, <2>3, <1>2, <1>5
<1> QED BY <1>6, <1>7

(***************************************************************************)
(* The methods.                                                               *)
(***************************************************************************)
\* What the SPA shows is as before, and so is what the server has.
Looks == <<people, custom, tab, scope, shown, customs, rows, userPage, total>>

LEMMA SameTable == UNCHANGED Looks => Table' = Table /\ Editor' = Editor /\ Settled' = Settled
BY DEF Looks, Table, Editor, Settled, PageOf, Rank

LEMMA Unanswered == \A t : t.ans = NoAnswer => Fetches(t) /\ ~Went(t)
BY DEF Fetches, Went, NoAnswer

LEMMA Starts ==
    ASSUME IInv, NEW s \in Slots, NEW m \in Methods, NEW who \in Scope, NEW draft \in Draft, NEW calls,
           Head(calls) \in Op, Tail(calls) \in Todos, NEW sc \in Scope, NEW pg \in Scope,
           Begin(s, m, who, draft, calls, sc, pg),
           tab' \in Tabs, scope' \in Scope, userPage' \in 1..MaxUser,
           UNCHANGED <<shown, customs, rows, total, schema>>,
           \A t : /\ Quiet /\ (clean \/ m = "go")
                  /\ t.m = m /\ t.who = who /\ t.todo = Tail(calls) /\ t.ans = NoAnswer
                  /\ t.req.op = Head(calls) /\ t.req.arg = Arg(Head(calls), who, sc, pg)
                  => OnWay(t)'
    PROVE  IInv'
<1> USE DEF IInv
<1>1. PICK t \in Tasks :
         /\ tasks' = [tasks EXCEPT ![s] = t]
         /\ t.m = m /\ t.who = who /\ t.todo = Tail(calls) /\ t.ans = NoAnswer
         /\ t.req.op = Head(calls) /\ t.req.arg = Arg(Head(calls), who, sc, pg)
  BY Begun
<1>2. /\ page = "shell" /\ clean' \in BOOLEAN
      /\ UNCHANGED <<server, browser, events>>
      /\ clean' => Quiet /\ (clean \/ m = "go")
  BY Begun
<1>3. Typed'
  BY <1>1, <1>2 DEF Typed, server, site, browser
<1>4. Settling'
  BY <1>1, <1>2, OneMoves, NotIdle
<1> QED BY <1>3, <1>4

\* A method that starts from a tab at rest.
LEMMA AtRest == IInv /\ page = "shell" /\ clean /\ Quiet => Settled
BY DEF IInv, Settling

LEMMA GoKeeps ==
    ASSUME IInv, NEW s \in Slots, NEW t0 \in Tabs, go(s, t0)
    PROVE  IInv'
<1>1. Begin(s, "go", Base, "good", load(t0), scope, userPage) /\ tab' = t0
      /\ UNCHANGED <<scope, shown, customs, rows, userPage, total, schema, busy>>
  BY DEF go
<1>2. /\ Base \in Scope /\ scope \in Scope /\ userPage \in Scope /\ "go" \in Methods /\ "good" \in Draft
      /\ userPage \in 1..MaxUser
  BY DEF IInv, Typed, Scope, User, Methods, Draft
<1>3. CASE t0 = "users"
  <2>1. load(t0) = <<"nodesGet", "usersGet">>
    BY <1>3 DEF load
  <2>2. Head(load(t0)) = "nodesGet" /\ Tail(load(t0)) = <<"usersGet">>
    BY <2>1
  <2>3. "nodesGet" \in Op /\ <<"usersGet">> \in Todos
    BY DEF Op, Gets, Todos
  <2>4. \A t : t.todo = <<"usersGet">> /\ t.req.op = "nodesGet" /\ t.ans = NoAnswer => OnWay(t)'
    BY <1>1, <1>3, Unanswered DEF OnWay, ToTable, Fetches
  <2> QED BY <1>1, <1>2, <2>2, <2>3, <2>4, Starts, <1>3 DEF IInv, Typed
<1>4. CASE t0 = "nodes"
  <2>1. load(t0) = <<"nodesGet">>
    BY <1>4 DEF load
  <2>2. Head(load(t0)) = "nodesGet" /\ Tail(load(t0)) = <<>>
    BY <2>1
  <2>3. "nodesGet" \in Op /\ <<>> \in Todos
    BY DEF Op, Gets, Todos
  <2>4. \A t : OnWay(t)'
    BY <1>1, <1>4 DEF OnWay
  <2> QED BY <1>1, <1>2, <2>2, <2>3, <2>4, Starts, <1>4
<1>5. CASE t0 = "config"
  <2>1. load(t0) = <<"nodesGet", "configSchema", "configCustoms", "configGet">>
    BY <1>5 DEF load
  <2>2. Head(load(t0)) = "nodesGet" /\ Tail(load(t0)) = <<"configSchema", "configCustoms", "configGet">>
    BY <2>1
  <2>3. "nodesGet" \in Op /\ <<"configSchema", "configCustoms", "configGet">> \in Todos
    BY DEF Op, Gets, Todos
  <2>4. \A t : /\ t.m = "go" /\ t.todo = <<"configSchema", "configCustoms", "configGet">>
               /\ t.req.op = "nodesGet" /\ t.ans = NoAnswer
               => OnWay(t)'
    BY <1>1, <1>5, Unanswered DEF OnWay, ToEditor, Fetches
  <2> QED BY <1>1, <1>2, <2>2, <2>3, <2>4, Starts, <1>5
<1> QED BY <1>3, <1>4, <1>5 DEF Tabs

LEMMA PageKeeps ==
    ASSUME IInv, NEW s \in Slots, NEW p \in 1..MaxUser, gotoUserPage(s, p)
    PROVE  IInv'
<1>1. /\ Begin(s, "gotoUserPage", Base, "good", <<"usersGet">>, scope, p)
      /\ tab = "users" /\ userPage' = p
      /\ UNCHANGED <<tab, scope, shown, customs, rows, total, schema, busy>>
  BY DEF gotoUserPage
<1>2. /\ Base \in Scope /\ scope \in Scope /\ p \in Scope /\ "gotoUserPage" \in Methods /\ "good" \in Draft
      /\ tab \in Tabs
  BY DEF IInv, Typed, Scope, User, Methods, Draft
<1>3. Head(<<"usersGet">>) = "usersGet" /\ Tail(<<"usersGet">>) = <<>> /\ "usersGet" \in Op /\ <<>> \in Todos
  BY DEF Op, Gets, Todos
<1>4. Arg("usersGet", Base, scope, p) = p
  BY DEF Arg
<1>5. \A t : t.todo = <<>> /\ t.req.op = "usersGet" /\ t.ans = NoAnswer /\ t.req.arg = p => OnWay(t)'
  BY <1>1, Unanswered DEF OnWay, ToTable, Fetches, Went
<1> QED BY <1>1, <1>2, <1>3, <1>4, <1>5, Starts

LEMMA ScopeKeeps ==
    ASSUME IInv, NEW s \in Slots, NEW sc \in Scope, switchScope(s, sc)
    PROVE  IInv'
<1>1. /\ Begin(s, "switchScope", Base, "good", <<"configGet">>, sc, userPage)
      /\ tab = "config" /\ scope' = sc /\ sc \in {Base} \cup customs
      /\ UNCHANGED <<tab, shown, customs, rows, userPage, total, schema, busy>>
  BY DEF switchScope
<1>2. /\ Base \in Scope /\ userPage \in Scope /\ "switchScope" \in Methods /\ "good" \in Draft
      /\ tab \in Tabs /\ userPage \in 1..MaxUser
  BY DEF IInv, Typed, Scope, User, Methods, Draft
<1>3. Head(<<"configGet">>) = "configGet" /\ Tail(<<"configGet">>) = <<>> /\ "configGet" \in Op /\ <<>> \in Todos
  BY DEF Op, Gets, Todos
<1>4. Arg("configGet", Base, sc, userPage) = sc
  BY DEF Arg
<1>5. page = "shell" /\ UNCHANGED <<people, custom>>
  BY <1>1 DEF Begin, server, site
<1>6. ASSUME NEW t, clean, Quiet, t.todo = <<>>, t.req.op = "configGet", t.ans = NoAnswer, t.req.arg = sc
      PROVE  OnWay(t)'
  <2>1. Editor
    BY <1>1, <1>5, <1>6, AtRest DEF Settled
  <2> QED BY <2>1, <1>1, <1>5, <1>6, Unanswered DEF OnWay, ToEditor, Fetches, Editor
<1> QED BY <1>1, <1>2, <1>3, <1>4, <1>6, Starts

LEMMA SameWay ==
    ASSUME UNCHANGED Looks
    PROVE  \A t : OnWay(t)' = OnWay(t)
<1>1. Table' = Table /\ Editor' = Editor
  BY SameTable
<1>2. \A p : PageOf(p)' = PageOf(p)
  BY DEF Looks, PageOf, Rank
<1>3. /\ tab' = tab /\ people' = people /\ custom' = custom /\ userPage' = userPage
      /\ scope' = scope /\ rows' = rows /\ customs' = customs
  BY DEF Looks
<1>4. ASSUME NEW t PROVE ToTable(t)' = ToTable(t)
  BY <1>1, <1>2, <1>3 DEF ToTable, Fetches, Went, Storing
<1>5. ASSUME NEW t PROVE ToEditor(t)' = ToEditor(t)
  BY <1>1, <1>2, <1>3 DEF ToEditor, Fetches, Went
<1> QED BY <1>3, <1>4, <1>5 DEF OnWay

\* A method that changes nothing of what is shown.
LEMMA StartsThere ==
    ASSUME IInv, NEW s \in Slots, NEW m \in Methods, m # "go", NEW who \in Scope, NEW draft \in Draft, NEW calls,
           Head(calls) \in Op, Tail(calls) \in Todos,
           Begin(s, m, who, draft, calls, scope, userPage),
           UNCHANGED <<tab, scope, shown, customs, rows, userPage, total, schema>>,
           \A t : /\ Settled
                  /\ t.m = m /\ t.who = who /\ t.todo = Tail(calls) /\ t.ans = NoAnswer
                  /\ t.req.op = Head(calls) /\ t.req.arg = Arg(Head(calls), who, scope, userPage)
                  => OnWay(t)
    PROVE  IInv'
<1>1. scope \in Scope /\ userPage \in Scope /\ userPage \in 1..MaxUser /\ tab \in Tabs
  BY DEF IInv, Typed, Scope, User
<1>2. page = "shell" /\ UNCHANGED <<people, custom>>
  BY DEF Begin, server, site
<1>3. UNCHANGED Looks
  BY <1>2 DEF Looks
<1>4. Quiet /\ clean => Settled
  BY <1>2, AtRest
<1>5. \A t : OnWay(t)' = OnWay(t)
  BY <1>3, SameWay
<1> QED BY <1>1, <1>4, <1>5, Starts

\* At rest, the task of a method that begins with op and goes on with todo is on its way.
Suits(m, who, op, todo) ==
    \A t : /\ Settled
           /\ t.m = m /\ t.who = who /\ t.todo = todo /\ t.ans = NoAnswer
           /\ t.req.op = op /\ t.req.arg = Arg(op, who, scope, userPage)
           => OnWay(t)

LEMMA Posted ==
    ASSUME IInv, NEW s \in Slots, NEW m \in Methods, m # "go", NEW who \in Scope, NEW draft \in Draft,
           NEW op \in Op, NEW todo \in Todos, NEW calls, Head(calls) = op, Tail(calls) = todo,
           Post(s, m, who, draft, calls), Suits(m, who, op, todo)
    PROVE  IInv'
BY StartsThere DEF Post, Suits

LEMMA UsersKeep ==
    ASSUME IInv, NEW s \in Slots,
           \/ \E u \in {0} \cup User, d \in Draft : submitUser(s, u, d)
           \/ \E u \in User : deleteUser(s, u) \/ recreateUser(s, u)
    PROVE  IInv'
<1>1. PICK m \in Methods, who \in Scope, d \in Draft,
           op \in {"userCreate", "userEdit", "userDelete", "userRecreate"} :
         tab = "users" /\ m # "go" /\ Post(s, m, who, d, <<op, "usersGet">>)
  <2>1. CASE \E u \in {0} \cup User, d \in Draft : submitUser(s, u, d)
    <3>1. PICK u \in {0} \cup User, d \in Draft : submitUser(s, u, d)
      BY <2>1
    <3>2. PICK op : op = IF u = 0 THEN "userCreate" ELSE "userEdit"
      OBVIOUS
    <3>3. tab = "users" /\ Post(s, "submitUser", u, d, <<op, "usersGet">>)
      BY <3>1, <3>2 DEF submitUser
    <3>4. u \in Scope /\ op \in {"userCreate", "userEdit", "userDelete", "userRecreate"}
      BY <3>2 DEF Scope, Base
    <3> QED BY <3>3, <3>4 DEF Methods
  <2>2. CASE \E u \in User : deleteUser(s, u) \/ recreateUser(s, u)
    <3>1. PICK u \in User : deleteUser(s, u) \/ recreateUser(s, u)
      BY <2>2
    <3>2. u \in Scope /\ "good" \in Draft /\ "deleteUser" \in Methods /\ "recreateUser" \in Methods
      BY DEF Scope, Draft, Methods
    <3>3. CASE deleteUser(s, u)
      <4>1. tab = "users" /\ Post(s, "deleteUser", u, "good", <<"userDelete", "usersGet">>)
        BY <3>3 DEF deleteUser
      <4> QED BY <4>1, <3>2
    <3>4. CASE recreateUser(s, u)
      <4>1. tab = "users" /\ Post(s, "recreateUser", u, "good", <<"userRecreate", "usersGet">>)
        BY <3>4 DEF recreateUser
      <4> QED BY <4>1, <3>2
    <3> QED BY <3>1, <3>3, <3>4
  <2> QED BY <2>1, <2>2
<1>2. op \in Op /\ <<"usersGet">> \in Todos
  BY DEF Op, Posts, Todos
<1>3. Head(<<op, "usersGet">>) = op /\ Tail(<<op, "usersGet">>) = <<"usersGet">>
  OBVIOUS
<1>4. Suits(m, who, op, <<"usersGet">>)
  BY <1>1 DEF Suits, Settled, OnWay, ToTable
<1> QED BY <1>1, <1>2, <1>3, <1>4, Posted

LEMMA NodesKeep ==
    ASSUME IInv, NEW s \in Slots, (\E d \in Draft : saveNode(s, d)) \/ deleteNode(s)
    PROVE  IInv'
<1>1. PICK m \in Methods, d \in Draft, op \in {"nodeSave", "nodeDelete"} :
         tab = "nodes" /\ m # "go" /\ Post(s, m, Base, d, <<op, "nodesGet">>)
  <2>1. CASE \E d \in Draft : saveNode(s, d)
    <3>1. "saveNode" \in Methods /\ "saveNode" # "go"
      BY DEF Methods
    <3> QED BY <2>1, <3>1 DEF saveNode
  <2>2. CASE deleteNode(s)
    <3>1. "deleteNode" \in Methods /\ "deleteNode" # "go" /\ "good" \in Draft
      BY DEF Methods, Draft
    <3> QED BY <2>2, <3>1 DEF deleteNode
  <2> QED BY <2>1, <2>2
<1>2. op \in Op /\ <<"nodesGet">> \in Todos /\ Base \in Scope
  BY DEF Op, Posts, Todos, Scope
<1>3. Head(<<op, "nodesGet">>) = op /\ Tail(<<op, "nodesGet">>) = <<"nodesGet">>
  OBVIOUS
<1>4. Suits(m, Base, op, <<"nodesGet">>)
  BY <1>1 DEF Suits, OnWay
<1> QED BY <1>1, <1>2, <1>3, <1>4, Posted

LEMMA ConfigKeep ==
    ASSUME IInv, NEW s \in Slots, (\E d \in Draft : saveConfig(s, d)) \/ deleteCustom(s)
    PROVE  IInv'
<1>1. CASE \E d \in Draft : saveConfig(s, d)
  <2>1. PICK d \in Draft : tab = "config" /\ Post(s, "saveConfig", Base, d, <<"configSave">>)
    BY <1>1 DEF saveConfig
  <2>2. /\ "saveConfig" \in Methods /\ "configSave" \in Op /\ <<>> \in Todos /\ Base \in Scope
        /\ Head(<<"configSave">>) = "configSave" /\ Tail(<<"configSave">>) = <<>>
    BY DEF Methods, Op, Posts, Todos, Scope
  <2>3. Suits("saveConfig", Base, "configSave", <<>>)
    BY <2>1 DEF Suits, Settled, OnWay, ToEditor
  <2> QED BY <2>1, <2>2, <2>3, Posted
<1>2. CASE deleteCustom(s)
  <2>1. tab = "config" /\ Post(s, "deleteCustom", scope, "good", <<"customDelete", "configCustoms", "configGet">>)
    BY <1>2 DEF deleteCustom
  <2>2. /\ "deleteCustom" \in Methods /\ "customDelete" \in Op /\ <<"configCustoms", "configGet">> \in Todos
        /\ "good" \in Draft
        /\ Head(<<"customDelete", "configCustoms", "configGet">>) = "customDelete"
        /\ Tail(<<"customDelete", "configCustoms", "configGet">>) = <<"configCustoms", "configGet">>
    BY DEF Methods, Op, Posts, Todos, Draft
  <2>3. Suits("deleteCustom", scope, "customDelete", <<"configCustoms", "configGet">>)
    BY <2>1 DEF Suits, Settled, OnWay, ToEditor
  <2>4. scope \in Scope
    BY DEF IInv, Typed
  <2> QED BY <2>1, <2>2, <2>3, <2>4, Posted
<1> QED BY <1>1, <1>2

LEMMA CustomKeeps ==
    ASSUME IInv, NEW s \in Slots, NEW u \in User, createCustom(s, u)
    PROVE  IInv'
<1>1. /\ tab = "config"
      /\ Begin(s, "createCustom", u, "good", <<"customCreate", "configCustoms", "configGet">>, scope, userPage)
      /\ UNCHANGED <<tab, scope, shown, customs, rows, userPage, total, schema>>
  BY DEF createCustom
<1>2. /\ "createCustom" \in Methods /\ "customCreate" \in Op /\ <<"configCustoms", "configGet">> \in Todos
      /\ "good" \in Draft /\ u \in Scope
      /\ Head(<<"customCreate", "configCustoms", "configGet">>) = "customCreate"
      /\ Tail(<<"customCreate", "configCustoms", "configGet">>) = <<"configCustoms", "configGet">>
  BY DEF Methods, Op, Posts, Todos, Draft, Scope
<1>3. Arg("customCreate", u, scope, userPage) = u
  BY DEF Arg
<1>4. \A t : /\ Settled /\ t.todo = <<"configCustoms", "configGet">> /\ t.req.op = "customCreate"
             /\ t.m = "createCustom" /\ t.who = u /\ t.req.arg = u /\ t.ans = NoAnswer
             => OnWay(t)
  BY <1>1, Unanswered DEF Settled, OnWay, ToEditor
<1> QED BY <1>1, <1>2, <1>3, <1>4, StartsThere

LEMMA OthersKeep ==
    ASSUME IInv, NEW s \in Slots, checkProvider(s) \/ logout(s)
    PROVE  IInv'
<1>1. PICK m \in Methods, op \in {"providerCheck", "logout"} :
         /\ Begin(s, m, Base, "good", <<op>>, scope, userPage) /\ m # "go"
         /\ op = "providerCheck" => tab = "config"
         /\ UNCHANGED <<tab, scope, shown, customs, rows, userPage, total, schema>>
  <2>1. "checkProvider" \in Methods /\ "logout" \in Methods
    BY DEF Methods
  <2>2. CASE checkProvider(s)
    BY <2>1, <2>2 DEF checkProvider, view
  <2>3. CASE logout(s)
    BY <2>1, <2>3 DEF logout, view
  <2> QED BY <2>2, <2>3
<1>2. op \in Op /\ <<>> \in Todos /\ Base \in Scope /\ "good" \in Draft
  BY DEF Op, Todos, Scope, Draft
<1>3. Head(<<op>>) = op /\ Tail(<<op>>) = <<>>
  OBVIOUS
<1>4. \A t : Settled /\ t.todo = <<>> /\ t.req.op = op => OnWay(t)
  BY <1>1 DEF Settled, OnWay, ToTable, ToEditor
<1> QED BY <1>1, <1>2, <1>3, <1>4, StartsThere

LEMMA MethodKeeps ==
    ASSUME IInv, NEW s \in Slots, Method(s)
    PROVE  IInv'
BY GoKeeps, PageKeeps, ScopeKeeps, UsersKeep, NodesKeep, ConfigKeep, CustomKeeps, OthersKeep DEF Method, Tabs

(***************************************************************************)
(* The handlers.                                                              *)
(***************************************************************************)
\* What an answer a to the call of task o tells, when its handler does not fail.
Effect(o, a) ==
    /\ o.req.op \in Gets \cup {"configSave", "providerCheck", "logout"} \/ a.status \notin 200..299
         => UNCHANGED <<people, custom>>
    /\ o.req.op \in {"nodesGet", "configSchema", "usersGet", "configCustoms"} => a.status \in {200, 401}
    /\ o.req.op = "configGet" /\ o.req.arg \in {Base} \cup custom => a.status \in {200, 401}
    /\ o.req.op = "usersGet" /\ a.status = 200 => a.rows = PageOf(o.req.arg) /\ a.total = Cardinality(people)
    /\ o.req.op = "configCustoms" /\ a.status = 200 => a.rows = people /\ a.customs = custom
    /\ o.req.op = "customCreate" /\ a.status \in 200..299 => o.req.arg \in custom'
    /\ o.req.op = "userCreate" /\ o.at = "stored" => a.status \in 200..299

Tells(s, st, r, c, n) ==
    clean' => /\ clean /\ tasks[s].ans = NoAnswer
              /\ Effect(tasks[s], [status |-> st, rows |-> r, customs |-> c, total |-> n])

\* Whose step changes users or custom configs.
Changes(s) == people' # people \/ custom' # custom => Inside(s) /\ tasks[s].req.op \in Writers

\* What the server or the network answers to the call of slot s.
Replied(s) ==
    /\ page = "shell" /\ tasks[s] # Idle
    /\ \E a \in Answers :
         /\ a.status # 1
         /\ tasks' = [tasks EXCEPT ![s].ans = a]
         /\ clean' => clean /\ tasks[s].ans = NoAnswer /\ Effect(tasks[s], a)
    /\ UNCHANGED <<now, secret, browser, view>>
    /\ orphans' \in {orphans, orphans \cup Abandoned({s})}
    /\ born' \in 0..MaxUser /\ people' \subseteq 1..born' /\ custom' \subseteq User /\ events' \in Nat
    /\ Changes(s)

LEMMA Counted ==
    ASSUME Typed
    PROVE  /\ people \subseteq User /\ IsFiniteSet(people) /\ Cardinality(people) \in 0..MaxUser
           /\ \A p : PageOf(p) \subseteq User /\ PageOf(p) \subseteq people
<1>1. people \subseteq 1..born /\ born \in 0..MaxUser
  BY DEF Typed
<1>2. people \subseteq 1..MaxUser
  BY <1>1, ConsoleAssumption
<1>3. IsFiniteSet(1..MaxUser) /\ Cardinality(1..MaxUser) = MaxUser
  BY ConsoleAssumption, FS_Interval
<1>4. IsFiniteSet(people) /\ Cardinality(people) <= MaxUser /\ Cardinality(people) \in Nat
  BY <1>2, <1>3, FS_Subset, FS_CardinalityType
<1>5. Cardinality(people) \in 0..MaxUser
  BY <1>4, ConsoleAssumption
<1>6. \A p : PageOf(p) \subseteq people
  BY DEF PageOf
<1> QED BY <1>2, <1>4, <1>5, <1>6 DEF User

LEMMA Replies ==
    ASSUME Typed, NEW s \in Slots, page = "shell", tasks[s] # Idle,
           NEW st \in Nat, NEW r \in SUBSET User, NEW c \in SUBSET User, NEW n \in 0..MaxUser,
           AnswerWith(s, st, r, c, n), st # 1,
           UNCHANGED <<now, secret, browser, view>>, orphans' \in {orphans, orphans \cup Abandoned({s})},
           born' \in 0..MaxUser, people' \subseteq 1..born', custom' \subseteq User, events' \in Nat,
           Tells(s, st, r, c, n), Changes(s)
    PROVE  Replied(s)
<1>1. PICK a : a = [status |-> st, rows |-> r, customs |-> c, total |-> n]
  OBVIOUS
<1>2. a \in Answers /\ a.status # 1
  BY <1>1 DEF Answers
<1>3. tasks' = [tasks EXCEPT ![s].ans = a]
  BY <1>1 DEF AnswerWith
<1>4. clean' => clean /\ tasks[s].ans = NoAnswer /\ Effect(tasks[s], a)
  BY <1>1 DEF Tells
<1> QED BY <1>2, <1>3, <1>4 DEF Replied

\* The site is as before: all that is needed of an answer.
LEMMA RepliesOnly ==
    ASSUME Typed, NEW s \in Slots, page = "shell", tasks[s] # Idle,
           NEW st \in Nat, NEW r \in SUBSET User, NEW c \in SUBSET User, NEW n \in 0..MaxUser,
           AnswerWith(s, st, r, c, n), st # 1,
           UNCHANGED <<site, browser, view>>, orphans' \in {orphans, orphans \cup Abandoned({s})},
           events' \in Nat, Tells(s, st, r, c, n)
    PROVE  Replied(s)
<1>1. /\ UNCHANGED <<now, secret>> /\ Changes(s)
      /\ born' \in 0..MaxUser /\ people' \subseteq 1..born' /\ custom' \subseteq User
  BY DEF site, Typed, Changes
<1> QED BY <1>1, Replies

LEMMA Nothing == {} \in SUBSET User /\ 0 \in 0..MaxUser
BY ConsoleAssumption

LEMMA LostReplies ==
    ASSUME Typed, NEW s \in Slots, Lost(s)
    PROVE  Replied(s)
<1>1. /\ page = "shell" /\ tasks[s] # Idle /\ AnswerWith(s, 0, {}, {}, 0)
      /\ UNCHANGED <<site, browser, view>> /\ orphans' = orphans \cup Abandoned({s}) /\ ~clean'
  BY DEF Lost, LostStatus
<1>2. events' \in Nat
  BY DEF Lost, Event, Typed
<1>3. Tells(s, 0, {}, {}, 0)
  BY <1>1 DEF Tells
<1> QED BY <1>1, <1>2, <1>3, Nothing, RepliesOnly

LEMMA FailsReplies ==
    ASSUME Typed, NEW s \in Slots, Fails(s)
    PROVE  Replied(s)
<1>1. /\ page = "shell" /\ tasks[s] # Idle /\ AnswerWith(s, 500, {}, {}, 0)
      /\ UNCHANGED <<server, browser, view>> /\ ~clean'
  BY Statuses DEF Fails, Inside, Out
<1>2. events' \in Nat
  BY DEF Fails, Event, Typed
<1>3. Tells(s, 500, {}, {}, 0)
  BY <1>1 DEF Tells
<1> QED BY <1>1, <1>2, <1>3, Nothing, RepliesOnly DEF server

LEMMA StoppedReplies ==
    ASSUME Typed, NEW s \in Slots, Stopped(s)
    PROVE  Replied(s)
<1>1. /\ page = "shell" /\ tasks[s] # Idle /\ tasks[s].ans = NoAnswer /\ tasks[s].at = "sent"
      /\ UNCHANGED <<site, orphans, browser, view>> /\ clean' = clean /\ events' \in Nat
  BY DEF Stopped, Sent, Out, bounds, server, Typed
<1>2. Reaches(Served(s), tasks[s].req.op, tasks[s].req.draft, securityAdminSession(tasks[s].req.cookie))
  BY ServedReaches DEF Stopped, Sent
<1>3. UNCHANGED <<people, custom>>
  BY <1>1 DEF site
<1>4. CASE Served(s).stage = "SecurityError"
  <2>1. AnswerWith(s, 401, {}, {}, 0)
    BY <1>4, Statuses DEF Stopped
  <2>2. Tells(s, 401, {}, {}, 0)
    BY <1>1, <1>3 DEF Tells, Effect
  <2> QED BY <1>1, <2>1, <2>2, Nothing, RepliesOnly
<1>5. CASE Served(s).stage = "DecodeRequestError" /\ Malformed(tasks[s].req.op, tasks[s].req.draft)
  <2>1. AnswerWith(s, 400, {}, {}, 0)
    BY <1>5, Statuses DEF Stopped
  <2>2. Tells(s, 400, {}, {}, 0)
    BY <1>1, <1>3, <1>5 DEF Tells, Effect, Malformed
  <2> QED BY <1>1, <2>1, <2>2, Nothing, RepliesOnly
<1> QED BY <1>2, <1>4, <1>5 DEF Reaches, Stopped

LEMMA RunsWhat ==
    ASSUME Typed, NEW s \in Slots, NEW op, Runs(s, op)
    PROVE  /\ page = "shell" /\ tasks[s] # Idle /\ tasks[s].ans = NoAnswer /\ Inside(s)
           /\ tasks[s].req.op = op /\ op \in Op /\ Served(s).op = op
<1>1. Inside(s) /\ Out(s) /\ Served(s).op = op
  BY DEF Runs, Inside
<1>2. Reaches(Served(s), tasks[s].req.op, tasks[s].req.draft, securityAdminSession(tasks[s].req.cookie))
  BY <1>1, ServedReaches
<1>3. tasks[s] \in Tasks
  BY <1>1, TaskCases DEF Out
<1>4. tasks[s].req.op = op
  BY <1>1, <1>2 DEF Reaches
<1>5. op \in Op
  BY <1>3, <1>4 DEF Tasks, Requests
<1> QED BY <1>1, <1>4, <1>5 DEF Out

LEMMA UsersGetReplies ==
    ASSUME Typed, NEW s \in Slots, UsersGet(s)
    PROVE  Replied(s)
<1>1. Runs(s, "usersGet") /\ UNCHANGED <<site, orphans, browser, view>> /\ clean' = clean /\ events' = events
  BY DEF UsersGet, ReadOnly, server, bounds
<1>2. PICK st, r, n : st = 200 /\ r = PageOf(Arg_(s)) /\ n = Cardinality(people)
  OBVIOUS
<1>3. AnswerWith(s, st, r, {}, n)
  BY <1>2 DEF UsersGet, encodeUsersGetResponse, Answer
<1>4. /\ page = "shell" /\ tasks[s] # Idle /\ tasks[s].ans = NoAnswer
      /\ tasks[s].req.op = "usersGet"
  BY <1>1, RunsWhat
<1>5. Tells(s, st, r, {}, n)
  BY <1>1, <1>2, <1>4 DEF Tells, Effect, Arg_, site, Gets
<1>6. r \in SUBSET User /\ n \in 0..MaxUser /\ events' \in Nat
  BY <1>1, <1>2, Counted DEF Typed
<1> QED BY <1>1, <1>2, <1>3, <1>4, <1>5, <1>6, Nothing, RepliesOnly

LEMMA CustomsReplies ==
    ASSUME Typed, NEW s \in Slots, ConfigCustoms(s)
    PROVE  Replied(s)
<1>1. Runs(s, "configCustoms") /\ UNCHANGED <<site, orphans, browser, view>> /\ clean' = clean /\ events' = events
  BY DEF ConfigCustoms, ReadOnly, server, bounds
<1>2. AnswerWith(s, 200, people, custom, 0)
  BY DEF ConfigCustoms, encodeConfigCustomsResponse, Answer
<1>3. /\ page = "shell" /\ tasks[s] # Idle /\ tasks[s].ans = NoAnswer
      /\ tasks[s].req.op = "configCustoms"
  BY <1>1, RunsWhat
<1>4. Tells(s, 200, people, custom, 0)
  BY <1>1, <1>3 DEF Tells, Effect, site, Gets
<1>5. people \in SUBSET User /\ custom \in SUBSET User /\ events' \in Nat
  BY <1>1, Counted DEF Typed
<1> QED BY <1>1, <1>2, <1>3, <1>4, <1>5, Nothing, RepliesOnly

\* A handler that only reads, and answers with a status.
LEMMA ReadReplies ==
    ASSUME Typed, NEW s \in Slots, NEW op, Runs(s, op), ReadOnly, NEW st \in {200, 204, 400, 404, 409},
           AnswerWith(s, st, {}, {}, 0),
           op \in {"nodesGet", "configSchema"} => st = 200,
           op = "configGet" /\ tasks[s].req.arg \in {Base} \cup custom => st = 200,
           op \notin {"usersGet", "configCustoms"},
           op = "customCreate" => st # 200 /\ st # 204,
           op = "userCreate" /\ tasks[s].at = "stored" => st = 200
    PROVE  Replied(s)
<1>1. UNCHANGED <<site, orphans, browser, view>> /\ clean' = clean /\ events' = events
  BY DEF ReadOnly, server, bounds
<1>2. /\ page = "shell" /\ tasks[s] # Idle /\ tasks[s].ans = NoAnswer
      /\ tasks[s].req.op = op
  BY RunsWhat
<1>3. Tells(s, st, {}, {}, 0)
  BY <1>1, <1>2 DEF Tells, Effect, site
<1>4. events' \in Nat
  BY <1>1 DEF Typed
<1> QED BY <1>1, <1>2, <1>3, <1>4, Nothing, RepliesOnly

\* The status of a reply.
LEMMA ReplySays ==
    ASSUME Typed, NEW s \in Slots, NEW op, Runs(s, op), NEW o, Reply(s, o)
    PROVE  AnswerWith(s, Encode(op)[o].status, {}, {}, 0) /\ op \in Op
BY RunsWhat DEF Reply

LEMMA ReadersReply ==
    ASSUME Typed, NEW s \in Slots,
           \/ NodesGet(s) \/ ConfigSchema(s) \/ ConfigGet(s) \/ ConfigSave(s) \/ UserCreate(s) \/ UserEdit(s)
           \/ UserRecreate(s) \/ NodeSave(s) \/ NodeDelete(s) \/ ProviderCheck(s) \/ Logout(s)
    PROVE  Replied(s)
<1>1. CASE NodesGet(s)
  <2>1. Runs(s, "nodesGet") /\ Reply(s, "OK") /\ ReadOnly
    BY <1>1 DEF NodesGet
  <2>2. AnswerWith(s, 200, {}, {}, 0)
    BY <2>1, ReplySays, Statuses
  <2> QED BY <2>1, <2>2, ReadReplies
<1>2. CASE ConfigSchema(s)
  <2>1. Runs(s, "configSchema") /\ Reply(s, "OK") /\ ReadOnly
    BY <1>2 DEF ConfigSchema
  <2>2. AnswerWith(s, 200, {}, {}, 0)
    BY <2>1, ReplySays, Statuses
  <2> QED BY <2>1, <2>2, ReadReplies
<1>3. CASE ConfigGet(s)
  <2>1. Runs(s, "configGet") /\ ReadOnly
        /\ Reply(s, IF Arg_(s) = Base \/ Arg_(s) \in custom THEN "OK" ELSE "NotFound")
    BY <1>3 DEF ConfigGet
  <2>2. PICK st : st = IF Arg_(s) = Base \/ Arg_(s) \in custom THEN 200 ELSE 404
    OBVIOUS
  <2>3. AnswerWith(s, st, {}, {}, 0)
    BY <2>1, <2>2, ReplySays, Statuses
  <2> QED BY <2>1, <2>2, <2>3, ReadReplies DEF Arg_
<1>4. CASE ConfigSave(s)
  <2>1. Runs(s, "configSave") /\ ReadOnly
    BY <1>4 DEF ConfigSave
  <2>2. PICK o \in {"OK", "BadRequest"} : Reply(s, o)
    BY <1>4 DEF ConfigSave
  <2>3. PICK st \in {200, 400} : AnswerWith(s, st, {}, {}, 0)
    BY <2>1, <2>2, ReplySays, Statuses
  <2> QED BY <2>1, <2>3, ReadReplies
<1>5. CASE UserEdit(s)
  <2>1. Runs(s, "userEdit") /\ ReadOnly
    BY <1>5 DEF UserEdit
  <2>2. PICK o \in {"OK", "BadRequest"} : Reply(s, o)
    BY <1>5 DEF UserEdit
  <2>3. PICK st \in {200, 400} : AnswerWith(s, st, {}, {}, 0)
    BY <2>1, <2>2, ReplySays, Statuses
  <2> QED BY <2>1, <2>3, ReadReplies
<1>6. CASE UserRecreate(s)
  <2>1. Runs(s, "userRecreate") /\ Reply(s, "OK") /\ ReadOnly
    BY <1>6 DEF UserRecreate
  <2>2. AnswerWith(s, 200, {}, {}, 0)
    BY <2>1, ReplySays, Statuses
  <2> QED BY <2>1, <2>2, ReadReplies
<1>7. CASE NodeSave(s)
  <2>1. Runs(s, "nodeSave") /\ ReadOnly
    BY <1>7 DEF NodeSave
  <2>2. PICK o \in {"OK", "BadRequest", "Conflict"} : Reply(s, o)
    BY <1>7 DEF NodeSave
  <2>3. PICK st \in {200, 400, 409} : AnswerWith(s, st, {}, {}, 0)
    BY <2>1, <2>2, ReplySays, Statuses
  <2> QED BY <2>1, <2>3, ReadReplies
<1>8. CASE NodeDelete(s) \/ ProviderCheck(s)
  <2>1. PICK op \in {"nodeDelete", "providerCheck"} : Runs(s, op) /\ ReadOnly /\ \E o \in {"OK", "BadRequest"} : Reply(s, o)
    BY <1>8 DEF NodeDelete, ProviderCheck
  <2>2. PICK o \in {"OK", "BadRequest"} : Reply(s, o)
    BY <2>1
  <2>3. PICK st \in {200, 400} : AnswerWith(s, st, {}, {}, 0)
    BY <2>1, <2>2, ReplySays, Statuses
  <2> QED BY <2>1, <2>3, ReadReplies
<1>9. CASE Logout(s)
  <2>1. Runs(s, "logout") /\ Reply(s, "OK") /\ ReadOnly
    BY <1>9 DEF Logout
  <2>2. AnswerWith(s, 204, {}, {}, 0)
    BY <2>1, ReplySays, Statuses
  <2> QED BY <2>1, <2>2, ReadReplies
<1>10. CASE UserCreate(s)
  <2>1. Runs(s, "userCreate") /\ ReadOnly
    BY <1>10 DEF UserCreate
  <2>2. CASE tasks[s].at = "stored" /\ Reply(s, "OK")
    <3>1. AnswerWith(s, 200, {}, {}, 0)
      BY <2>1, <2>2, ReplySays, Statuses
    <3> QED BY <2>1, <3>1, ReadReplies
  <2>3. CASE tasks[s].at = "in" /\ \E o \in {"BadRequest", "Conflict"} : Reply(s, o)
    <3>1. PICK o \in {"BadRequest", "Conflict"} : Reply(s, o)
      BY <2>3
    <3>2. PICK st \in {400, 409} : AnswerWith(s, st, {}, {}, 0)
      BY <2>1, <3>1, ReplySays, Statuses
    <3> QED BY <2>1, <2>3, <3>2, ReadReplies
  <2> QED BY <1>10, <2>2, <2>3 DEF UserCreate
<1> QED BY <1>1, <1>2, <1>3, <1>4, <1>5, <1>6, <1>7, <1>8, <1>9, <1>10

\* What the call of a task, or one that was left behind, makes of users and custom configs.
LEMMA WriteWhat ==
    ASSUME Typed, NEW t, t.req \in Requests, Write(t)
    PROVE  /\ born' \in 0..MaxUser /\ people' \subseteq 1..born' /\ custom' \subseteq User
           /\ t.req.op \in Writers
           /\ t.req.op = "userCreate" => custom' = custom
           /\ t.req.op = "customCreate" =>
                /\ t.req.arg \in people /\ custom' = custom \cup {t.req.arg} /\ people' = people
           /\ t.req.op = "customDelete" => custom' = custom \ {t.req.arg} /\ people' = people
<1>0. people \subseteq 1..born /\ born \in 0..MaxUser /\ custom \subseteq User /\ MaxUser \in Nat
      /\ people \subseteq User
  BY ConsoleAssumption, Counted DEF Typed
<1>1. PICK op, u : op = t.req.op /\ u = t.req.arg /\ op = Serves(t.req).op
  BY ServesReaches DEF Reaches
<1>2. CASE op = "customCreate" /\ u \in people /\ custom' = custom \cup {u} /\ UNCHANGED <<people, born>>
  <2>1. custom' \subseteq User
    BY <1>0, <1>2
  <2> QED BY <1>0, <1>1, <1>2, <2>1 DEF Writers
<1>3. CASE op = "customDelete" /\ custom' = custom \ {u} /\ UNCHANGED <<people, born>>
  BY <1>0, <1>1, <1>3 DEF Writers
<1>4. CASE /\ op = "userCreate" /\ t.at = "in" /\ t.req.draft = "good" /\ born < MaxUser
           /\ born' = born + 1 /\ people' = people \cup {born + 1} /\ UNCHANGED custom
  <2>1. born' \in 0..MaxUser /\ people' \subseteq 1..born'
    BY <1>0, <1>4
  <2> QED BY <1>0, <1>1, <1>4, <2>1 DEF Writers
<1>5. CASE op = "userDelete" /\ people' = people \ {u} /\ custom' = custom \ {u} /\ UNCHANGED born
  BY <1>0, <1>1, <1>5 DEF Writers
<1> QED BY <1>1, <1>2, <1>3, <1>4, <1>5 DEF Write

\* A handler that writes, and answers: st tells whether it did.
LEMMA WriteReplies ==
    ASSUME Typed, NEW s \in Slots, NEW op \in {"customCreate", "customDelete", "userDelete"},
           Runs(s, op), Write(tasks[s]), Writes, NEW st \in {200, 400},
           AnswerWith(s, st, {}, {}, 0), st = 400 => people' = people /\ custom' = custom
    PROVE  Replied(s)
<1>1. UNCHANGED <<now, secret, orphans, browser, view>> /\ clean' = clean /\ events' = events
  BY DEF Writes, bounds
<1>2. /\ page = "shell" /\ tasks[s] # Idle /\ tasks[s].ans = NoAnswer /\ Inside(s)
      /\ tasks[s].req.op = op
  BY RunsWhat
<1>3. tasks[s].req \in Requests
  BY <1>2, TaskCases DEF Tasks
<1>4. /\ born' \in 0..MaxUser /\ people' \subseteq 1..born' /\ custom' \subseteq User
      /\ op = "customCreate" => tasks[s].req.arg \in custom'
  BY <1>2, <1>3, WriteWhat
<1>5. Tells(s, st, {}, {}, 0)
  BY <1>1, <1>2, <1>4 DEF Tells, Effect, Gets
<1>6. events' \in Nat /\ Changes(s)
  BY <1>1, <1>2 DEF Typed, Changes, Writers
<1> QED BY <1>1, <1>2, <1>4, <1>5, <1>6, Nothing, Replies

LEMMA WritersReply ==
    ASSUME Typed, NEW s \in Slots, CustomCreate(s) \/ CustomDelete(s) \/ UserDelete(s)
    PROVE  Replied(s)
<1>0. \A op : Runs(s, op) => tasks[s].req \in Requests /\ tasks[s].req.op = op
  <2> SUFFICES ASSUME NEW op, Runs(s, op) PROVE tasks[s].req \in Requests /\ tasks[s].req.op = op
    OBVIOUS
  <2>1. tasks[s] # Idle /\ tasks[s].req.op = op
    BY RunsWhat
  <2> QED BY <2>1, TaskCases DEF Tasks
<1>1. CASE CustomCreate(s)
  <2>1. Runs(s, "customCreate") /\ Write(tasks[s]) /\ Writes
    BY <1>1 DEF CustomCreate
  <2>2. PICK st \in {200, 400} : AnswerWith(s, st, {}, {}, 0) /\ (st = 400 => Arg_(s) \in custom)
    <3>1. PICK o : o = IF Arg_(s) \in custom THEN "BadRequest" ELSE "OK"
      OBVIOUS
    <3>2. Reply(s, o)
      BY <1>1, <3>1 DEF CustomCreate
    <3> QED BY <2>1, <3>1, <3>2, ReplySays, Statuses
  <2>3. custom' = custom \cup {tasks[s].req.arg} /\ people' = people
    BY <2>1, <1>0, WriteWhat
  <2>4. st = 400 => people' = people /\ custom' = custom
    BY <2>2, <2>3 DEF Arg_
  <2> QED BY <2>1, <2>2, <2>4, WriteReplies
<1>2. CASE CustomDelete(s)
  <2>1. Runs(s, "customDelete") /\ Write(tasks[s]) /\ Writes
    BY <1>2 DEF CustomDelete
  <2>2. PICK st \in {200, 400} : AnswerWith(s, st, {}, {}, 0) /\ (st = 400 => Arg_(s) \notin custom)
    <3>1. PICK o : o = IF Arg_(s) \in custom THEN "OK" ELSE "BadRequest"
      OBVIOUS
    <3>2. Reply(s, o)
      BY <1>2, <3>1 DEF CustomDelete
    <3> QED BY <2>1, <3>1, <3>2, ReplySays, Statuses
  <2>3. custom' = custom \ {tasks[s].req.arg} /\ people' = people
    BY <2>1, <1>0, WriteWhat
  <2>4. st = 400 => people' = people /\ custom' = custom
    BY <2>2, <2>3 DEF Arg_
  <2> QED BY <2>1, <2>2, <2>4, WriteReplies
<1>3. CASE UserDelete(s)
  <2>1. Runs(s, "userDelete") /\ Write(tasks[s]) /\ Writes /\ Reply(s, "OK")
    BY <1>3 DEF UserDelete
  <2>2. AnswerWith(s, 200, {}, {}, 0)
    BY <2>1, ReplySays, Statuses
  <2> QED BY <2>1, <2>2, WriteReplies
<1> QED BY <1>1, <1>2, <1>3

LEMMA NoSuchReplies ==
    ASSUME Typed, NEW s \in Slots, NoSuchUser(s)
    PROVE  Replied(s)
<1>1. PICK op \in {"customCreate", "userEdit", "userDelete", "userRecreate"} : Runs(s, op)
  BY DEF NoSuchUser
<1>2. /\ AnswerWith(s, 500, {}, {}, 0)
      /\ UNCHANGED <<site, orphans, browser, view>> /\ clean' = clean /\ events' = events
  BY Statuses DEF NoSuchUser, ReadOnly, server, bounds
<1>3. page = "shell" /\ tasks[s] # Idle /\ tasks[s].ans = NoAnswer /\ tasks[s].req.op = op /\ events' \in Nat
  BY <1>1, <1>2, RunsWhat DEF Typed
<1>4. Tells(s, 500, {}, {}, 0)
  BY <1>2, <1>3 DEF Tells, Effect, site, Gets
<1> QED BY <1>2, <1>3, <1>4, Nothing, RepliesOnly

LEMMA HandlerReplies ==
    ASSUME Typed, NEW s \in Slots, Handler(s) \/ Lost(s), ~(Enter(s) \/ FindUser(s) \/ StoreUser(s))
    PROVE  Replied(s)
BY LostReplies, FailsReplies, StoppedReplies, UsersGetReplies, CustomsReplies, ReadersReply, WritersReply,
   NoSuchReplies DEF Handler

\* A step of a handler that does not answer yet: t is the task it makes of the slot's.
Worked(s, t) ==
    /\ Out(s) /\ t \in Tasks /\ tasks' = [tasks EXCEPT ![s] = t]
    /\ t.m = tasks[s].m /\ t.who = tasks[s].who /\ t.todo = tasks[s].todo /\ t.req = tasks[s].req
    /\ t.ans = NoAnswer
    /\ UNCHANGED <<now, secret, orphans, browser, view, clean, events>>
    /\ born' \in 0..MaxUser /\ people' \subseteq 1..born' /\ custom' \subseteq User /\ Changes(s)
    /\ \/ tasks[s].at # "stored" /\ UNCHANGED <<people, custom>>
       \/ t.req.op = "userCreate" /\ t.at = "stored"

LEMMA EnterWorks ==
    ASSUME Typed, NEW s \in Slots, Enter(s)
    PROVE  \E t : Worked(s, t) /\ t = [tasks[s] EXCEPT !.at = "in", !.since = now]
<1>1. PICK o : o = tasks[s]
  OBVIOUS
<1>2. o \in Tasks /\ Out(s) /\ o.at = "sent" /\ o.ans = NoAnswer
  BY <1>1, TaskCases DEF Enter, Sent, Out
<1>3. PICK t : t = [o EXCEPT !.at = "in", !.since = now]
  OBVIOUS
<1>4. /\ t \in Tasks /\ t.m = o.m /\ t.who = o.who /\ t.todo = o.todo /\ t.req = o.req /\ t.ans = o.ans
  BY <1>2, <1>3 DEF Tasks, Ats, Typed
<1>5. tasks' = [tasks EXCEPT ![s] = t]
  BY <1>1, <1>3 DEF Enter
<1>6. /\ UNCHANGED <<now, secret, orphans, browser, view, clean, events, people, custom>>
      /\ born' \in 0..MaxUser /\ people' \subseteq 1..born' /\ custom' \subseteq User /\ Changes(s)
  BY DEF Enter, server, site, bounds, Typed, Changes
<1> QED BY <1>1, <1>2, <1>3, <1>4, <1>5, <1>6 DEF Worked

LEMMA ProceedWorks ==
    ASSUME Typed, NEW s \in Slots, FindUser(s) \/ StoreUser(s)
    PROVE  \E t : Worked(s, t) /\ t.at # "sent" /\ t.since = tasks[s].since /\ Inside(s)
<1>1. PICK o : o = tasks[s]
  OBVIOUS
<1>2. PICK op \in {"userEdit", "userDelete", "userRecreate", "userCreate"} :
        /\ Runs(s, op)
        /\ StoreUser(s) => op = "userCreate"
  BY DEF FindUser, StoreUser
<1>3. o \in Tasks /\ Inside(s) /\ Out(s) /\ o.at = "in" /\ o.ans = NoAnswer /\ o.req.op = op
  BY <1>1, <1>2, RunsWhat, TaskCases DEF FindUser, StoreUser, Inside
<1>4. PICK at : at = IF StoreUser(s) THEN "stored" ELSE "found"
  OBVIOUS
<1>5. PICK t : t = [o EXCEPT !.at = at]
  OBVIOUS
<1>6. /\ t \in Tasks /\ t.m = o.m /\ t.who = o.who /\ t.todo = o.todo /\ t.req = o.req /\ t.ans = o.ans
      /\ t.at = at /\ t.since = o.since
  BY <1>3, <1>4, <1>5 DEF Tasks, Ats
<1>7. CASE StoreUser(s)
  <2>1. tasks' = [tasks EXCEPT ![s] = t]
    BY <1>1, <1>4, <1>5, <1>7 DEF StoreUser, Proceed
  <2>2. UNCHANGED <<now, secret, orphans, browser, view, clean, events>>
    BY <1>7 DEF StoreUser, Writes, bounds
  <2>3. o.req \in Requests /\ Write(o)
    BY <1>1, <1>3, <1>7 DEF Tasks, StoreUser
  <2>4. born' \in 0..MaxUser /\ people' \subseteq 1..born' /\ custom' \subseteq User
    BY <2>3, WriteWhat
  <2>5. Changes(s)
    BY <1>1, <1>2, <1>3, <1>7 DEF Changes, Writers
  <2> QED BY <1>1, <1>2, <1>3, <1>4, <1>6, <1>7, <2>1, <2>2, <2>4, <2>5 DEF Worked
<1>8. CASE ~StoreUser(s)
  <2>1. tasks' = [tasks EXCEPT ![s] = t] /\ ReadOnly
    BY <1>1, <1>4, <1>5, <1>8 DEF FindUser, Proceed
  <2>2. /\ UNCHANGED <<now, secret, orphans, browser, view, clean, events, people, custom>>
        /\ born' \in 0..MaxUser /\ people' \subseteq 1..born' /\ custom' \subseteq User /\ Changes(s)
    BY <2>1 DEF ReadOnly, server, site, bounds, Typed, Changes
  <2> QED BY <1>1, <1>3, <1>4, <1>6, <1>8, <2>1, <2>2 DEF Worked
<1> QED BY <1>7, <1>8

\* A reply leaves the method on its way, with its answer.
LEMMA ReplyOnWay ==
    ASSUME NEW o, NEW t, NEW a, t.ans = a, t.m = o.m, t.who = o.who, t.todo = o.todo, t.req = o.req,
           OnWay(o), o.ans = NoAnswer, a.status # 1, Effect(o, a), UNCHANGED view
    PROVE  OnWay(t)'
<1>1. ~Went(o)
  BY Unanswered
<1>2. UNCHANGED <<people, custom>> => UNCHANGED Looks
  BY DEF Looks, view
<1>3. UNCHANGED <<people, custom>> => (Table' = Table /\ Editor' = Editor /\ \A p : PageOf(p)' = PageOf(p))
  BY <1>2, SameTable DEF PageOf, Rank
<1>4. tab' = tab /\ userPage' = userPage /\ scope' = scope /\ rows' = rows /\ customs' = customs
  BY DEF view
<1>5. ASSUME tab = "users" PROVE ToTable(t)'
  <2>0. ToTable(o)
    BY <1>5 DEF OnWay
  <2>1. CASE o.req.op = "nodesGet" /\ o.todo = <<"usersGet">> /\ Fetches(o)
    BY <2>1 DEF ToTable, Fetches, Effect
  <2>2. CASE o.req.op = "usersGet" /\ o.todo = <<>> /\ o.req.arg = userPage
    <3>1. UNCHANGED <<people, custom>> /\ a.status \in {200, 401}
      BY <2>2 DEF Effect, Gets
    <3>2. Went(t) => a.rows = PageOf(userPage) /\ a.total = Cardinality(people)
      <4>1. Went(t) => a.status = 200
        BY <3>1 DEF Went
      <4> QED BY <4>1, <2>2 DEF Effect
    <3>3. PageOf(userPage)' = PageOf(userPage) /\ Cardinality(people)' = Cardinality(people)
      BY <3>1, <1>4 DEF PageOf, Rank
    <3> QED BY <2>2, <3>1, <3>2, <3>3, <1>4 DEF ToTable, Fetches, Went
  <2>3. CASE o.req.op \in {"userCreate", "userEdit", "userDelete", "userRecreate"}
    <3>1. o.todo = <<"usersGet">> /\ (Table \/ Storing(o))
      BY <2>0, <2>3, <1>1 DEF ToTable
    <3>2. ~Went(t) => Table'
      BY <3>1, <1>3 DEF Effect, Went, Storing
    <3> QED BY <2>3, <3>1, <3>2 DEF ToTable, Went
  <2>4. CASE o.req.op = "logout"
    <3>1. o.todo = <<>> /\ Table
      BY <2>0, <2>4 DEF ToTable
    <3>2. Table'
      BY <2>4, <3>1, <1>3 DEF Effect
    <3> QED BY <2>4, <3>1, <3>2 DEF ToTable
  <2> QED BY <2>0, <2>1, <2>2, <2>3, <2>4 DEF ToTable
<1>6. ASSUME tab = "config" PROVE ToEditor(t)'
  <2>0. ToEditor(o)
    BY <1>6 DEF OnWay
  <2>1. CASE o.req.op = "nodesGet"
    <3>1. o.todo = <<"configSchema", "configCustoms", "configGet">> /\ o.m = "go"
      BY <2>0, <2>1 DEF ToEditor
    <3>2. Fetches(t)
      BY <2>1 DEF Effect, Fetches
    <3> QED BY <2>1, <3>1, <3>2 DEF ToEditor
  <2>7. CASE o.req.op = "configSchema"
    <3>1. o.todo = <<"configCustoms", "configGet">> /\ o.m = "go"
      BY <2>0, <2>7 DEF ToEditor
    <3>2. Fetches(t)
      BY <2>7 DEF Effect, Fetches
    <3> QED BY <2>7, <3>1, <3>2 DEF ToEditor
  <2>2. CASE o.req.op = "configCustoms"
    <3>1. UNCHANGED <<people, custom>> /\ a.status \in {200, 401}
      BY <2>2 DEF Effect, Gets
    <3>2. Went(t) => a.rows = people /\ a.customs = custom
      BY <2>2, <3>1 DEF Effect, Went
    <3>3. /\ o.todo = <<"configGet">> /\ o.m \in {"go", "createCustom", "deleteCustom"}
          /\ o.m = "createCustom" => o.who \in custom
      BY <2>0, <2>2 DEF ToEditor
    <3> QED BY <2>2, <3>1, <3>2, <3>3 DEF ToEditor, Fetches, Went
  <2>3. CASE o.req.op = "configGet"
    <3>1. /\ o.todo = <<>> /\ o.req.arg = scope /\ rows.of = people /\ customs = custom
          /\ scope \in {Base} \cup custom
      BY <2>0, <2>3 DEF ToEditor
    <3>2. UNCHANGED <<people, custom>> /\ a.status \in {200, 401}
      BY <2>3, <3>1 DEF Effect, Gets
    <3> QED BY <2>3, <3>1, <3>2, <1>4 DEF ToEditor, Fetches
  <2>4. CASE o.req.op = "customCreate"
    <3>1. o.todo = <<"configCustoms", "configGet">> /\ o.m = "createCustom" /\ o.req.arg = o.who /\ Editor
      BY <2>0, <2>4, <1>1 DEF ToEditor
    <3>2. Went(t) => o.who \in custom'
      BY <2>4, <3>1 DEF Effect, Went
    <3>3. ~Went(t) => Editor'
      BY <3>1, <1>3 DEF Effect, Went
    <3> QED BY <2>4, <3>1, <3>2, <3>3 DEF ToEditor, Went
  <2>5. CASE o.req.op = "customDelete"
    <3>1. o.todo = <<"configCustoms", "configGet">> /\ o.m = "deleteCustom" /\ Editor
      BY <2>0, <2>5, <1>1 DEF ToEditor
    <3>2. ~Went(t) => Editor'
      BY <3>1, <1>3 DEF Effect, Went
    <3> QED BY <2>5, <3>1, <3>2 DEF ToEditor, Went
  <2>6. CASE o.req.op \in {"configSave", "providerCheck", "logout"}
    <3>1. o.todo = <<>> /\ Editor
      BY <2>0, <2>6 DEF ToEditor
    <3>2. Editor'
      BY <2>6, <3>1, <1>3 DEF Effect
    <3> QED BY <2>6, <3>1, <3>2 DEF ToEditor
  <2> QED BY <2>0, <2>1, <2>2, <2>3, <2>4, <2>5, <2>6, <2>7 DEF ToEditor
<1> QED BY <1>4, <1>5, <1>6 DEF OnWay

LEMMA ReplyKeeps ==
    ASSUME IInv, NEW s \in Slots, Replied(s)
    PROVE  IInv'
<1>1. PICK a \in Answers :
         /\ a.status # 1
         /\ tasks' = [tasks EXCEPT ![s].ans = a]
         /\ clean' => clean /\ tasks[s].ans = NoAnswer /\ Effect(tasks[s], a)
  BY DEF Replied
<1>2. PICK o : o = tasks[s]
  OBVIOUS
<1>3. o \in Tasks /\ page = "shell" /\ o # Idle
  BY <1>2, TaskCases DEF IInv, Replied
<1>4. PICK t : t = [o EXCEPT !.ans = a]
  OBVIOUS
<1>5. t \in Tasks /\ t.ans = a /\ t.m = o.m /\ t.who = o.who /\ t.todo = o.todo /\ t.req = o.req
  BY <1>3, <1>4 DEF Tasks
<1>6. tasks' = [tasks EXCEPT ![s] = t]
  BY <1>1, <1>2, <1>4
<1>7. /\ UNCHANGED <<now, secret, browser, view>>
      /\ born' \in 0..MaxUser /\ people' \subseteq 1..born' /\ custom' \subseteq User /\ events' \in Nat
  BY DEF Replied
<1>8. Typed'
  <2>1. tasks' \in [Slots -> {Idle} \cup Tasks]
    BY <1>5, <1>6 DEF IInv, Typed
  <2>2. page' = "shell"
    BY <1>3, <1>7 DEF browser
  <2>3. Abandoned({s}) \subseteq Orphans
    BY AbandonedTyped DEF IInv
  <2>4. orphans' \subseteq Orphans
    BY <2>3 DEF Replied, IInv, Typed
  <2> QED BY <2>1, <2>2, <2>4, <1>7 DEF IInv, Typed, browser, view
<1>9. ASSUME clean' PROVE OnWay(t)'
  <2>1. clean /\ o.ans = NoAnswer /\ Effect(o, a)
    BY <1>1, <1>2, <1>9
  <2>2. OnWay(o)
    BY <1>2, <1>3, <2>1 DEF IInv, Settling
  <2> QED BY <2>1, <2>2, <1>1, <1>5, <1>7, ReplyOnWay
<1>10. t # Idle
  BY <1>5, NotIdle
<1>11. clean' => clean
  BY <1>1
<1>12. Settling'
  BY <1>2, <1>3, <1>5, <1>6, <1>9, <1>10, <1>11, OneMoves DEF IInv
<1> QED BY <1>8, <1>12 DEF IInv

\* So does a step that does not answer yet.
LEMMA WorkOnWay ==
    ASSUME NEW s \in Slots, NEW t, Worked(s, t), OnWay(tasks[s])
    PROVE  OnWay(t)'
<1>1. PICK o : o = tasks[s]
  OBVIOUS
<1>2. /\ OnWay(o) /\ o.ans = NoAnswer /\ t.ans = NoAnswer
      /\ t.m = o.m /\ t.who = o.who /\ t.todo = o.todo /\ t.req = o.req
  BY <1>1 DEF Worked, Out
<1>3. tab' = tab /\ UNCHANGED view
  BY DEF Worked, view
<1>4. ~Went(o) /\ ~Went(t) /\ Fetches(o) /\ Fetches(t)
  BY <1>2, Unanswered
<1>5. CASE o.at # "stored" /\ UNCHANGED <<people, custom>>
  <2>1. UNCHANGED Looks
    BY <1>3, <1>5 DEF Looks, view
  <2>2. OnWay(t)' = OnWay(t)
    BY <2>1, SameWay
  <2>3. tab = "users" => ToTable(t)
    BY <1>2, <1>4, <1>5 DEF OnWay, ToTable, Storing
  <2>4. tab = "config" => ToEditor(t)
    BY <1>2, <1>4 DEF OnWay, ToEditor
  <2> QED BY <2>2, <2>3, <2>4 DEF OnWay
<1>6. CASE t.req.op = "userCreate" /\ t.at = "stored"
  <2>1. tab # "config"
    BY <1>2, <1>6 DEF OnWay, ToEditor
  <2>2. tab = "users" => ToTable(t)'
    BY <1>2, <1>6 DEF OnWay, ToTable, Storing
  <2> QED BY <1>3, <2>1, <2>2 DEF OnWay
<1> QED BY <1>1, <1>5, <1>6 DEF Worked

LEMMA WorkKeeps ==
    ASSUME IInv, NEW s \in Slots, Enter(s) \/ FindUser(s) \/ StoreUser(s)
    PROVE  IInv'
<1>1. PICK t : Worked(s, t)
  BY EnterWorks, ProceedWorks DEF IInv
<1>2. /\ t \in Tasks /\ tasks' = [tasks EXCEPT ![s] = t] /\ page = "shell" /\ tasks[s] # Idle
      /\ UNCHANGED <<now, secret, orphans, browser, view, clean, events>>
      /\ born' \in 0..MaxUser /\ people' \subseteq 1..born' /\ custom' \subseteq User
  BY <1>1 DEF Worked, Out
<1>3. Typed'
  <2>1. tasks' \in [Slots -> {Idle} \cup Tasks]
    BY <1>2 DEF IInv, Typed
  <2> QED BY <2>1, <1>2 DEF IInv, Typed, browser, view
<1>4. clean => OnWay(tasks[s])
  BY <1>2, TaskCases DEF IInv, Settling
<1>5. clean' => OnWay(t)'
  BY <1>1, <1>2, <1>4, WorkOnWay
<1>6. Settling'
  BY <1>2, <1>5, NotIdle, OneMoves DEF IInv
<1> QED BY <1>3, <1>6 DEF IInv

(***************************************************************************)
(* The answers.                                                               *)
(***************************************************************************)
\* What a task that was on its way becomes: another that is, or nothing on a tab at rest.
Onward(t, u) == OnWay(t) => IF u = Idle THEN Settled' ELSE OnWay(u)'

\* The tab, when it takes an answer.
Shows ==
    /\ tab' = tab /\ scope' \in Scope /\ shown' \in Scope \cup {Blank}
    /\ userPage' \in 1..MaxUser /\ total' \in 0..MaxUser /\ schema' \in BOOLEAN

LEMMA Moves ==
    ASSUME IInv, NEW s \in Slots, page = "shell", tasks[s] # Idle, NEW u \in {Idle} \cup Tasks,
           tasks' = [tasks EXCEPT ![s] = u], Same, Shows, Onward(tasks[s], u)
    PROVE  IInv'
<1>1. PICK t : t = tasks[s]
  OBVIOUS
<1>2. t \in Tasks
  BY <1>1, TaskCases DEF IInv
<1>3. UNCHANGED <<server, browser, bounds>> /\ page' = "shell" /\ clean' = clean
  BY DEF Same, browser, bounds
<1>4. Typed'
  <2>1. tasks' \in [Slots -> {Idle} \cup Tasks]
    BY DEF IInv, Typed
  <2> QED BY <2>1, <1>3 DEF IInv, Typed, server, site, browser, bounds, Shows
<1>5. clean => OnWay(t)
  BY <1>1, <1>2 DEF IInv, Settling
<1>6. clean' => IF u = Idle THEN Settled' ELSE OnWay(u)'
  BY <1>1, <1>3, <1>5 DEF Onward
<1>7. Settling'
  BY <1>3, <1>6, OneMoves DEF IInv
<1> QED BY <1>4, <1>7 DEF IInv

LEMMA LeaveKeeps ==
    ASSUME IInv, NEW path, Leave(path), UNCHANGED <<site, bounds>>, jar' \in Cookies
    PROVE  IInv'
<1>1. Quiet'
  BY DEF Leave, Quiet
<1>2. tasks' \in [Slots -> {Idle} \cup Tasks] /\ orphans' \subseteq Orphans
  BY AbandonedTyped DEF Leave, IInv, Typed
<1>3. /\ tab' \in Tabs /\ scope' \in Scope /\ shown' \in Scope \cup {Blank}
      /\ userPage' \in 1..MaxUser /\ total' \in 0..MaxUser /\ schema' \in BOOLEAN
  <2>1. /\ tab' = "users" /\ scope' = Base /\ shown' = Blank /\ userPage' = 1 /\ total' = 0
        /\ schema' = FALSE
    BY DEF Leave, Data
  <2>2. 1 \in 1..MaxUser /\ 0 \in 0..MaxUser
    BY ConsoleAssumption
  <2>3. "users" \in Tabs /\ Base \in Scope
    BY DEF Tabs, Scope
  <2> QED BY <2>1, <2>2, <2>3
<1>4. Typed'
  BY <1>1, <1>2, <1>3 DEF IInv, Typed, server, site, bounds
<1>5. page' # "shell"
  BY DEF Leave
<1> QED BY <1>4, <1>5 DEF IInv, Settling

LEMMA AsShown ==
    ASSUME IInv, UNCHANGED <<tab, scope, shown, userPage, total>>, schema' \in BOOLEAN
    PROVE  Shows
BY DEF IInv, Typed, Shows

\* A method that ends, and leaves the tab as it was.
LEMMA Stops ==
    ASSUME IInv, NEW s \in Slots, Answered(s), Stop(s), Same,
           UNCHANGED <<tab, scope, shown, customs, rows, userPage, total, schema>>,
           \A t : t = tasks[s] /\ OnWay(t) => Settled
    PROVE  IInv'
<1>1. page = "shell" /\ tasks[s] # Idle /\ tasks' = [tasks EXCEPT ![s] = Idle]
  BY DEF Answered, Stop
<1>2. Shows
  BY AsShown DEF IInv, Typed
<1>3. UNCHANGED Looks
  BY DEF Looks, Same, server, site
<1>4. Onward(tasks[s], Idle)
  BY <1>3, SameTable DEF Onward
<1> QED BY <1>1, <1>2, <1>4, Moves

LEMMA NothingKeeps ==
    ASSUME IInv, NEW s \in Slots, GotNothing(s)
    PROVE  IInv'
<1>1. /\ Answered(s) /\ Stop(s) /\ Same
      /\ UNCHANGED <<tab, scope, shown, customs, rows, userPage, total, schema>>
  BY DEF GotNothing, view
<1>2. PICK t : t = tasks[s]
  OBVIOUS
<1>3. t.req.op \in Gets /\ t.ans # NoAnswer /\ t.ans.status \notin {200, 401} /\ ~Went(t)
  BY <1>2 DEF GotNothing, Answered, Good, Status, Went
<1>4. ~Fetches(t)
  BY <1>3 DEF Fetches
<1>5. tab = "users" => ~ToTable(t)
  BY <1>3, <1>4 DEF ToTable, Gets
<1>6. tab = "config" => ~ToEditor(t)
  BY <1>3, <1>4 DEF ToEditor, Gets
<1>7. OnWay(t) => Settled
  BY <1>5, <1>6 DEF OnWay, Settled
<1> QED BY <1>1, <1>2, <1>7, Stops

LEMMA CheckedKeeps ==
    ASSUME IInv, NEW s \in Slots, GotChecked(s)
    PROVE  IInv'
<1>1. /\ Answered(s) /\ Stop(s) /\ Same
      /\ UNCHANGED <<tab, scope, shown, customs, rows, userPage, total, schema>>
  BY DEF GotChecked, Got, view
<1>2. PICK t : t = tasks[s]
  OBVIOUS
<1>3. t.req.op = "providerCheck"
  BY <1>2 DEF GotChecked, Got
<1>4. tab = "users" => ~ToTable(t)
  BY <1>3 DEF ToTable
<1>5. tab = "config" /\ ToEditor(t) => Editor
  BY <1>3 DEF ToEditor
<1>6. OnWay(t) => Settled
  BY <1>4, <1>5 DEF OnWay, Settled
<1> QED BY <1>1, <1>2, <1>6, Stops

\* The calls that are left, one by one.
LEMMA Lefts ==
    ASSUME NEW have \in BOOLEAN
    PROVE  /\ Left(<<>>, have) = <<>>
           /\ Left(<<"usersGet">>, have) = <<"usersGet">>
           /\ Left(<<"configGet">>, have) = <<"configGet">>
           /\ Left(<<"configCustoms", "configGet">>, have) = <<"configCustoms", "configGet">>
           /\ Left(<<"configSchema", "configCustoms", "configGet">>, have) =
                 IF have THEN <<"configCustoms", "configGet">>
                 ELSE <<"configSchema", "configCustoms", "configGet">>
<1>1. Left(<<>>, have) = <<>>
  BY DEF Left
<1>2. \A op \in {"usersGet", "configGet"} : Left(<<op>>, have) = <<op>>
  BY DEF Left
<1>3. Left(<<"configCustoms", "configGet">>, have) = <<"configCustoms", "configGet">>
  BY DEF Left
<1>4. Left(<<"configSchema", "configCustoms", "configGet">>, have) =
         IF have THEN <<"configCustoms", "configGet">>
         ELSE <<"configSchema", "configCustoms", "configGet">>
  BY DEF Left
<1> QED BY <1>1, <1>2, <1>3, <1>4

\* What the method of task t goes on with.
GoesOn(t, u, have, sc, pg) ==
    /\ t.todo = <<>> => u = Idle
    /\ t.todo = <<"usersGet">> =>
         /\ u \in Tasks /\ u.todo = <<>> /\ u.ans = NoAnswer
         /\ u.req.op = "usersGet" /\ u.req.arg = pg
    /\ t.todo = <<"configGet">> =>
         /\ u \in Tasks /\ u.todo = <<>> /\ u.ans = NoAnswer
         /\ u.req.op = "configGet" /\ u.req.arg = sc
    /\ \/ t.todo = <<"configCustoms", "configGet">>
       \/ t.todo = <<"configSchema", "configCustoms", "configGet">> /\ have
       => /\ u \in Tasks /\ u.todo = <<"configGet">> /\ u.ans = NoAnswer /\ u.m = t.m /\ u.who = t.who
          /\ u.req.op = "configCustoms"
    /\ t.todo = <<"configSchema", "configCustoms", "configGet">> /\ ~have
       => /\ u \in Tasks /\ u.todo = <<"configCustoms", "configGet">> /\ u.ans = NoAnswer /\ u.m = t.m
          /\ u.req.op = "configSchema"

LEMMA Goes ==
    ASSUME NEW t, NEW u, NEW have \in BOOLEAN, NEW sc, NEW pg,
           Continues(t, u, Left(t.todo, have), sc, pg)
    PROVE  GoesOn(t, u, have, sc, pg)
<1>1. t.todo = <<>> => u = Idle
  BY Lefts DEF Continues
<1>2. ASSUME NEW op \in {"usersGet", "configGet"}, t.todo = <<op>>
      PROVE  /\ u \in Tasks /\ u.todo = <<>> /\ u.ans = NoAnswer
             /\ u.req.op = op /\ u.req.arg = Arg(op, t.who, sc, pg)
  <2>1. Left(t.todo, have) = <<op>>
    BY <1>2, Lefts
  <2>2. <<op>> # <<>> /\ Head(<<op>>) = op /\ Tail(<<op>>) = <<>>
    OBVIOUS
  <2> QED BY <2>1, <2>2 DEF Continues
<1>3. \A who : Arg("usersGet", who, sc, pg) = pg /\ Arg("configGet", who, sc, pg) = sc
  BY DEF Arg
<1>4. ASSUME \/ t.todo = <<"configCustoms", "configGet">>
             \/ t.todo = <<"configSchema", "configCustoms", "configGet">> /\ have
      PROVE  /\ u \in Tasks /\ u.todo = <<"configGet">> /\ u.ans = NoAnswer /\ u.m = t.m /\ u.who = t.who
             /\ u.req.op = "configCustoms"
  <2>1. Left(t.todo, have) = <<"configCustoms", "configGet">>
    BY <1>4, Lefts
  <2>2. /\ <<"configCustoms", "configGet">> # <<>>
        /\ Head(<<"configCustoms", "configGet">>) = "configCustoms"
        /\ Tail(<<"configCustoms", "configGet">>) = <<"configGet">>
    OBVIOUS
  <2> QED BY <2>1, <2>2 DEF Continues
<1>5. ASSUME t.todo = <<"configSchema", "configCustoms", "configGet">>, ~have
      PROVE  /\ u \in Tasks /\ u.todo = <<"configCustoms", "configGet">> /\ u.ans = NoAnswer /\ u.m = t.m
             /\ u.req.op = "configSchema"
  <2>1. Left(t.todo, have) = <<"configSchema", "configCustoms", "configGet">>
    BY <1>5, Lefts
  <2>2. /\ <<"configSchema", "configCustoms", "configGet">> # <<>>
        /\ Head(<<"configSchema", "configCustoms", "configGet">>) = "configSchema"
        /\ Tail(<<"configSchema", "configCustoms", "configGet">>) = <<"configCustoms", "configGet">>
    OBVIOUS
  <2> QED BY <2>1, <2>2 DEF Continues
<1> QED BY <1>1, <1>2, <1>3, <1>4, <1>5 DEF GoesOn

LEMMA NodesOnward ==
    ASSUME NEW t, t.req.op = "nodesGet", NEW u, schema \in BOOLEAN,
           Continues(t, u, Left(t.todo, schema), scope, userPage), UNCHANGED Looks
    PROVE  Onward(t, u)
<1> SUFFICES ASSUME OnWay(t) PROVE IF u = Idle THEN Settled' ELSE OnWay(u)'
  BY DEF Onward
<1>0. GoesOn(t, u, schema, scope, userPage)
  BY Goes
<1>1. OnWay(u)' = OnWay(u) /\ tab' = tab
  BY SameWay DEF Looks
<1>2. CASE tab = "users"
  <2>1. t.todo = <<"usersGet">>
    BY <1>2 DEF OnWay, ToTable
  <2>2. u \in Tasks /\ u.todo = <<>> /\ u.ans = NoAnswer /\ u.req.op = "usersGet" /\ u.req.arg = userPage
    BY <1>0, <2>1 DEF GoesOn
  <2>3. ToTable(u)
    BY <2>2, Unanswered DEF ToTable
  <2> QED BY <2>2, <2>3, <1>1, <1>2, NotIdle DEF OnWay
<1>3. CASE tab = "config"
  <2>1. t.todo = <<"configSchema", "configCustoms", "configGet">> /\ t.m = "go"
    BY <1>3 DEF OnWay, ToEditor
  <2>2. u \in Tasks /\ ToEditor(u)
    <3>1. CASE schema
      BY <3>1, <1>0, <2>1, Unanswered DEF ToEditor, GoesOn
    <3>2. CASE ~schema
      BY <3>2, <1>0, <2>1, Unanswered DEF ToEditor, GoesOn
    <3> QED BY <3>1, <3>2
  <2> QED BY <2>2, <1>1, <1>3, NotIdle DEF OnWay
<1>4. CASE tab \notin {"users", "config"}
  BY <1>1, <1>4 DEF OnWay, Settled
<1> QED BY <1>2, <1>3, <1>4

LEMMA NodesGetKeeps ==
    ASSUME IInv, NEW s \in Slots, GotNodes(s)
    PROVE  IInv'
<1>1. /\ page = "shell" /\ tasks[s] # Idle /\ tasks[s].req.op = "nodesGet"
      /\ GoOn(s, scope, userPage, schema) /\ Same /\ UNCHANGED view
  BY DEF GotNodes, Got, Answered
<1>2. scope \in Scope /\ userPage \in Scope /\ schema \in BOOLEAN
  BY DEF IInv, Typed, Scope, User
<1>3. PICK u \in {Idle} \cup Tasks :
         /\ tasks' = [tasks EXCEPT ![s] = u]
         /\ Continues(tasks[s], u, Left(tasks[s].todo, schema), scope, userPage)
  BY <1>1, <1>2, GoneOn DEF IInv
<1>4. Shows /\ UNCHANGED Looks
  BY <1>1, <1>2, AsShown DEF view, Looks, Same, server, site
<1>5. Onward(tasks[s], u)
  BY <1>1, <1>2, <1>3, <1>4, NodesOnward
<1> QED BY <1>1, <1>3, <1>4, <1>5, Moves

LEMMA SchemaOnward ==
    ASSUME NEW t, t.req.op = "configSchema", NEW u,
           Continues(t, u, Left(t.todo, TRUE), scope, userPage), UNCHANGED Looks
    PROVE  Onward(t, u)
<1> SUFFICES ASSUME OnWay(t) PROVE IF u = Idle THEN Settled' ELSE OnWay(u)'
  BY DEF Onward
<1>0. GoesOn(t, u, TRUE, scope, userPage)
  BY Goes
<1>1. OnWay(u)' = OnWay(u) /\ tab' = tab
  BY SameWay DEF Looks
<1>2. tab # "users"
  BY DEF OnWay, ToTable
<1>3. CASE tab = "config"
  <2>1. t.todo = <<"configCustoms", "configGet">> /\ t.m = "go"
    BY <1>3 DEF OnWay, ToEditor
  <2>2. u \in Tasks /\ ToEditor(u)
    BY <1>0, <2>1, Unanswered DEF ToEditor, GoesOn
  <2> QED BY <2>2, <1>1, <1>3, NotIdle DEF OnWay
<1>4. CASE tab # "config"
  BY <1>1, <1>2, <1>4 DEF OnWay, Settled
<1> QED BY <1>3, <1>4

LEMMA SchemaKeeps ==
    ASSUME IInv, NEW s \in Slots, GotSchema(s)
    PROVE  IInv'
<1>1. /\ page = "shell" /\ tasks[s] # Idle /\ tasks[s].req.op = "configSchema"
      /\ GoOn(s, scope, userPage, TRUE) /\ Same /\ schema' = TRUE
      /\ UNCHANGED <<tab, scope, shown, customs, rows, userPage, total, busy>>
  BY DEF GotSchema, Got, Answered
<1>2. scope \in Scope /\ userPage \in Scope
  BY DEF IInv, Typed, Scope, User
<1>3. PICK u \in {Idle} \cup Tasks :
         /\ tasks' = [tasks EXCEPT ![s] = u]
         /\ Continues(tasks[s], u, Left(tasks[s].todo, TRUE), scope, userPage)
  BY <1>1, <1>2, GoneOn DEF IInv
<1>4. Shows /\ UNCHANGED Looks
  BY <1>1, <1>2, AsShown DEF Looks, Same, server, site
<1>5. Onward(tasks[s], u)
  BY <1>1, <1>3, <1>4, SchemaOnward
<1> QED BY <1>1, <1>3, <1>4, <1>5, Moves

\* Pages.
LEMMA LastPage ==
    ASSUME NEW n \in 0..MaxUser
    PROVE  userPageCount(n) \in 1..MaxUser
<1>1. MaxUser \in Nat /\ MaxUser >= 1 /\ PerPage \in Nat /\ PerPage >= 1 /\ n \in Nat /\ n <= MaxUser
  BY ConsoleAssumption
<1>2. CASE n <= PerPage
  BY <1>1, <1>2 DEF userPageCount
<1>3. CASE n > PerPage
  <2>1. PICK q : q = (n + PerPage - 1) \div PerPage
    OBVIOUS
  <2>2. q \in Int /\ PerPage * q <= n + PerPage - 1 /\ n + PerPage - 1 < PerPage * q + PerPage
    BY <1>1, <2>1
  <2>3. q >= 1
    <3>1. SUFFICES ASSUME q <= 0 PROVE FALSE
      BY <2>2
    <3>2. PerPage * q <= 0
      BY <1>1, <2>2, <3>1
    <3>3. PerPage * q + PerPage <= PerPage
      BY <1>1, <2>2, <3>2
    <3> QED BY <1>1, <1>3, <2>2, <3>3
  <2>4. q <= n
    <3>1. SUFFICES ASSUME q >= n + 1 PROVE FALSE
      BY <1>1, <2>2
    <3>2. PerPage * q >= PerPage * n + PerPage
      BY <1>1, <2>2, <3>1
    <3>3. PerPage * n >= n
      BY <1>1
    <3> QED BY <1>1, <2>2, <3>2, <3>3
  <2> QED BY <1>1, <1>3, <2>1, <2>2, <2>3, <2>4 DEF userPageCount
<1> QED BY <1>1, <1>2, <1>3

LEMMA LeastNat ==
    ASSUME NEW T \in SUBSET Nat, T # {}
    PROVE  \E n \in T : \A m \in T : n <= m
<1> DEFINE less == OpToRel(<, Nat)
<1>1. IsWellFoundedOn(less, Nat) /\ T \subseteq Nat
  BY NatLessThanWellFounded
<1> HIDE DEF less
<1>2. PICK n \in T : \A m \in T : ~(<<m, n>> \in less)
  BY <1>1, WFMin
<1>3. ASSUME NEW m \in T PROVE n <= m
  <2>1. ~(m < n)
    BY <1>2 DEF OpToRel, less
  <2> QED BY <2>1
<1> QED BY <1>3

LEMMA FirstPage ==
    ASSUME Typed, PageOf(1) = {}
    PROVE  people = {}
<1> SUFFICES ASSUME people # {} PROVE FALSE
  OBVIOUS
<1>1. people \in SUBSET Nat
  BY ConsoleAssumption DEF Typed
<1>2. PICK u \in people : \A v \in people : u <= v
  BY <1>1, LeastNat
<1>3. {v \in people : v <= u} = {u}
  <2>1. u \in Nat
    BY <1>1, <1>2
  <2>2. ASSUME NEW v \in people, v <= u PROVE v = u
    <3>1. v \in Nat /\ u <= v
      BY <1>1, <1>2
    <3> QED BY <2>1, <2>2, <3>1
  <2>3. u <= u
    BY <2>1
  <2> QED BY <2>2, <2>3
<1>4. Rank(u) = 1
  BY <1>3, FS_Singleton DEF Rank
<1>5. 1 \in ((1 - 1) * PerPage + 1)..(1 * PerPage)
  BY ConsoleAssumption
<1>6. u \in PageOf(1)
  BY <1>2, <1>4, <1>5 DEF PageOf
<1> QED BY <1>6

LEMMA FieldsSent == TableReads \subseteq Fields("usersGet")
<1>1. Encode("usersGet") = encodeUsersGetResponse
  BY DEF Encode
<1>2. encodeUsersGetResponse.OK.body = UsersGetOK
  BY DEF encodeUsersGetResponse, Answer
<1>3. {"inbounds", "stats"} \subseteq DOMAIN UsersGetOK.fields["users"].of.fields
  BY DEF UsersGetOK, Obj, Arr, UsersGetOKUsersItem
<1> QED BY <1>1, <1>2, <1>3 DEF Fields, TableReads

\* The step back from past the end.
Past(t) == t.ans.rows = {} /\ t.ans.total > 0 /\ userPage > 1

LEMMA UsersOnward ==
    ASSUME Typed, NEW t \in Tasks, t.req.op = "usersGet", Went(t), NEW u \in {Idle} \cup Tasks,
           UNCHANGED <<people, custom, tab, scope, shown, customs>>,
           rows' = [fields |-> Fields("usersGet"), of |-> t.ans.rows], total' = t.ans.total,
           ~Past(t) => userPage' = userPage /\ (t.todo = <<>> => u = Idle),
           Past(t) => u # Idle /\ u.req.op = "usersGet" /\ u.todo = <<>> /\ u.ans = NoAnswer /\ u.req.arg = userPage'
    PROVE  Onward(t, u)
<1> SUFFICES ASSUME OnWay(t) PROVE IF u = Idle THEN Settled' ELSE OnWay(u)'
  BY DEF Onward
<1>1. tab # "config"
  BY DEF OnWay, ToEditor
<1>2. CASE tab = "users"
  <2>1. /\ t.todo = <<>> /\ t.req.arg = userPage
        /\ t.ans.rows = PageOf(userPage) /\ t.ans.total = Cardinality(people)
    BY <1>2 DEF OnWay, ToTable
  <2>2. CASE Past(t)
    <3>1. ToTable(u)'
      BY <2>2, Unanswered DEF ToTable, Fetches, Went
    <3> QED BY <3>1, <2>2, <1>2 DEF OnWay
  <2>3. CASE ~Past(t)
    <3>1. u = Idle /\ userPage' = userPage
      BY <2>1, <2>3
    <3>2. rows'.of = PageOf(userPage) /\ total' = Cardinality(people) /\ TableReads \subseteq rows'.fields
      BY <2>1, FieldsSent
    <3>3. PageOf(userPage)' = PageOf(userPage) /\ people' = people
      BY <3>1 DEF PageOf, Rank
    <3>4. ASSUME rows'.of = {} PROVE people = {}
      <4>1. t.ans.rows = {}
        BY <3>4
      <4>2. IsFiniteSet(people) /\ Cardinality(people) \in 0..MaxUser
        BY Counted
      <4>3. t.ans.total <= 0 \/ userPage <= 1
        <5>1. ~(t.ans.total > 0 /\ userPage > 1)
          BY <2>3, <4>1 DEF Past
        <5>2. t.ans.total \in Int /\ userPage \in Int
          BY <2>1, <4>2, ConsoleAssumption DEF Typed
        <5> QED BY <5>1, <5>2
      <4>4. CASE userPage <= 1
        <5>1. userPage = 1
          BY <4>4 DEF Typed
        <5> QED BY <5>1, <4>1, <2>1, FirstPage
      <4>5. CASE t.ans.total <= 0
        <5>1. Cardinality(people) = 0
          BY <4>2, <4>5, <2>1
        <5> QED BY <5>1, <4>2, FS_EmptySet
      <4> QED BY <4>3, <4>4, <4>5
    <3>5. Table'
      BY <3>2, <3>3, <3>4 DEF Table
    <3> QED BY <3>1, <3>5, <1>2 DEF Settled
  <2> QED BY <2>2, <2>3
<1>3. CASE tab \notin {"users", "config"}
  BY <1>3 DEF OnWay, Settled
<1> QED BY <1>1, <1>2, <1>3

LEMMA UsersGetKeeps ==
    ASSUME IInv, NEW s \in Slots, GotUsers(s)
    PROVE  IInv'
<1>0. PICK t : t = tasks[s]
  OBVIOUS
<1>1. /\ page = "shell" /\ t # Idle /\ t.req.op = "usersGet" /\ Went(t)
      /\ rows' = [fields |-> Fields("usersGet"), of |-> t.ans.rows] /\ total' = t.ans.total
      /\ userPage' = IF Past(t) THEN userPageCount(t.ans.total) ELSE userPage
      /\ Past(t) => tasks' = [tasks EXCEPT ![s] = Call(t, <<"usersGet">>, scope, userPage')]
      /\ ~Past(t) => GoOn(s, scope, userPage, schema)
      /\ Same /\ UNCHANGED <<tab, scope, shown, customs, schema, busy>>
  BY <1>0 DEF GotUsers, Got, Answered, Good, Status, Went, Past
<1>2. t \in Tasks
  BY <1>0, <1>1, TaskCases DEF IInv
<1>3. t.ans.total \in 0..MaxUser
  BY <1>2 DEF Tasks, Answers
<1>4. userPage' \in 1..MaxUser
  BY <1>1, <1>3, LastPage DEF IInv, Typed
<1>5. Shows
  BY <1>1, <1>3, <1>4 DEF IInv, Typed, Shows
<1>6. scope \in Scope /\ userPage \in Scope /\ userPage' \in Scope /\ schema \in BOOLEAN
  BY <1>4 DEF IInv, Typed, Scope, User
<1>7. PICK u \in {Idle} \cup Tasks :
         /\ tasks' = [tasks EXCEPT ![s] = u]
         /\ ~Past(t) /\ t.todo = <<>> => u = Idle
         /\ Past(t) => u # Idle /\ u.req.op = "usersGet" /\ u.todo = <<>> /\ u.ans = NoAnswer
                       /\ u.req.arg = userPage'
  <2>1. CASE Past(t)
    <3>1. PICK p : p = userPage'
      OBVIOUS
    <3>2. PICK u : u = Call(t, <<"usersGet">>, scope, p)
      OBVIOUS
    <3>3. Head(<<"usersGet">>) = "usersGet" /\ Tail(<<"usersGet">>) = <<>> /\ "usersGet" \in Op /\ <<>> \in Todos
      BY DEF Op, Gets, Todos
    <3>4. t.m \in Methods /\ t.who \in Scope /\ t.draft \in Draft
      BY <1>2 DEF Tasks
    <3>5. u \in Tasks
      BY <3>1, <3>2, <3>3, <3>4, <1>6, CallTyped DEF IInv
    <3>6. /\ u.req.op = Head(<<"usersGet">>) /\ u.todo = Tail(<<"usersGet">>) /\ u.ans = NoAnswer
          /\ u.req.arg = Arg(Head(<<"usersGet">>), t.who, scope, p)
      BY <3>2 DEF Call
    <3>7. u.req.arg = p
      BY <3>3, <3>6 DEF Arg
    <3> QED BY <1>1, <2>1, <3>1, <3>2, <3>3, <3>5, <3>6, <3>7, NotIdle
  <2>2. CASE ~Past(t)
    <3>1. PICK u \in {Idle} \cup Tasks :
             /\ tasks' = [tasks EXCEPT ![s] = u]
             /\ Continues(tasks[s], u, Left(tasks[s].todo, schema), scope, userPage)
      BY <1>0, <1>1, <1>6, <2>2, GoneOn DEF IInv
    <3>2. GoesOn(t, u, schema, scope, userPage)
      BY <1>0, <1>6, <3>1, Goes
    <3>3. t.todo = <<>> => u = Idle
      BY <3>2 DEF GoesOn
    <3> QED BY <2>2, <3>1, <3>3
  <2> QED BY <2>1, <2>2
<1>8. UNCHANGED <<people, custom>>
  BY <1>1 DEF Same, server, site
<1>9. Onward(t, u)
  BY <1>1, <1>2, <1>7, <1>8, UsersOnward DEF IInv
<1> QED BY <1>0, <1>1, <1>5, <1>7, <1>9, Moves

LEMMA CustomsOnward ==
    ASSUME NEW t, t.req.op = "configCustoms", Went(t), NEW u,
           NEW sc, sc = ScopeAfter(t, t.ans.customs), GoesOn(t, u, schema, sc, userPage),
           UNCHANGED <<people, custom, tab>>, scope' = sc, customs' = t.ans.customs, rows'.of = t.ans.rows
    PROVE  Onward(t, u)
<1> SUFFICES ASSUME OnWay(t) PROVE IF u = Idle THEN Settled' ELSE OnWay(u)'
  BY DEF Onward
<1>1. tab # "users"
  BY DEF OnWay, ToTable
<1>2. CASE tab = "config"
  <2>1. /\ t.todo = <<"configGet">>
        /\ t.m = "createCustom" => t.who \in custom
        /\ t.ans.rows = people /\ t.ans.customs = custom
    BY <1>2 DEF OnWay, ToEditor
  <2>2. u \in Tasks /\ u.todo = <<>> /\ u.ans = NoAnswer /\ u.req.op = "configGet" /\ u.req.arg = sc
    BY <2>1 DEF GoesOn
  <2>3. sc \in {Base} \cup custom
    BY <2>1 DEF ScopeAfter
  <2>4. ToEditor(u)'
    BY <2>1, <2>2, <2>3, Unanswered DEF ToEditor, Fetches
  <2> QED BY <2>2, <2>4, <1>2, NotIdle DEF OnWay
<1>3. CASE tab \notin {"users", "config"}
  BY <1>3 DEF OnWay, Settled
<1> QED BY <1>1, <1>2, <1>3

LEMMA CustomsGetKeeps ==
    ASSUME IInv, NEW s \in Slots, GotCustoms(s)
    PROVE  IInv'
<1>0. PICK t : t = tasks[s]
  OBVIOUS
<1>1. PICK sc : sc = ScopeAfter(t, t.ans.customs)
  OBVIOUS
<1>2. /\ page = "shell" /\ t # Idle /\ t.req.op = "configCustoms" /\ Went(t)
      /\ customs' = t.ans.customs /\ rows' = [fields |-> Fields("configCustoms"), of |-> t.ans.rows]
      /\ scope' = sc
      /\ GoOn(s, sc, userPage, schema)
      /\ Same /\ UNCHANGED <<tab, shown, userPage, total, schema, busy>>
  BY <1>0, <1>1 DEF GotCustoms, Got, Answered, Good, Status, Went
<1>3. t \in Tasks
  BY <1>0, <1>2, TaskCases DEF IInv
<1>4. sc \in Scope
  BY <1>1, <1>3 DEF ScopeAfter, Tasks, Scope, IInv, Typed
<1>5. userPage \in Scope /\ schema \in BOOLEAN
  BY DEF IInv, Typed, Scope, User
<1>6. Shows
  BY <1>2, <1>4 DEF IInv, Typed, Shows
<1>7. PICK u \in {Idle} \cup Tasks :
         /\ tasks' = [tasks EXCEPT ![s] = u]
         /\ Continues(tasks[s], u, Left(tasks[s].todo, schema), sc, userPage)
  BY <1>0, <1>2, <1>4, <1>5, GoneOn DEF IInv
<1>8. GoesOn(t, u, schema, sc, userPage)
  BY <1>0, <1>5, <1>7, Goes
<1>9. UNCHANGED <<people, custom>> /\ rows'.of = t.ans.rows
  BY <1>2 DEF Same, server, site
<1>10. Onward(t, u)
  BY <1>1, <1>2, <1>8, <1>9, CustomsOnward
<1> QED BY <1>0, <1>2, <1>6, <1>7, <1>10, Moves

LEMMA ConfigOnward ==
    ASSUME NEW t, t.req.op = "configGet", NEW u, GoesOn(t, u, schema, scope, userPage),
           UNCHANGED <<people, custom, tab, scope, customs, rows>>, shown' = t.req.arg
    PROVE  Onward(t, u)
<1> SUFFICES ASSUME OnWay(t) PROVE IF u = Idle THEN Settled' ELSE OnWay(u)'
  BY DEF Onward
<1>1. tab # "users"
  BY DEF OnWay, ToTable
<1>2. CASE tab = "config"
  <2>1. /\ t.todo = <<>> /\ t.req.arg = scope /\ rows.of = people /\ customs = custom
        /\ scope \in {Base} \cup custom
    BY <1>2 DEF OnWay, ToEditor
  <2>2. u = Idle
    BY <2>1 DEF GoesOn
  <2>3. Editor'
    BY <2>1 DEF Editor
  <2> QED BY <2>2, <2>3, <1>2 DEF Settled
<1>3. CASE tab \notin {"users", "config"}
  BY <1>3 DEF OnWay, Settled
<1> QED BY <1>1, <1>2, <1>3

LEMMA ConfigGetKeeps ==
    ASSUME IInv, NEW s \in Slots, GotConfig(s)
    PROVE  IInv'
<1>0. PICK t : t = tasks[s]
  OBVIOUS
<1>1. /\ page = "shell" /\ t # Idle /\ t.req.op = "configGet" /\ shown' = t.req.arg
      /\ GoOn(s, scope, userPage, schema)
      /\ Same /\ UNCHANGED <<tab, scope, customs, rows, userPage, total, schema, busy>>
  BY <1>0 DEF GotConfig, Got, Answered, Arg_
<1>2. t \in Tasks
  BY <1>0, <1>1, TaskCases DEF IInv
<1>3. scope \in Scope /\ userPage \in Scope /\ schema \in BOOLEAN
  BY DEF IInv, Typed, Scope, User
<1>4. shown' \in Scope
  BY <1>1, <1>2 DEF Tasks, Requests
<1>5. Shows
  BY <1>1, <1>4 DEF IInv, Typed, Shows
<1>6. PICK u \in {Idle} \cup Tasks :
         /\ tasks' = [tasks EXCEPT ![s] = u]
         /\ Continues(tasks[s], u, Left(tasks[s].todo, schema), scope, userPage)
  BY <1>0, <1>1, <1>3, GoneOn DEF IInv
<1>7. GoesOn(t, u, schema, scope, userPage)
  BY <1>0, <1>3, <1>6, Goes
<1>8. UNCHANGED <<people, custom>>
  BY <1>1 DEF Same, server, site
<1>9. Onward(t, u)
  BY <1>1, <1>7, <1>8, ConfigOnward
<1> QED BY <1>0, <1>1, <1>5, <1>6, <1>9, Moves

LEMMA PostOnward ==
    ASSUME NEW t, t.req.op \in Posts, Went(t), NEW u, schema \in BOOLEAN,
           GoesOn(t, u, schema, scope, userPage), UNCHANGED Looks
    PROVE  Onward(t, u)
<1> SUFFICES ASSUME OnWay(t) PROVE IF u = Idle THEN Settled' ELSE OnWay(u)'
  BY DEF Onward
<1>1. OnWay(u)' = OnWay(u) /\ tab' = tab /\ Settled' = Settled
  BY SameWay, SameTable DEF Looks
<1>2. CASE tab = "users"
  <2>1. t.todo = <<"usersGet">>
    BY <1>2 DEF OnWay, ToTable, Posts
  <2>2. u \in Tasks /\ u.todo = <<>> /\ u.ans = NoAnswer /\ u.req.op = "usersGet" /\ u.req.arg = userPage
    BY <2>1 DEF GoesOn
  <2>3. ToTable(u)
    BY <2>2, Unanswered DEF ToTable
  <2> QED BY <2>2, <2>3, <1>1, <1>2, NotIdle DEF OnWay
<1>3. CASE tab = "config"
  <2>0. ToEditor(t)
    BY <1>3 DEF OnWay
  <2>1. CASE t.req.op \in {"customCreate", "customDelete"}
    <3>1. /\ t.todo = <<"configCustoms", "configGet">> /\ t.m \in {"createCustom", "deleteCustom"}
          /\ t.m = "createCustom" => t.who \in custom
      BY <2>0, <2>1 DEF ToEditor
    <3>2. /\ u \in Tasks /\ u.todo = <<"configGet">> /\ u.ans = NoAnswer /\ u.m = t.m /\ u.who = t.who
          /\ u.req.op = "configCustoms"
      BY <3>1 DEF GoesOn
    <3>3. ToEditor(u)
      BY <3>1, <3>2, Unanswered DEF ToEditor
    <3> QED BY <3>2, <3>3, <1>1, <1>3, NotIdle DEF OnWay
  <2>2. CASE t.req.op \notin {"customCreate", "customDelete"}
    <3>1. t.todo = <<>> /\ Editor
      BY <2>0, <2>2 DEF ToEditor, Posts
    <3>2. u = Idle
      BY <3>1 DEF GoesOn
    <3> QED BY <3>1, <3>2, <1>1, <1>3 DEF Settled
  <2> QED BY <2>1, <2>2
<1>4. CASE tab \notin {"users", "config"}
  BY <1>1, <1>4 DEF OnWay, Settled
<1> QED BY <1>2, <1>3, <1>4

LEMMA PostedKeeps ==
    ASSUME IInv, NEW s \in Slots, GotPosted(s)
    PROVE  IInv'
<1>0. PICK t : t = tasks[s]
  OBVIOUS
<1>1. /\ Answered(s) /\ page = "shell" /\ t # Idle /\ t.req.op \in Posts
      /\ Went(t) => GoOn(s, scope, userPage, schema)
      /\ ~Went(t) => Stop(s)
      /\ Same /\ UNCHANGED <<tab, scope, shown, customs, rows, userPage, total, schema>>
  BY <1>0 DEF GotPosted, Answered, Good, Status, Went
<1>2. CASE ~Went(t)
  <2>1. tab = "users" /\ ToTable(t) => Table
    BY <1>0, <1>1, <1>2 DEF ToTable, Posts, Storing, Answered
  <2>2. tab = "config" /\ ToEditor(t) => Editor
    BY <1>1, <1>2 DEF ToEditor, Posts
  <2>3. OnWay(t) => Settled
    BY <2>1, <2>2 DEF OnWay, Settled
  <2> QED BY <1>0, <1>1, <1>2, <2>3, Stops
<1>3. CASE Went(t)
  <2>1. scope \in Scope /\ userPage \in Scope /\ schema \in BOOLEAN
    BY DEF IInv, Typed, Scope, User
  <2>2. Shows /\ UNCHANGED Looks
    BY <1>1, <2>1, AsShown DEF Looks, Same, server, site
  <2>3. PICK u \in {Idle} \cup Tasks :
           /\ tasks' = [tasks EXCEPT ![s] = u]
           /\ Continues(tasks[s], u, Left(tasks[s].todo, schema), scope, userPage)
    BY <1>0, <1>1, <1>3, <2>1, GoneOn DEF IInv
  <2>4. GoesOn(t, u, schema, scope, userPage)
    BY <1>0, <2>1, <2>3, Goes
  <2>5. Onward(t, u)
    BY <1>1, <1>3, <2>1, <2>2, <2>4, PostOnward
  <2> QED BY <1>0, <1>1, <2>2, <2>3, <2>5, Moves
<1> QED BY <1>2, <1>3

LEMMA OutKeeps ==
    ASSUME IInv, NEW s \in Slots, GotUnauthorized(s) \/ GotLoggedOut(s)
    PROVE  IInv'
<1>1. NoCookie \in Cookies
  BY DEF NoCookie, Cookies
<1>2. Leave("login") /\ UNCHANGED <<site, bounds>> /\ jar' \in {jar, NoCookie}
  BY DEF GotUnauthorized, GotLoggedOut, ClearCookie
<1>3. jar \in Cookies
  BY DEF IInv, Typed
<1> QED BY <1>1, <1>2, <1>3, LeaveKeeps

LEMMA ReceiveKeeps ==
    ASSUME IInv, NEW s \in Slots, Receive(s)
    PROVE  IInv'
BY OutKeeps, NothingKeeps, NodesGetKeeps, SchemaKeeps, UsersGetKeeps, CustomsGetKeeps, ConfigGetKeeps,
   PostedKeeps, CheckedKeeps DEF Receive

(***************************************************************************)
(* Documents, time and the other operator.                                    *)
(***************************************************************************)
\* What is shown is as before, no method moved, and if users and custom configs did, the
\* tab is no longer left alone.
LEMMA Stays ==
    ASSUME IInv, UNCHANGED <<page, view, tasks>>, clean' => clean /\ UNCHANGED <<people, custom>>,
           born' \in 0..MaxUser, people' \subseteq 1..born', custom' \subseteq User,
           orphans' \subseteq Orphans,
           now' \in Nat, secret' \in Nat, events' \in Nat, jar' \in Cookies
    PROVE  IInv'
<1>1. Typed'
  BY DEF IInv, Typed, view, Quiet
<1>2. CASE clean'
  <2>1. UNCHANGED Looks /\ tasks' = tasks /\ page' = page /\ clean
    BY <1>2 DEF Looks, view
  <2>2. Settled' = Settled /\ \A t : OnWay(t)' = OnWay(t)
    BY <2>1, SameTable, SameWay
  <2>3. Settling'
    BY <2>1, <2>2 DEF IInv, Settling, Quiet
  <2> QED BY <1>1, <2>3 DEF IInv
<1>3. CASE ~clean'
  BY <1>1, <1>3 DEF IInv, Settling
<1> QED BY <1>2, <1>3

\* Nothing of the server but the time and the secret.
LEMMA SiteTyped ==
    ASSUME Typed, UNCHANGED <<people, born, custom>>
    PROVE  /\ born' \in 0..MaxUser /\ people' \subseteq 1..born' /\ custom' \subseteq User
           /\ orphans \subseteq Orphans
BY DEF Typed

LEMMA LateKeeps ==
    ASSUME IInv, NEW e \in orphans, Late(e)
    PROVE  IInv'
<1>1. /\ e \in Orphans /\ orphans \subseteq Orphans /\ now \in Nat /\ secret \in Nat /\ events \in Nat
      /\ jar \in Cookies
  BY DEF IInv, Typed
<1>2. UNCHANGED <<now, secret, page, jar, view, tasks, events>>
  BY DEF Late, browser
<1>3. CASE /\ orphans' = (orphans \ {e}) \cup {[e EXCEPT !.at = "in", !.since = now]}
           /\ UNCHANGED <<people, born, custom, clean>>
  <2>1. [e EXCEPT !.at = "in", !.since = now] \in Orphans
    BY <1>1 DEF Orphans, Ats
  <2>2. orphans' \subseteq Orphans
    BY <1>1, <1>3, <2>1
  <2> QED BY <1>1, <1>2, <1>3, <2>2, SiteTyped, Stays DEF IInv
<1>4. CASE /\ Write(e) /\ orphans' = orphans \ {e}
           /\ clean' = (clean /\ people' = people /\ custom' = custom)
  <2>1. e.req \in Requests
    BY <1>1 DEF Orphans
  <2>2. born' \in 0..MaxUser /\ people' \subseteq 1..born' /\ custom' \subseteq User
    BY <1>4, <2>1, WriteWhat DEF IInv
  <2>3. orphans' \subseteq Orphans
    BY <1>1, <1>4
  <2> QED BY <1>1, <1>2, <1>4, <2>2, <2>3, Stays
<1>5. CASE orphans' = orphans \ {e} /\ UNCHANGED <<people, born, custom, clean>>
  <2>1. orphans' \subseteq Orphans
    BY <1>1, <1>5
  <2> QED BY <1>1, <1>2, <1>5, <2>1, SiteTyped, Stays DEF IInv
<1> QED BY <1>3, <1>4, <1>5 DEF Late

\* A restart answers nobody whose handler ran.
LEMMA RekeyKeeps ==
    ASSUME IInv, Rekey
    PROVE  IInv'
<1>1. /\ now' \in Nat /\ secret' \in Nat /\ events' \in Nat /\ jar' \in Cookies
      /\ UNCHANGED <<people, born, custom, page, view>>
  BY DEF Rekey, Event, browser, IInv, Typed
<1>2. orphans' \subseteq Orphans
  BY DEF Rekey, IInv, Typed
<1>3. CASE \A s \in Slots : ~Inside(s)
  <2>1. tasks' = tasks
    <3>1. tasks' = [s \in Slots |-> tasks[s]]
      BY <1>3 DEF Rekey
    <3> QED BY <3>1 DEF IInv, Typed
  <2>2. clean' => clean
    BY DEF Rekey
  <2> QED BY <1>1, <1>2, <2>1, <2>2, SiteTyped, Stays DEF IInv
<1>4. CASE ~(\A s \in Slots : ~Inside(s))
  <2>1. ~clean'
    BY <1>4 DEF Rekey
  <2>2. PICK a : a = [NoAnswer EXCEPT !.status = LostStatus]
    OBVIOUS
  <2>3. a \in Answers
    BY <2>2, ConsoleAssumption DEF NoAnswer, LostStatus, Answers
  <2>4. ASSUME NEW s \in Slots
        PROVE  /\ tasks'[s] \in {Idle} \cup Tasks
               /\ tasks[s] = Idle => tasks'[s] = Idle
    <3>1. CASE Inside(s)
      <4>1. PICK o : o = tasks[s]
        OBVIOUS
      <4>2. o \in Tasks /\ tasks[s] # Idle
        BY <3>1, <4>1, TaskCases DEF Inside, Out, IInv
      <4>3. tasks'[s] = [o EXCEPT !.ans = a]
        BY <3>1, <4>1, <2>2 DEF Rekey
      <4>4. [o EXCEPT !.ans = a] \in Tasks
        BY <4>2, <2>3 DEF Tasks
      <4> QED BY <4>2, <4>3, <4>4
    <3>2. CASE ~Inside(s)
      <4>1. tasks'[s] = tasks[s]
        BY <3>2 DEF Rekey
      <4> QED BY <4>1 DEF IInv, Typed
    <3> QED BY <3>1, <3>2
  <2>5. tasks' \in [Slots -> {Idle} \cup Tasks]
    <3>1. tasks' = [s \in Slots |-> tasks'[s]]
      BY DEF Rekey
    <3> QED BY <3>1, <2>4
  <2>6. page' # "shell" => Quiet'
    BY <1>1, <2>4 DEF IInv, Typed, Quiet
  <2>7. Typed'
    BY <1>1, <1>2, <2>5, <2>6 DEF IInv, Typed, view
  <2> QED BY <2>1, <2>7 DEF IInv, Settling
<1> QED BY <1>3, <1>4

LEMMA FetchedKeeps ==
    ASSUME IInv, Fetched
    PROVE  IInv'
<1>1. page = "nav" /\ Quiet /\ UNCHANGED <<server, jar, uses, events>>
  BY DEF IInv, Typed, Fetched
<1>2. CASE UNCHANGED <<page, view, tasks, clean>>
  <2>1. now \in Nat /\ secret \in Nat /\ events \in Nat /\ jar \in Cookies
    BY DEF IInv, Typed
  <2>2. UNCHANGED <<now, secret, people, born, custom, orphans>>
    BY <1>1 DEF server, site
  <2> QED BY <1>1, <1>2, <2>1, <2>2, SiteTyped, Stays DEF IInv
<1>3. CASE page' = "login" /\ UNCHANGED <<view, tasks>>
  <2>1. Typed'
    BY <1>1, <1>3 DEF IInv, Typed, server, site, view, Quiet
  <2>2. Settling'
    BY <1>3 DEF Settling
  <2> QED BY <2>1, <2>2 DEF IInv
<1>4. CASE /\ page' = "shell" /\ Data
           /\ \E s \in Slots :
                tasks' = [tasks EXCEPT ![s] = Call([m |-> "go", who |-> Base, draft |-> "good"],
                                                  load("users"), Base, 1)]
  <2>1. PICK s \in Slots :
          tasks' = [tasks EXCEPT ![s] = Call([m |-> "go", who |-> Base, draft |-> "good"],
                                            load("users"), Base, 1)]
    BY <1>4
  <2>2. PICK t : t = Call([m |-> "go", who |-> Base, draft |-> "good"], load("users"), Base, 1)
    OBVIOUS
  <2>3. load("users") = <<"nodesGet", "usersGet">>
    BY DEF load
  <2>4. Head(load("users")) = "nodesGet" /\ Tail(load("users")) = <<"usersGet">>
    <3>1. Head(<<"nodesGet", "usersGet">>) = "nodesGet" /\ Tail(<<"nodesGet", "usersGet">>) = <<"usersGet">>
      OBVIOUS
    <3> QED BY <2>3, <3>1
  <2>5. "nodesGet" \in Op /\ <<"usersGet">> \in Todos
    BY DEF Op, Gets, Todos
  <2>6. 1 \in 1..MaxUser /\ 0 \in 0..MaxUser
    BY ConsoleAssumption
  <2>7. 1 \in Scope /\ Base \in Scope /\ "go" \in Methods /\ "good" \in Draft
    BY <2>6 DEF Scope, User, Methods, Draft
  <2>8. t \in Tasks
    BY <2>2, <2>4, <2>5, <2>7, CallTyped DEF IInv
  <2>9. t.req.op = "nodesGet" /\ t.todo = <<"usersGet">> /\ t.ans = NoAnswer
    BY <2>2, <2>4 DEF Call
  <2>10. tasks' = [tasks EXCEPT ![s] = t]
    BY <2>1, <2>2
  <2>11. tab' = "users" /\ scope' = Base /\ shown' = Blank /\ userPage' = 1 /\ total' = 0 /\ schema' = FALSE
    BY <1>4 DEF Data
  <2>12. Typed'
    <3>1. tasks' \in [Slots -> {Idle} \cup Tasks]
      BY <2>8, <2>10 DEF IInv, Typed
    <3>2. tab' \in Tabs
      BY <2>11 DEF Tabs
    <3> QED BY <1>1, <1>4, <2>6, <2>7, <2>11, <3>1, <3>2 DEF IInv, Typed, server, site
  <2>13. OnWay(t)'
    BY <2>9, <2>11, Unanswered DEF OnWay, ToTable, Fetches
  <2>14. Settling'
    BY <1>1, <2>8, <2>10, <2>13, OneMoves, NotIdle DEF IInv
  <2> QED BY <2>12, <2>14 DEF IInv
<1> QED BY <1>2, <1>3, <1>4 DEF Fetched

LEMMA OutsideKeeps ==
    ASSUME IInv,
           \/ login(TRUE) \/ (\E path \in {"users", "login"} : Visit(path))
           \/ (\E e \in orphans : Late(e))
           \/ Tick \/ Rekey \/ Foreign \/ UNCHANGED vars
    PROVE  IInv'
<1>0. /\ now \in Nat /\ secret \in Nat /\ events \in Nat /\ jar \in Cookies /\ TTL \in Nat
      /\ events + 1 \in Nat /\ now + 1 \in Nat /\ secret + 1 \in Nat
  BY ConsoleAssumption DEF IInv, Typed
<1>1. CASE login(TRUE)
  <2>1. IssueCookie \in Cookies
    BY <1>0 DEF IssueCookie, Cookies
  <2> QED BY <1>1, <2>1, LeaveKeeps DEF login
<1>2. CASE \E path \in {"users", "login"} : Visit(path)
  BY <1>0, <1>2, LeaveKeeps DEF Visit
<1>3. CASE Tick
  <2>1. jar' \in {jar, NoCookie} /\ NoCookie \in Cookies
    BY <1>3 DEF Tick, NoCookie, Cookies
  <2> QED BY <1>0, <1>3, <2>1, SiteTyped, Stays DEF Tick, Event, IInv
<1>4. CASE Rekey
  BY <1>4, RekeyKeeps
<1>5. CASE Foreign
  <2>1. PICK u \in people :
          \/ people' = people \ {u} /\ custom' = custom \ {u}
          \/ custom' = (IF u \in custom THEN custom \ {u} ELSE custom \cup {u}) /\ UNCHANGED people
    BY <1>5 DEF Foreign
  <2>2. people \subseteq User /\ custom \subseteq User /\ people \subseteq 1..born /\ born' = born
    BY <1>5, Counted DEF IInv, Typed, Foreign
  <2>3. people' \subseteq people /\ custom' \subseteq User
    BY <2>1, <2>2
  <2>4. people' \subseteq 1..born'
    BY <2>2, <2>3
  <2>5. /\ UNCHANGED <<now, secret, born, orphans, browser, view, tasks>> /\ ~clean' /\ events' = events + 1
    BY <1>5 DEF Foreign, Event
  <2> QED BY <1>0, <2>2, <2>3, <2>4, <2>5, Stays DEF browser, IInv, Typed
<1>6. CASE UNCHANGED vars
  <2>1. UNCHANGED <<now, secret, people, born, custom, orphans, page, jar, view, tasks, clean, events>>
    BY <1>6 DEF vars, server, site, browser, bounds
  <2> QED BY <1>0, <2>1, SiteTyped, Stays DEF IInv
<1>7. CASE \E e \in orphans : Late(e)
  BY <1>7, LateKeeps
<1> QED BY <1>1, <1>2, <1>3, <1>4, <1>5, <1>6, <1>7

LEMMA Starting ==
    ASSUME Init
    PROVE  IInv
<1>1. /\ MaxUser \in Nat /\ MaxUser >= 1 /\ born = MaxUser - 1 /\ people = 1..born
  BY ConsoleAssumption DEF Init
<1>2. born \in 0..MaxUser /\ people \subseteq 1..born /\ 1 \in 1..MaxUser /\ 0 \in 0..MaxUser
  BY <1>1
<1>3. Quiet /\ tasks \in [Slots -> {Idle} \cup Tasks]
  BY DEF Init, Quiet
<1>4. jar \in Cookies /\ tab \in Tabs /\ scope \in Scope /\ shown \in Scope \cup {Blank}
  BY DEF Init, NoCookie, Cookies, Tabs, Scope
<1>5. Typed
  BY <1>2, <1>3, <1>4 DEF Init, Typed
<1>6. page # "shell"
  BY DEF Init
<1> QED BY <1>5, <1>6 DEF IInv, Settling

LEMMA Inductive == Spec => []IInv
<1>1. Init => IInv
  BY Starting
<1>2. IInv /\ [Next]_vars => IInv'
  <2> SUFFICES ASSUME IInv, [Next]_vars PROVE IInv'
    OBVIOUS
  <2>1. ASSUME NEW s \in Slots, Method(s) \/ Handler(s) \/ Lost(s) \/ Receive(s) PROVE IInv'
    <3>1. CASE Enter(s) \/ FindUser(s) \/ StoreUser(s)
      BY <3>1, WorkKeeps
    <3>2. CASE (Handler(s) \/ Lost(s)) /\ ~(Enter(s) \/ FindUser(s) \/ StoreUser(s))
      BY <3>2, HandlerReplies, ReplyKeeps DEF IInv
    <3> QED BY <2>1, <3>1, <3>2, MethodKeeps, ReceiveKeeps
  <2> QED BY <2>1, FetchedKeeps, OutsideKeeps DEF Next
<1> QED BY <1>1, <1>2, PTL DEF Spec

(***************************************************************************)
(* Who is let in.                                                             *)
(***************************************************************************)
\* Beyond the session check there is nothing but what it let in: logout alone asks for no
\* session.
Vetted(t) == t.at # "sent" /\ t.req.op # "logout" => LetIn(t)

Admitted ==
    /\ \A s \in Slots : Out(s) => Vetted(tasks[s])
    /\ \A e \in orphans : Vetted(e)

\* A page that gives up leaves behind what was let in, as it was.
LEMMA LeftBehind ==
    ASSUME Admitted, NEW e \in Abandoned(Slots)
    PROVE  Vetted(e)
<1>1. PICK s \in Slots : Out(s) /\ e = [req |-> tasks[s].req, at |-> tasks[s].at, since |-> tasks[s].since]
  BY DEF Abandoned
<1>2. Vetted(tasks[s])
  BY <1>1 DEF Admitted
<1> QED BY <1>1, <1>2 DEF Vetted, LetIn

LEMMA OrphansVetted ==
    ASSUME Admitted, UNCHANGED secret, orphans' \subseteq orphans \cup Abandoned(Slots)
    PROVE  \A e \in orphans' : Vetted(e)'
<1> SUFFICES ASSUME NEW e \in orphans' PROVE Vetted(e)'
  OBVIOUS
<1>1. Vetted(e)
  BY LeftBehind DEF Admitted
<1> QED BY <1>1 DEF Vetted, LetIn

\* One slot moves, to a task that answers for itself.
LEMMA SlotMoves ==
    ASSUME Typed, Admitted, UNCHANGED <<secret, page>>, orphans' \subseteq orphans \cup Abandoned(Slots),
           NEW s \in Slots, NEW u, tasks' = [tasks EXCEPT ![s] = u],
           u = Idle \/ u.ans # NoAnswer \/ Vetted(u)
    PROVE  Admitted'
<1>1. ASSUME NEW r \in Slots, Out(r)' PROVE Vetted(tasks[r])'
  <2>1. CASE r = s
    <3>1. tasks'[r] = u
      BY <2>1 DEF Typed
    <3>2. Vetted(u)
      BY <1>1, <3>1 DEF Out
    <3> QED BY <3>1, <3>2 DEF Vetted, LetIn
  <2>2. CASE r # s
    <3>1. tasks'[r] = tasks[r]
      BY <2>2 DEF Typed
    <3>2. Vetted(tasks[r])
      BY <1>1, <3>1 DEF Out, Admitted
    <3> QED BY <3>1, <3>2 DEF Vetted, LetIn
  <2> QED BY <2>1, <2>2
<1> QED BY <1>1, OrphansVetted DEF Admitted

\* Nobody moves.
LEMMA NobodyMoves ==
    ASSUME Admitted, UNCHANGED <<secret, page, tasks>>, \A e \in orphans' : Vetted(e)
    PROVE  Admitted'
<1>1. ASSUME NEW r \in Slots, Out(r)' PROVE Vetted(tasks[r])'
  <2>1. Vetted(tasks[r])
    BY <1>1 DEF Out, Admitted
  <2> QED BY <2>1 DEF Vetted, LetIn
<1>2. ASSUME NEW e \in orphans' PROVE Vetted(e)'
  <2>1. Vetted(e)
    BY <1>2
  <2> QED BY <2>1 DEF Vetted, LetIn
<1> QED BY <1>1, <1>2 DEF Admitted

LEMMA LeavesAdmitted ==
    ASSUME Admitted, NEW path, Leave(path), UNCHANGED site
    PROVE  Admitted'
<1>1. UNCHANGED secret /\ page' # "shell" /\ orphans' \subseteq orphans \cup Abandoned(Slots)
  BY DEF Leave, site
<1>2. \A r \in Slots : ~Out(r)'
  BY <1>1 DEF Out
<1> QED BY <1>1, <1>2, OrphansVetted DEF Admitted

LEMMA Unsent ==
    ASSUME NEW t, NEW calls, NEW sc, NEW pg
    PROVE  Vetted(Call(t, calls, sc, pg))
<1>1. Call(t, calls, sc, pg).at = "sent"
  BY DEF Call
<1> QED BY <1>1 DEF Vetted

\* The tab: a method sends its calls, drops them with the page, or is done.
LEMMA MethodAdmitted ==
    ASSUME Typed, Admitted, NEW s \in Slots, Method(s)
    PROVE  Admitted'
<1>1. \E m, who, draft, calls, sc, pg : Begin(s, m, who, draft, calls, sc, pg)
  <2>1. CASE \E t \in {"users", "nodes", "config"} : go(s, t)
    BY <2>1 DEF go
  <2>2. CASE \E p \in 1..MaxUser : gotoUserPage(s, p)
    BY <2>2 DEF gotoUserPage
  <2>3. CASE \E sc \in Scope : switchScope(s, sc)
    BY <2>3 DEF switchScope
  <2>4. ASSUME NEW m, NEW who, NEW draft, NEW calls, Post(s, m, who, draft, calls)
        PROVE  \E sc, pg : Begin(s, m, who, draft, calls, sc, pg)
    BY <2>4 DEF Post
  <2>5. CASE \E u \in {0} \cup User, d \in Draft : submitUser(s, u, d)
    BY <2>4, <2>5 DEF submitUser
  <2>6. ASSUME NEW u \in User, deleteUser(s, u) \/ recreateUser(s, u) \/ createCustom(s, u)
        PROVE  \E m, who, draft, calls, sc, pg : Begin(s, m, who, draft, calls, sc, pg)
    <3>1. CASE deleteUser(s, u)
      BY <2>4, <3>1 DEF deleteUser
    <3>2. CASE recreateUser(s, u)
      BY <2>4, <3>2 DEF recreateUser
    <3>3. CASE createCustom(s, u)
      BY <3>3 DEF createCustom
    <3> QED BY <2>6, <3>1, <3>2, <3>3
  <2>7. ASSUME NEW d \in Draft, saveNode(s, d) \/ saveConfig(s, d)
        PROVE  \E m, who, draft, calls, sc, pg : Begin(s, m, who, draft, calls, sc, pg)
    <3>1. CASE saveNode(s, d)
      BY <2>4, <3>1 DEF saveNode
    <3>2. CASE saveConfig(s, d)
      BY <2>4, <3>2 DEF saveConfig
    <3> QED BY <2>7, <3>1, <3>2
  <2>8. CASE deleteNode(s)
    BY <2>4, <2>8 DEF deleteNode
  <2>9. CASE deleteCustom(s)
    BY <2>4, <2>9 DEF deleteCustom
  <2>10. CASE checkProvider(s)
    BY <2>10 DEF checkProvider
  <2>11. CASE logout(s)
    BY <2>11 DEF logout
  <2> QED BY <2>1, <2>2, <2>3, <2>5, <2>6, <2>7, <2>8, <2>9, <2>10, <2>11 DEF Method
<1>2. PICK m, who, draft, calls, sc, pg : Begin(s, m, who, draft, calls, sc, pg)
  BY <1>1
<1>3. PICK u : u = Call([m |-> m, who |-> who, draft |-> draft], calls, sc, pg)
  OBVIOUS
<1>4. Vetted(u)
  BY <1>3, Unsent
<1>5. tasks' = [tasks EXCEPT ![s] = u] /\ UNCHANGED <<secret, page, orphans>>
  BY <1>2, <1>3 DEF Begin, server, site, browser
<1> QED BY <1>4, <1>5, SlotMoves

LEMMA ReceiveAdmitted ==
    ASSUME Typed, Admitted, NEW s \in Slots, Receive(s)
    PROVE  Admitted'
<1>1. CASE GotUnauthorized(s) \/ GotLoggedOut(s)
  BY <1>1, LeavesAdmitted DEF GotUnauthorized, GotLoggedOut
<1>2. CASE ~(GotUnauthorized(s) \/ GotLoggedOut(s))
  <2>1. Same
    BY <1>2 DEF Receive, GotNothing, GotNodes, GotSchema, GotUsers, GotCustoms, GotConfig, GotPosted, GotChecked
  <2>2. \/ Stop(s)
        \/ \E sc, pg, have : GoOn(s, sc, pg, have)
        \/ \E t, calls, sc, pg : tasks' = [tasks EXCEPT ![s] = Call(t, calls, sc, pg)]
    <3>1. CASE GotUsers(s)
      BY <3>1 DEF GotUsers
    <3>2. CASE GotCustoms(s)
      BY <3>2 DEF GotCustoms
    <3>3. CASE GotPosted(s)
      BY <3>3 DEF GotPosted
    <3>4. CASE GotNothing(s) \/ GotNodes(s) \/ GotSchema(s) \/ GotConfig(s) \/ GotChecked(s)
      BY <3>4 DEF GotNothing, GotNodes, GotSchema, GotConfig, GotChecked
    <3> QED BY <1>2, <3>1, <3>2, <3>3, <3>4 DEF Receive
  <2>3. PICK u : tasks' = [tasks EXCEPT ![s] = u] /\ (u = Idle \/ Vetted(u))
    BY <2>2, Unsent DEF Stop, GoOn
  <2> QED BY <2>1, <2>3, SlotMoves DEF Same, server, site, browser
<1> QED BY <1>1, <1>2

\* The server: a call is past the session check only with a cookie that was good then.
LEMMA Checked ==
    ASSUME Typed, NEW q \in Requests, Serves(q).stage = "call", q.op # "logout"
    PROVE  q.cookie # NoCookie /\ now <= q.cookie.exp /\ q.cookie.secret = secret
<1>1. securityAdminSession(q.cookie)
  BY ServesReaches DEF Reaches
<1>2. now \in Nat /\ q.cookie.exp \in Nat
  BY DEF Typed, Requests, Cookies
<1> QED BY <1>1, <1>2 DEF securityAdminSession, Valid

LEMMA ServerAdmitted ==
    ASSUME Typed, Admitted, NEW s \in Slots, Handler(s) \/ Lost(s)
    PROVE  Admitted'
<1>1. CASE Enter(s)
  <2>1. PICK o : o = tasks[s]
    OBVIOUS
  <2>2. PICK t : t = [o EXCEPT !.at = "in", !.since = now]
    OBVIOUS
  <2>3. o \in Tasks /\ Serves(o.req).stage = "call" /\ tasks' = [tasks EXCEPT ![s] = t]
    BY <1>1, <2>1, <2>2, TaskCases DEF Enter, Sent, Out, Served
  <2>4. t.at = "in" /\ t.since = now /\ t.req = o.req /\ o.req \in Requests
    BY <2>2, <2>3 DEF Tasks
  <2>5. Vetted(t)
    BY <2>3, <2>4, Checked DEF Vetted, LetIn
  <2> QED BY <1>1, <2>3, <2>5, SlotMoves DEF Enter, server, site, browser
<1>2. CASE FindUser(s) \/ StoreUser(s)
  <2>1. PICK t : Worked(s, t) /\ t.at # "sent" /\ t.since = tasks[s].since /\ Inside(s)
    BY <1>2, ProceedWorks
  <2>2. Out(s) /\ t.req = tasks[s].req /\ tasks' = [tasks EXCEPT ![s] = t]
        /\ UNCHANGED <<secret, orphans, browser>>
    BY <2>1 DEF Worked
  <2>3. Vetted(tasks[s]) /\ tasks[s].at # "sent"
    BY <2>1, <2>2 DEF Admitted, Inside
  <2>4. Vetted(t)
    BY <2>1, <2>2, <2>3 DEF Vetted, LetIn
  <2> QED BY <2>2, <2>4, SlotMoves DEF browser
<1>3. CASE ~(Enter(s) \/ FindUser(s) \/ StoreUser(s))
  <2>1. Replied(s)
    BY <1>3, HandlerReplies
  <2>2. PICK o : o = tasks[s]
    OBVIOUS
  <2>3. PICK a \in Answers : a.status # 1 /\ tasks' = [tasks EXCEPT ![s].ans = a]
    BY <2>1 DEF Replied
  <2>4. PICK t : t = [o EXCEPT !.ans = a]
    OBVIOUS
  <2>5. o \in Tasks /\ tasks' = [tasks EXCEPT ![s] = t]
    BY <2>1, <2>2, <2>3, <2>4, TaskCases DEF Replied
  <2>6. t.ans # NoAnswer
    BY <2>3, <2>4, <2>5, Statuses DEF Tasks
  <2>7. UNCHANGED <<secret, browser>> /\ orphans' \subseteq orphans \cup Abandoned(Slots)
    BY <2>1 DEF Replied, Abandoned
  <2> QED BY <2>5, <2>6, <2>7, SlotMoves DEF browser
<1> QED BY <1>1, <1>2, <1>3

LEMMA LateAdmitted ==
    ASSUME Typed, Admitted, NEW e \in orphans, Late(e)
    PROVE  Admitted'
<1>1. UNCHANGED <<secret, page, tasks>> /\ e \in Orphans
  BY DEF Late, browser, Typed
<1>2. CASE e.at = "sent" /\ Serves(e.req).stage = "call"
           /\ orphans' = (orphans \ {e}) \cup {[e EXCEPT !.at = "in", !.since = now]}
  <2>1. PICK f : f = [e EXCEPT !.at = "in", !.since = now]
    OBVIOUS
  <2>2. f.at = "in" /\ f.since = now /\ f.req = e.req /\ e.req \in Requests
    BY <1>1, <2>1 DEF Orphans
  <2>3. Vetted(f)
    BY <1>2, <2>2, Checked DEF Vetted, LetIn
  <2> QED BY <1>1, <1>2, <2>1, <2>3, NobodyMoves DEF Admitted
<1>3. CASE orphans' = orphans \ {e}
  BY <1>1, <1>3, NobodyMoves DEF Admitted
<1> QED BY <1>2, <1>3 DEF Late

\* A restart: the secret is another one, and no handler of the old process is left.
LEMMA RekeyAdmitted ==
    ASSUME Admitted, Rekey
    PROVE  Admitted'
<1>1. ASSUME NEW s \in Slots, Out(s)' PROVE Vetted(tasks[s])'
  <2>1. CASE Inside(s)
    <3>1. PICK o : o = tasks[s]
      OBVIOUS
    <3>2. tasks'[s] = [o EXCEPT !.ans = [NoAnswer EXCEPT !.status = LostStatus]]
      BY <2>1, <3>1 DEF Rekey
    <3>3. Out(s) /\ o.ans = NoAnswer
      BY <2>1, <3>1 DEF Inside, Out
    <3>4. [NoAnswer EXCEPT !.status = LostStatus] # NoAnswer
      BY DEF NoAnswer, LostStatus
    <3>5. tasks'[s].ans = [NoAnswer EXCEPT !.status = LostStatus] \/ tasks'[s] = o
      BY <3>2
    <3> QED BY <1>1, <3>4, <3>5, <2>1, <3>2, <3>3 DEF Out
  <2>2. CASE ~Inside(s)
    <3>1. tasks'[s] = tasks[s] /\ page' = page
      BY <2>2 DEF Rekey, browser
    <3>2. tasks'[s].at = "sent"
      BY <1>1, <2>2, <3>1 DEF Inside, Out
    <3> QED BY <3>2 DEF Vetted
  <2> QED BY <2>1, <2>2
<1>2. \A e \in orphans' : e.at = "sent"
  BY DEF Rekey
<1> QED BY <1>1, <1>2 DEF Admitted, Vetted

LEMMA OutsideAdmitted ==
    ASSUME Typed, Admitted,
           \/ Fetched \/ login(TRUE) \/ (\E path \in {"users", "login"} : Visit(path))
           \/ (\E e \in orphans : Late(e))
           \/ Tick \/ Rekey \/ Foreign \/ UNCHANGED vars
    PROVE  Admitted'
<1>1. CASE login(TRUE) \/ (\E path \in {"users", "login"} : Visit(path))
  BY <1>1, LeavesAdmitted DEF login, Visit
<1>2. CASE \E e \in orphans : Late(e)
  BY <1>2, LateAdmitted
<1>3. CASE Rekey
  BY <1>3, RekeyAdmitted
<1>4. CASE Tick \/ Foreign \/ UNCHANGED vars
  <2>1. UNCHANGED <<secret, page, tasks, orphans>>
    BY <1>4 DEF Tick, Foreign, vars, server, site, browser
  <2> QED BY <2>1, NobodyMoves DEF Admitted
<1>5. CASE Fetched
  <2>1. UNCHANGED <<secret, orphans>> /\ page = "nav"
    BY <1>5 DEF Fetched, server, site
  <2>2. \A e \in orphans' : Vetted(e)'
    BY <2>1, OrphansVetted
  <2>3. ASSUME NEW r \in Slots, Out(r)' PROVE Vetted(tasks[r])'
    <3>1. Quiet
      BY <2>1 DEF Typed
    <3>2. page' = "shell" /\ tasks'[r] # Idle
      BY <2>3 DEF Out
    <3>3. PICK s \in Slots :
            tasks' = [tasks EXCEPT ![s] = Call([m |-> "go", who |-> Base, draft |-> "good"],
                                              load("users"), Base, 1)]
      BY <1>5, <2>1, <3>1, <3>2 DEF Fetched, Quiet
    <3>4. PICK u : u = Call([m |-> "go", who |-> Base, draft |-> "good"], load("users"), Base, 1)
      OBVIOUS
    <3>5. tasks'[r] = u
      BY <3>1, <3>2, <3>3, <3>4 DEF Quiet, Typed
    <3>6. u.at = "sent"
      BY <3>4 DEF Call
    <3> QED BY <3>5, <3>6 DEF Vetted
  <2> QED BY <2>2, <2>3 DEF Admitted
<1> QED BY <1>1, <1>2, <1>3, <1>4, <1>5

LEMMA AlwaysAdmitted == Spec => []Admitted
<1>1. Init => Admitted
  BY DEF Init, Admitted, Out
<1>2. IInv /\ Admitted /\ [Next]_vars => Admitted'
  BY MethodAdmitted, ReceiveAdmitted, ServerAdmitted, OutsideAdmitted DEF IInv, Next
<1> QED BY <1>1, <1>2, Inductive, PTL DEF Spec

(***************************************************************************)
(* What it comes to.                                                          *)
(***************************************************************************)
\* Every call that app.js makes is routed by the generated server to the operation it is
\* meant for, and its parameters and its body pass the generated decoders unless the draft
\* itself is malformed: from any state of the tab, only the session check may stop it.
THEOREM CallsReach == Spec => []ContractHolds
<1>1. IInv => ContractHolds
  BY Understood DEF IInv
<1> QED BY <1>1, Inductive, PTL

\* loadUsers and the pager: a users table that has settled, with nothing that crossed it, is
\* the page its pager names, with the total the server would give now, has the fields its
\* rows read, and is empty only when there is nobody.
THEOREM TableSettles == Spec => []TableTrue
<1>1. IInv => TableTrue
  BY DEF IInv, Settling, Settled, Table, TableTrue, Drawn
<1> QED BY <1>1, Inductive, PTL

\* loadCustoms and loadConfig: an editor that has settled holds the config its scope
\* selector names, and its picker every user, whatever customs came and went before.
THEOREM EditorSettles == Spec => []EditorBound
<1>1. IInv => EditorBound
  BY DEF IInv, Settling, Settled, Editor, EditorBound
<1> QED BY <1>1, Inductive, PTL

\* securityAdminSession: what users and custom configs there are changes only for a call that
\* the session check let in, with a cookie that was good when the call entered and whose key
\* the service still runs with, or by the other operator.  The write comes later, after the
\* store and the panels, when the cookie may have expired and the page may be gone.
THEOREM OnlyLetIn == Spec => Authorised
<1> DEFINE May ==
             \/ events' # events /\ UNCHANGED <<tasks, orphans>>
             \/ \E s \in Slots : Inside(s) /\ tasks'[s] # tasks[s] /\ LetIn(tasks[s])
             \/ \E e \in orphans \ orphans' : LetIn(e)
<1>1. IInv /\ Admitted /\ [Next]_vars => [people' # people \/ custom' # custom => May]_vars
  <2> SUFFICES ASSUME IInv, Admitted, Next, people' # people \/ custom' # custom
               PROVE  May
    BY DEF vars, server, site
  <2> HIDE DEF May
  <2>1. ASSUME NEW s \in Slots, Method(s) \/ Receive(s) PROVE FALSE
    <3>1. UNCHANGED site
      <4>1. CASE Receive(s)
        BY <4>1 DEF Receive, GotUnauthorized, GotNothing, GotNodes, GotSchema, GotUsers, GotCustoms, GotConfig,
                    GotPosted, GotChecked, GotLoggedOut, Same, server
      <4>2. CASE Method(s)
        BY <4>2 DEF Method, go, gotoUserPage, switchScope, submitUser, deleteUser, recreateUser, saveNode,
                    deleteNode, saveConfig, deleteCustom, createCustom, checkProvider, logout, Post, Begin, server
      <4> QED BY <2>1, <4>1, <4>2
    <3> QED BY <3>1 DEF site
  <2>2. ASSUME NEW s \in Slots, Handler(s) \/ Lost(s) PROVE May
    <3>1. Changes(s) /\ (Inside(s) => tasks'[s] # tasks[s])
      <4>1. CASE Enter(s)
        BY <4>1 DEF Enter, server, site
      <4>2. CASE FindUser(s) \/ StoreUser(s)
        <5>1. tasks[s].at = "in" /\ FindUser(s) => UNCHANGED site
          BY DEF FindUser, ReadOnly, server
        <5>2. StoreUser(s) /\ tasks[s].at = "in"
          BY <4>2, <5>1 DEF FindUser, StoreUser, site
        <5>3. PICK t : Worked(s, t)
          BY <4>2, ProceedWorks DEF IInv
        <5>4. Changes(s) /\ t.at = "stored" /\ tasks'[s] = t
          BY <5>2, <5>3 DEF Worked, IInv, Typed
        <5> QED BY <5>2, <5>4
      <4>3. CASE ~(Enter(s) \/ FindUser(s) \/ StoreUser(s))
        <5>1. Replied(s)
          BY <2>2, <4>3, HandlerReplies DEF IInv
        <5>2. PICK a \in Answers : a.status # 1 /\ tasks' = [tasks EXCEPT ![s].ans = a]
          BY <5>1 DEF Replied
        <5>3. PICK o : o = tasks[s]
          OBVIOUS
        <5>4. o \in Tasks /\ tasks'[s] = [o EXCEPT !.ans = a]
          BY <5>1, <5>2, <5>3, TaskCases DEF Replied, IInv, Typed
        <5>5. tasks'[s].ans = a
          BY <5>4 DEF Tasks
        <5>6. Inside(s) => o.ans = NoAnswer
          BY <5>3 DEF Inside, Out
        <5>7. Changes(s)
          BY <5>1 DEF Replied
        <5>8. a # NoAnswer
          BY <5>2, Statuses
        <5>9. Inside(s) => tasks'[s] # tasks[s]
          BY <5>3, <5>5, <5>6, <5>8
        <5> QED BY <5>7, <5>9
      <4> QED BY <4>1, <4>2, <4>3
    <3>2. Inside(s) /\ tasks[s].req.op \in Writers
      BY <3>1 DEF Changes
    <3>3. LetIn(tasks[s])
      BY <3>2 DEF Admitted, Vetted, Inside, Writers
    <3> QED BY <3>1, <3>2, <3>3 DEF May
  <2>3. CASE Fetched \/ login(TRUE) \/ (\E path \in {"users", "login"} : Visit(path)) \/ Tick \/ Rekey
    BY <2>3 DEF Fetched, login, Visit, Tick, Rekey, server, site
  <2>4. ASSUME NEW e \in orphans, Late(e) PROVE May
    <3>1. e.at # "sent" /\ Write(e) /\ orphans' = orphans \ {e}
      BY <2>4 DEF Late
    <3>2. e.req \in Requests
      BY DEF IInv, Typed, Orphans
    <3>3. e.req.op \in Writers
      BY <3>1, <3>2, WriteWhat DEF IInv
    <3>4. LetIn(e)
      BY <3>1, <3>3 DEF Admitted, Vetted, Writers
    <3> QED BY <3>1, <3>4 DEF May
  <2>5. CASE Foreign
    <3>1. events \in Nat /\ events' = events + 1 /\ UNCHANGED <<tasks, orphans>>
      BY <2>5 DEF Foreign, Event, IInv, Typed
    <3> QED BY <3>1 DEF May
  <2> QED BY <2>1, <2>2, <2>3, <2>4, <2>5 DEF Next
<1> QED BY <1>1, Inductive, AlwaysAdmitted, PTL DEF Spec, Authorised
=============================================================================
