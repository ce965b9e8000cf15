------------------------------- MODULE Api -------------------------------
(*****************************************************************************)
(* The HTTP API as internal/oas serves it: which operation a request         *)
(* reaches, what stops it before the handler runs - the session, the          *)
(* parameters, the body - and which status and body each outcome of a         *)
(* handler becomes.  The module has no state: Console composes it with the    *)
(* handlers' effects and with the browser.                                     *)
(*                                                                           *)
(* A path is the sequence of its segments; a JSON value and the schema that    *)
(* decodes it are records tagged by their kind.                               *)
(*****************************************************************************)
EXTENDS Integers, Sequences

(***************************************************************************)
(* JSON values, and the schemas of internal/oas that decode them.           *)
(***************************************************************************)
JStr == [t |-> "str", s |-> ""]
JText(s) == [t |-> "str", s |-> s]
JInt == [t |-> "int"]
JFrac == [t |-> "frac"]        \* a number that is no integer
JBool == [t |-> "bool"]
JNull == [t |-> "null"]
JArr(s) == [t |-> "arr", of |-> s]
JObj(f) == [t |-> "obj", of |-> f]
\* Rules whose children are rules: a function from the path of a rule, <<2, 1>> being the
\* first child of the second, to the rule without its children.
JTree(f) == [t |-> "tree", of |-> f]

Str == [t |-> "str"]
Int_ == [t |-> "int"]
Bool == [t |-> "bool"]
Arr(s) == [t |-> "arr", of |-> s]
Enum(S) == [t |-> "enum", of |-> S]
Obj(fields, need) == [t |-> "obj", fields |-> fields, need |-> need]
Tree(s) == [t |-> "tree", of |-> s]

\* A record with one more field.
Plus(f, key, value) == [k \in DOMAIN f \cup {key} |-> IF k = key THEN value ELSE f[k]]

\* Slip: every field of a reference is required.
PolicyRef_whole == Obj([kind |-> Str, inboundId |-> Int_, groupIdx |-> Int_], {"kind", "inboundId", "groupIdx"})
PolicyRef == Obj([kind |-> Str, inboundId |-> Int_, groupIdx |-> Int_], {"kind"})

MihomoGroup ==
    Obj([name |-> Str, type |-> Str, url |-> Str, interval |-> Int_, tolerance |-> Int_,
         lazy |-> Bool, members |-> Arr(PolicyRef)], {"name", "type", "url", "members"})

MihomoProvider ==
    Obj([name |-> Str, behavior |-> Str, format |-> Str, url |-> Str, interval |-> Int_,
         mirror |-> Bool, mirrorInterval |-> Int_],
        {"name", "behavior", "format", "url", "interval", "mirror", "mirrorInterval"})

MihomoRule ==
    Obj([type |-> Str, value |-> Str, providerIdx |-> Int_, noResolve |-> Bool,
         target |-> PolicyRef], {"type"})

MihomoFields ==
    [groups |-> Arr(MihomoGroup), rules |-> Tree(MihomoRule), providers |-> Arr(MihomoProvider),
     baseYAML |-> Str, profileTitle |-> Str, filename |-> Str, profileUpdateInterval |-> Int_]

ConfigSaveReq == Obj(Plus(MihomoFields, "userId", Int_), DOMAIN MihomoFields)
MihomoConfig == Obj(MihomoFields, DOMAIN MihomoFields)

CustomCreateReq == Obj([userId |-> Int_], {"userId"})
CustomDeleteReq == Obj([userId |-> Int_], {"userId"})
LoginReq == Obj([user |-> Str, password |-> Str], {"user", "password"})
NodeDeleteReq == Obj([id |-> Int_], {"id"})

NodeSaveReqInboundsItemKind == Enum({"vless", "hysteria2"})

NodeSaveReqInboundsItemHysteria2 ==
    Obj([password |-> Str, obfs |-> Str, obfsPassword |-> Str, sni |-> Str, up |-> Str, down |-> Str], {})

NodeSaveReqInboundsItem ==
    Obj([id |-> Int_, name |-> Str, port |-> Int_, kind |-> NodeSaveReqInboundsItemKind,
         hysteria2 |-> NodeSaveReqInboundsItemHysteria2], {"name", "port"})

NodeSaveReq ==
    Obj([id |-> Int_, name |-> Str, vpnHost |-> Str, panelBaseURL |-> Str, panelBasePath |-> Str,
         token |-> Str, inbounds |-> Arr(NodeSaveReqInboundsItem)],
        {"name", "vpnHost", "panelBaseURL", "panelBasePath", "inbounds"})

ProviderCheckReq == Obj([url |-> Str, format |-> Str], {"url", "format"})
UserCreateReq == Obj([name |-> Str, description |-> Str, inboundIDs |-> Arr(Int_)], {"name", "inboundIDs"})
UserDeleteReq == Obj([id |-> Int_], {"id"})
UserEditReq == Obj([id |-> Int_, description |-> Str, inboundIDs |-> Arr(Int_)], {"id", "inboundIDs"})
UserRecreateReq == Obj([id |-> Int_], {"id"})

\* What the answers carry: a schema, a page, or nothing.
NoContent == [t |-> "none"]
Html == [t |-> "html"]
Text == [t |-> "text"]
ErrorResponse == Obj([errMessage |-> Str], {"errMessage"})
MessageResponse == Obj([message |-> Str], {"message"})

ConfigCustomsOKCustomsItem == Obj([userId |-> Int_, name |-> Str], {"userId", "name"})
ConfigCustomsOKUsersItem == Obj([id |-> Int_, name |-> Str], {"id", "name"})
ConfigCustomsOK ==
    Obj([customs |-> Arr(ConfigCustomsOKCustomsItem), users |-> Arr(ConfigCustomsOKUsersItem)],
        {"customs", "users"})

ConfigSchemaOKActionsItem == Obj([kind |-> Str, label |-> Str], {"kind", "label"})
ConfigSchemaOKRuleProvider ==
    Obj([behaviors |-> Arr(Str), formats |-> Arr(Str)], {"behaviors", "formats"})
ConfigSchemaOKProxyGroupTypesItem ==
    Obj([type |-> Str, usesHealthCheck |-> Bool, usesTolerance |-> Bool, items |-> Arr(Str)],
        {"type", "usesHealthCheck", "usesTolerance", "items"})
ConfigSchemaOKProxyGroup == Obj([types |-> Arr(ConfigSchemaOKProxyGroupTypesItem)], {"types"})
ConfigSchemaOKRulesTypesItem ==
    Obj([type |-> Str, takesProvider |-> Bool, supportsNoResolve |-> Bool, isMatch |-> Bool,
         isLogical |-> Bool, destinations |-> Arr(Str)],
        {"type", "takesProvider", "supportsNoResolve", "isMatch", "isLogical", "destinations"})
ConfigSchemaOKRules == Obj([types |-> Arr(ConfigSchemaOKRulesTypesItem)], {"types"})
ConfigSchemaOK ==
    Obj([actions |-> Arr(ConfigSchemaOKActionsItem), ruleProvider |-> ConfigSchemaOKRuleProvider,
         proxyGroup |-> ConfigSchemaOKProxyGroup, rules |-> ConfigSchemaOKRules,
         generatedKeys |-> Arr(Str)], {"actions", "ruleProvider", "proxyGroup", "rules", "generatedKeys"})

NodesGetOKNodesItemInboundsItemHysteria2 == Obj([obfs |-> Str, sni |-> Str, up |-> Str, down |-> Str], {})
NodesGetOKNodesItemInboundsItem ==
    Obj([id |-> Int_, name |-> Str, port |-> Int_, kind |-> Str,
         hysteria2 |-> NodesGetOKNodesItemInboundsItemHysteria2], {"id", "name", "port"})
NodesGetOKNodesItem ==
    Obj([id |-> Int_, name |-> Str, vpnHost |-> Str, panelBaseURL |-> Str, panelBasePath |-> Str,
         inbounds |-> Arr(NodesGetOKNodesItemInboundsItem)],
        {"id", "name", "vpnHost", "panelBaseURL", "panelBasePath", "inbounds"})
NodesGetOK == Obj([nodes |-> Arr(NodesGetOKNodesItem)], {"nodes"})

UsersGetOKUsersItemInboundsItem ==
    Obj([id |-> Int_, label |-> Str, port |-> Int_, missing |-> Bool], {"id", "label", "port", "missing"})
UsersGetOKUsersItemStats == Obj([up |-> Int_, down |-> Int_], {"up", "down"})
UsersGetOKUsersItemSubLinksItem == Obj([title |-> Str, value |-> Str], {"title", "value"})
UsersGetOKUsersItemSub == Obj([links |-> Arr(UsersGetOKUsersItemSubLinksItem)], {"links"})
UsersGetOKUsersItem ==
    Obj([id |-> Int_, name |-> Str, description |-> Str, sub |-> UsersGetOKUsersItemSub,
         inbounds |-> Arr(UsersGetOKUsersItemInboundsItem), stats |-> UsersGetOKUsersItemStats],
        {"id", "name", "sub", "inbounds", "stats"})
UsersGetOK ==
    Obj([users |-> Arr(UsersGetOKUsersItem), total |-> Int_, page |-> Int_, perPage |-> Int_],
        {"users", "total", "page", "perPage"})

\* A generated Decode: unknown fields are skipped, a known one must have its type -
\* null is no value of any - and the required ones must all be there.  The body's
\* Validate then looks at the enumerations.  D decodes the parts.
Plain(s, v) ==
    \/ s.t = "enum" /\ v.t = "str" /\ v.s \in s.of
    \/ s.t \in {"str", "int", "bool"} /\ s.t = v.t

Decode(D(_, _), s, v) ==
    \/ Plain(s, v)
    \/ s.t \in {"arr", "tree"} /\ s.t = v.t /\ \A i \in DOMAIN v.of : D(s.of, v.of[i])
    \/ /\ s.t = "obj" /\ v.t = "obj"
       /\ s.need \subseteq DOMAIN v.of
       /\ \A f \in DOMAIN v.of \cap DOMAIN s.fields : D(s.fields[f], v.of[f])

\* The types nest: a config has groups, a group members, a member fields.
Decode1(s, v) == Decode(Plain, s, v)
Decode2(s, v) == Decode(Decode1, s, v)
Decode3(s, v) == Decode(Decode2, s, v)
Decode4(s, v) == Decode(Decode3, s, v)
Decodes(s, v) == Decode(Decode4, s, v)

(***************************************************************************)
(* The request: r.body is NoBody or a JSON value, r.query the query           *)
(* parameters as values, r.json the application/json content type.            *)
(***************************************************************************)
NoBody == [t |-> "none"]

JsonBody(r, want) == r.json /\ r.body # NoBody /\ Decodes(want, r.body)

decodeConfigSaveRequest(r) == JsonBody(r, ConfigSaveReq)
decodeCustomCreateRequest(r) == JsonBody(r, CustomCreateReq)
decodeCustomDeleteRequest(r) == JsonBody(r, CustomDeleteReq)
decodeLoginRequest(r) == JsonBody(r, LoginReq)
decodeNodeDeleteRequest(r) == JsonBody(r, NodeDeleteReq)
decodeNodeSaveRequest(r) == JsonBody(r, NodeSaveReq)
decodeProviderCheckRequest(r) == JsonBody(r, ProviderCheckReq)
decodeUserCreateRequest(r) == JsonBody(r, UserCreateReq)
decodeUserDeleteRequest(r) == JsonBody(r, UserDeleteReq)
decodeUserEditRequest(r) == JsonBody(r, UserEditReq)
decodeUserRecreateRequest(r) == JsonBody(r, UserRecreateReq)

\* Every query parameter is optional, and must have its type when it is there.
decodeConfigGetParams(r) == Decodes(Obj([user |-> Int_], {}), JObj(r.query))
decodeUsersGetParams(r) ==
    Decodes(Obj([q |-> Str, inbound |-> Arr(Int_), page |-> Int_, perPage |-> Int_], {}), JObj(r.query))

\* The path parameters are strings that must not be empty; the cookie is optional.
decodeAdminShellViewParams(view) == view # ""
decodeRulesParams(file) == file # ""
decodeSubParams(kind, token) == kind # "" /\ token # ""

(***************************************************************************)
(* The handlers of oas_handlers_gen.go: what stops the request, in the order  *)
(* they ask - security, parameters, body - or "call" when the operation runs. *)
(* ok is the verdict of the session check.                                    *)
(***************************************************************************)
Handle(op, secured, params, body) ==
    [op |-> op,
     stage |-> CASE ~secured -> "SecurityError"
                 [] secured /\ ~params -> "DecodeParamsError"
                 [] secured /\ params /\ ~body -> "DecodeRequestError"
                 [] OTHER -> "call"]

handleAdminShellRequest(r, ok) == Handle("adminShell", TRUE, TRUE, TRUE)
handleAdminShellViewRequest(r, ok) == Handle("adminShellView", TRUE, decodeAdminShellViewParams(r.path[2]), TRUE)
handleConfigCustomsRequest(r, ok) == Handle("configCustoms", ok, TRUE, TRUE)
handleConfigGetRequest(r, ok) == Handle("configGet", ok, decodeConfigGetParams(r), TRUE)
handleConfigSaveRequest(r, ok) == Handle("configSave", ok, TRUE, decodeConfigSaveRequest(r))
handleConfigSchemaRequest(r, ok) == Handle("configSchema", ok, TRUE, TRUE)
handleCustomCreateRequest(r, ok) == Handle("customCreate", ok, TRUE, decodeCustomCreateRequest(r))
\* Slip: the operation was left without its security.
handleCustomDeleteRequest_open(r, ok) == Handle("customDelete", TRUE, TRUE, decodeCustomDeleteRequest(r))
handleCustomDeleteRequest(r, ok) == Handle("customDelete", ok, TRUE, decodeCustomDeleteRequest(r))
handleHealthzRequest(r, ok) == Handle("healthz", TRUE, TRUE, TRUE)
handleLoginRequest(r, ok) == Handle("login", TRUE, TRUE, decodeLoginRequest(r))
handleLoginPageRequest(r, ok) == Handle("loginPage", TRUE, TRUE, TRUE)
handleLogoutRequest(r, ok) == Handle("logout", TRUE, TRUE, TRUE)
handleNodeDeleteRequest(r, ok) == Handle("nodeDelete", ok, TRUE, decodeNodeDeleteRequest(r))
handleNodeSaveRequest(r, ok) == Handle("nodeSave", ok, TRUE, decodeNodeSaveRequest(r))
handleNodesGetRequest(r, ok) == Handle("nodesGet", ok, TRUE, TRUE)
handleProviderCheckRequest(r, ok) == Handle("providerCheck", ok, TRUE, decodeProviderCheckRequest(r))
handleRulesRequest(r, ok) == Handle("rules", TRUE, decodeRulesParams(r.path[2]), TRUE)
handleSubRequest(r, ok) == Handle("sub", TRUE, decodeSubParams(r.path[2], r.path[3]), TRUE)
handleUserCreateRequest(r, ok) == Handle("userCreate", ok, TRUE, decodeUserCreateRequest(r))
handleUserDeleteRequest(r, ok) == Handle("userDelete", ok, TRUE, decodeUserDeleteRequest(r))
handleUserEditRequest(r, ok) == Handle("userEdit", ok, TRUE, decodeUserEditRequest(r))
handleUserRecreateRequest(r, ok) == Handle("userRecreate", ok, TRUE, decodeUserRecreateRequest(r))
handleUsersGetRequest(r, ok) == Handle("usersGet", ok, decodeUsersGetParams(r), TRUE)

(***************************************************************************)
(* The router: the trie of ServeHTTP, one operator per subtree, over the      *)
(* segments that are left.  A path that ends elsewhere is not found; one that *)
(* ends at an operation with another method is not allowed.                   *)
(***************************************************************************)
notFound == [op |-> "none", stage |-> "NotFound"]
notAllowed == [op |-> "none", stage |-> "NotAllowed"]

On(r, method, handled) == IF r.method = method THEN handled ELSE notAllowed

RouteCustom(r, ok, rest) ==
    CASE rest = <<"create">> -> On(r, "POST", handleCustomCreateRequest(r, ok))
      [] rest = <<"delete">> -> On(r, "POST", handleCustomDeleteRequest(r, ok))
      [] OTHER -> notFound

RouteConfig(r, ok, rest) ==
    CASE rest = <<>> -> On(r, "GET", handleConfigGetRequest(r, ok))
      [] rest = <<"customs">> -> On(r, "GET", handleConfigCustomsRequest(r, ok))
      [] rest = <<"provider", "check">> -> On(r, "POST", handleProviderCheckRequest(r, ok))
      [] rest = <<"save">> -> On(r, "POST", handleConfigSaveRequest(r, ok))
      [] rest = <<"schema">> -> On(r, "GET", handleConfigSchemaRequest(r, ok))
      [] Len(rest) > 1 /\ rest[1] = "custom" -> RouteCustom(r, ok, Tail(rest))
      [] OTHER -> notFound

RouteNodes(r, ok, rest) ==
    CASE rest = <<>> -> On(r, "GET", handleNodesGetRequest(r, ok))
      [] rest = <<"delete">> -> On(r, "POST", handleNodeDeleteRequest(r, ok))
      [] rest = <<"save">> -> On(r, "POST", handleNodeSaveRequest(r, ok))
      [] OTHER -> notFound

RouteUsers(r, ok, rest) ==
    CASE rest = <<>> -> On(r, "GET", handleUsersGetRequest(r, ok))
      [] rest = <<"create">> -> On(r, "POST", handleUserCreateRequest(r, ok))
      [] rest = <<"delete">> -> On(r, "POST", handleUserDeleteRequest(r, ok))
      [] rest = <<"edit">> -> On(r, "POST", handleUserEditRequest(r, ok))
      [] rest = <<"recreate">> -> On(r, "POST", handleUserRecreateRequest(r, ok))
      [] OTHER -> notFound

RouteSession(r, ok, rest) ==
    CASE rest = <<"login">> -> On(r, "POST", handleLoginRequest(r, ok))
      [] rest = <<"logout">> -> On(r, "POST", handleLogoutRequest(r, ok))
      [] OTHER -> notFound

RouteApi(r, ok, rest) ==
    CASE rest = <<>> -> notFound
      [] Len(rest) > 1 /\ rest[1] = "config" /\ rest[2] = "mihomo" -> RouteConfig(r, ok, Tail(Tail(rest)))
      [] rest # <<>> /\ rest[1] = "nodes" -> RouteNodes(r, ok, Tail(rest))
      [] rest # <<>> /\ rest[1] = "users" -> RouteUsers(r, ok, Tail(rest))
      [] OTHER -> RouteSession(r, ok, rest)

\* A single segment under /admin that is neither login nor empty is a view of the SPA.
RouteAdmin(r, ok, rest) ==
    CASE rest = <<>> -> On(r, "GET", handleAdminShellRequest(r, ok))
      [] rest = <<"login">> -> On(r, "GET", handleLoginPageRequest(r, ok))
      [] Len(rest) = 1 /\ rest # <<"login">> ->
            IF rest[1] = "" THEN notFound ELSE On(r, "GET", handleAdminShellViewRequest(r, ok))
      [] Len(rest) > 1 /\ rest[1] = "api" -> RouteApi(r, ok, Tail(rest))
      [] OTHER -> notFound

RoutePublic(r, ok) ==
    CASE r.path = <<"healthz">> -> On(r, "GET", handleHealthzRequest(r, ok))
      [] Len(r.path) = 2 /\ r.path[1] = "rules" -> On(r, "GET", handleRulesRequest(r, ok))
      [] Len(r.path) = 3 /\ r.path[1] = "sub" -> On(r, "GET", handleSubRequest(r, ok))
      [] OTHER -> notFound

ServeHTTP(r, ok) ==
    IF r.path # <<>> /\ r.path[1] = "admin" THEN RouteAdmin(r, ok, Tail(r.path)) ELSE RoutePublic(r, ok)

(***************************************************************************)
(* What an outcome becomes: the status of the response type the handler       *)
(* returns and the schema of its body.                                        *)
(***************************************************************************)
Answer(status, body) == [status |-> status, body |-> body]
Bad == Answer(400, ErrorResponse)
Unauthorized == Answer(401, ErrorResponse)
Conflict == Answer(409, ErrorResponse)
Done == Answer(200, MessageResponse)

encodeAdminShellResponse == [OK |-> Answer(200, Html), Found |-> Answer(302, NoContent)]
encodeAdminShellViewResponse == [OK |-> Answer(200, Html), Found |-> Answer(302, NoContent)]
encodeConfigCustomsResponse == [OK |-> Answer(200, ConfigCustomsOK), Unauthorized |-> Unauthorized]
encodeConfigGetResponse ==
    [OK |-> Answer(200, MihomoConfig), Unauthorized |-> Unauthorized, NotFound |-> Answer(404, ErrorResponse)]
encodeConfigSaveResponse == [OK |-> Done, BadRequest |-> Bad, Unauthorized |-> Unauthorized]
encodeConfigSchemaResponse == [OK |-> Answer(200, ConfigSchemaOK), Unauthorized |-> Unauthorized]
encodeCustomCreateResponse == [OK |-> Done, BadRequest |-> Bad, Unauthorized |-> Unauthorized]
encodeCustomDeleteResponse == [OK |-> Done, BadRequest |-> Bad, Unauthorized |-> Unauthorized]
encodeHealthzResponse == [OK |-> Answer(200, Text)]
encodeLoginResponse == [OK |-> Done, Unauthorized |-> Unauthorized]
encodeLoginPageResponse == [OK |-> Answer(200, Html), Found |-> Answer(302, NoContent)]
encodeLogoutResponse == [OK |-> Answer(204, NoContent)]
encodeNodeDeleteResponse == [OK |-> Done, BadRequest |-> Bad, Unauthorized |-> Unauthorized]
encodeNodeSaveResponse ==
    [OK |-> Done, BadRequest |-> Bad, Unauthorized |-> Unauthorized, Conflict |-> Conflict]
encodeNodesGetResponse == [OK |-> Answer(200, NodesGetOK), Unauthorized |-> Unauthorized]
encodeProviderCheckResponse == [OK |-> Done, BadRequest |-> Bad, Unauthorized |-> Unauthorized]
encodeRulesResponse == [OK |-> Answer(200, Text), NotFound |-> Answer(404, Text)]
encodeSubResponse == [OK |-> Answer(200, Text), NotFound |-> Answer(404, Text)]
encodeUserCreateResponse ==
    [OK |-> Done, BadRequest |-> Bad, Unauthorized |-> Unauthorized, Conflict |-> Conflict]
encodeUserDeleteResponse == [OK |-> Done, BadRequest |-> Bad, Unauthorized |-> Unauthorized]
encodeUserEditResponse == [OK |-> Done, BadRequest |-> Bad, Unauthorized |-> Unauthorized]
encodeUserRecreateResponse == [OK |-> Done, BadRequest |-> Bad, Unauthorized |-> Unauthorized]
encodeUsersGetResponse == [OK |-> Answer(200, UsersGetOK), Unauthorized |-> Unauthorized]

Encode(op) ==
    CASE op = "adminShell" -> encodeAdminShellResponse
      [] op = "adminShellView" -> encodeAdminShellViewResponse
      [] op = "configCustoms" -> encodeConfigCustomsResponse
      [] op = "configGet" -> encodeConfigGetResponse
      [] op = "configSave" -> encodeConfigSaveResponse
      [] op = "configSchema" -> encodeConfigSchemaResponse
      [] op = "customCreate" -> encodeCustomCreateResponse
      [] op = "customDelete" -> encodeCustomDeleteResponse
      [] op = "healthz" -> encodeHealthzResponse
      [] op = "login" -> encodeLoginResponse
      [] op = "loginPage" -> encodeLoginPageResponse
      [] op = "logout" -> encodeLogoutResponse
      [] op = "nodeDelete" -> encodeNodeDeleteResponse
      [] op = "nodeSave" -> encodeNodeSaveResponse
      [] op = "nodesGet" -> encodeNodesGetResponse
      [] op = "providerCheck" -> encodeProviderCheckResponse
      [] op = "rules" -> encodeRulesResponse
      [] op = "sub" -> encodeSubResponse
      [] op = "userCreate" -> encodeUserCreateResponse
      [] op = "userDelete" -> encodeUserDeleteResponse
      [] op = "userEdit" -> encodeUserEditResponse
      [] op = "userRecreate" -> encodeUserRecreateResponse
      [] op = "usersGet" -> encodeUsersGetResponse

\* What ErrorHandler makes of a request stopped before its handler, or of a handler's
\* plain error; a path or a method the router does not know never gets there.
ErrorHandler(stage) ==
    CASE stage = "SecurityError" -> Unauthorized
      [] stage \in {"DecodeParamsError", "DecodeRequestError"} -> Bad
      [] OTHER -> Answer(500, ErrorResponse)

Refused(stage) ==
    CASE stage = "NotFound" -> Answer(404, Text)
      [] stage = "NotAllowed" -> Answer(405, NoContent)
      [] OTHER -> ErrorHandler(stage)

=============================================================================
