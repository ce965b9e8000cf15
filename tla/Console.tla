------------------------------ MODULE Console ------------------------------
(*****************************************************************************)
(* One operator's browser tab: the login page, the SPA of                      *)
(* internal/handlers/web/static/app.js, its cookie and the clock, over the     *)
(* HTTP API of module Api and what the handlers do to users and custom         *)
(* configs, which another operator changes too.                               *)
(*                                                                           *)
(* A method of the SPA runs up to its next await and goes on when the answer   *)
(* comes: it is a task, the list of the calls it still makes, with the one     *)
(* that is out.  The server lets a request in, and works on it, in steps that  *)
(* come at any time after it was sent: the session is looked at once, when it  *)
(* enters, and what it changes is changed later.  The answers of two methods   *)
(* may come in any order, or never, and what a page asked for may be done      *)
(* after the page gave up.                                                    *)
(*****************************************************************************)
EXTENDS Api, FiniteSets

CONSTANTS
    MaxUser,      \* users that are ever created: ids are never used twice
    PerPage,      \* rows of a page of the users table (50 in the SPA)
    Slots,        \* the methods the tab may have under way at once
    Operators,    \* sets of methods: an operator uses the methods of one of them
    TTL,          \* how long a session lasts
    MaxEvents     \* how often time passes, the secret changes, the other operator acts, an
                  \* answer is lost or a handler fails (bound)

ASSUME ConsoleAssumption ==
    /\ MaxUser \in Nat \ {0} /\ PerPage \in Nat \ {0} /\ TTL \in Nat /\ MaxEvents \in Nat
    /\ Slots # {} /\ Operators # {}

User == 1..MaxUser
Base == 0
Scope == {Base} \cup User
Blank == MaxUser + 1      \* the editor before anything was loaded

VARIABLES
    \* the server: the time, the key of the cookies, the users there are and were, who has
    \* a custom config, and the requests it may have that no page waits for any more
    now, secret, people, born, custom, orphans,
    \* the browser: the cookie, the document, and the one being fetched
    jar, page, hop,
    \* the SPA: tab, cfgScope, the scope that cfg was loaded for, customs, users, userPage,
    \* userTotal, whether the schema is there, busy - and its tasks
    tab, scope, shown, customs, rows, userPage, total, schema, busy, tasks,
    \* the methods in use, the events so far, and whether nothing crossed the tab since it
    \* last loaded in full
    uses, events, clean

site == <<now, secret, people, born, custom>>
server == <<site, orphans>>
browser == <<jar, page, hop>>
view == <<tab, scope, shown, customs, rows, userPage, total, schema, busy>>
bounds == <<uses, events, clean>>
vars == <<server, browser, view, tasks, bounds>>

Event == events < MaxEvents /\ events' = events + 1 /\ UNCHANGED uses

(***************************************************************************)
(* The session: web.Session.  A cookie names the secret that signed it, its   *)
(* expiry, and the time the browser drops it.                                  *)
(***************************************************************************)
NoCookie == [secret |-> 0, exp |-> 0, till |-> 0]

IssueCookie == [secret |-> secret, exp |-> now + TTL, till |-> now + TTL]
\* Slip: the cookie is left in the browser.
ClearCookie_left == jar
ClearCookie == NoCookie

Valid(c) == c # NoCookie /\ ~(now > c.exp) /\ c.secret = secret

\* No cookie, no scheme satisfied; a cookie is as good as HandleAdminSession says.
securityAdminSession(c) == c # NoCookie /\ Valid(c)

(***************************************************************************)
(* Requests.                                                                  *)
(***************************************************************************)
Gets == {"nodesGet", "usersGet", "configSchema", "configCustoms", "configGet"}
Posts == {"userCreate", "userEdit", "userDelete", "userRecreate", "nodeSave", "nodeDelete",
          "configSave", "customCreate", "customDelete"}
Op == Gets \cup Posts \cup {"providerCheck", "logout"}

\* The urls app.js calls.
Url(op) ==
    CASE op = "nodesGet" -> <<"admin", "api", "nodes">>
      [] op = "nodeSave" -> <<"admin", "api", "nodes", "save">>
      [] op = "nodeDelete" -> <<"admin", "api", "nodes", "delete">>
      [] op = "usersGet" -> <<"admin", "api", "users">>
      [] op = "userCreate" -> <<"admin", "api", "users", "create">>
      [] op = "userEdit" -> <<"admin", "api", "users", "edit">>
      [] op = "userDelete" -> <<"admin", "api", "users", "delete">>
      [] op = "userRecreate" -> <<"admin", "api", "users", "recreate">>
      [] op = "configGet" -> <<"admin", "api", "config", "mihomo">>
      [] op = "configSchema" -> <<"admin", "api", "config", "mihomo", "schema">>
      [] op = "configCustoms" -> <<"admin", "api", "config", "mihomo", "customs">>
      [] op = "configSave" -> <<"admin", "api", "config", "mihomo", "save">>
      [] op = "customCreate" -> <<"admin", "api", "config", "mihomo", "custom", "create">>
      [] op = "customDelete" -> <<"admin", "api", "config", "mihomo", "custom", "delete">>
      [] op = "providerCheck" -> <<"admin", "api", "config", "mihomo", "provider", "check">>
      [] op = "logout" -> <<"admin", "api", "logout">>

Draft == {"good", "invalid", "malformed"}

\* prefToRef: a reference to a group that was removed has no index left.
GroupRef(draft) == JObj([kind |-> JStr, groupIdx |-> IF draft = "malformed" THEN JNull ELSE JInt])

\* saveConfig's payload: a group with a member of every kind, a plain rule and a logical
\* one, and a provider.
RuleBody(draft, path) ==
    CASE path = <<1>> -> JObj([type |-> JStr, value |-> JStr, target |-> GroupRef(draft)])
      [] path = <<2>> -> JObj([type |-> JStr, target |-> JObj([kind |-> JStr])])
      [] path = <<2, 1>> -> JObj([type |-> JStr, value |-> JStr])

ConfigBody(draft, sc) ==
    LET fields ==
          [groups |-> JArr(<<JObj([name |-> JStr, type |-> JStr, url |-> JStr, interval |-> JInt, lazy |-> JBool,
                                   members |-> JArr(<<GroupRef(draft), JObj([kind |-> JStr]),
                                                      JObj([kind |-> JStr, inboundId |-> JInt])>>)])>>),
           rules |-> JTree([path \in {<<1>>, <<2>>, <<2, 1>>} |-> RuleBody(draft, path)]),
           providers |-> JArr(<<JObj([name |-> JStr, behavior |-> JStr, format |-> JStr, url |-> JStr,
                                      interval |-> JInt, mirror |-> JBool, mirrorInterval |-> JInt])>>),
           baseYAML |-> JStr, profileTitle |-> JStr, filename |-> JStr, profileUpdateInterval |-> JInt]
    IN  JObj(IF sc = Base THEN fields ELSE Plus(fields, "userId", JInt))

Hysteria2Bag ==
    JObj([password |-> JStr, obfs |-> JStr, obfsPassword |-> JStr, sni |-> JStr, up |-> JStr, down |-> JStr])

\* saveNode's payload, an inbound of each kind: the port is whatever number was typed.
NodeBody(draft) ==
    LET port == IF draft = "malformed" THEN JFrac ELSE JInt IN
    JObj([id |-> JInt, name |-> JStr, vpnHost |-> JStr, panelBaseURL |-> JStr, panelBasePath |-> JStr,
          token |-> JStr,
          inbounds |-> JArr(<<JObj([id |-> JInt, name |-> JStr, kind |-> JText("vless"), port |-> port]),
                              JObj([id |-> JInt, name |-> JStr, kind |-> JText("hysteria2"), port |-> port,
                                    hysteria2 |-> Hysteria2Bag])>>)])

UserBody(op) ==
    LET fields == [inboundIDs |-> JArr(<<JInt>>), description |-> JStr]
    IN  JObj(IF op = "userCreate" THEN Plus(fields, "name", JStr) ELSE Plus(fields, "id", JInt))

Body(q) ==
    CASE q.op = "configSave" -> ConfigBody(q.draft, q.arg)
      [] q.op = "nodeSave" -> NodeBody(q.draft)
      [] q.op \in {"userCreate", "userEdit"} -> UserBody(q.op)
      [] q.op \in {"userDelete", "userRecreate", "nodeDelete"} -> JObj([id |-> JInt])
      [] q.op \in {"customCreate", "customDelete"} -> JObj([userId |-> JInt])
      [] q.op = "providerCheck" -> JObj([url |-> JStr, format |-> JStr])
      [] OTHER -> NoBody

Query(q) ==
    CASE q.op = "usersGet" -> [q |-> JStr, inbound |-> JArr(<<JInt>>), page |-> JInt, perPage |-> JInt]
      [] q.op = "configGet" /\ q.arg # Base -> [user |-> JInt]
      [] OTHER -> <<>>

\* getJSON, post, and the fetches of checkProvider and logout.
Request(q) ==
    [method |-> IF q.op \in Gets THEN "GET" ELSE "POST", path |-> Url(q.op), query |-> Query(q),
     json |-> Body(q) # NoBody, body |-> Body(q)]

Page(path) == [method |-> "GET", path |-> <<"admin", path>>, query |-> <<>>, json |-> FALSE, body |-> NoBody]

(***************************************************************************)
(* Tasks: m the method, who its argument, req the call that is out, at how     *)
(* far the server is with it, ans its answer once the server gave one, todo    *)
(* the calls that come after it.  since is history: when it was let in.        *)
(***************************************************************************)
Idle == [m |-> "none"]
NoAnswer == [status |-> 1, rows |-> {}, customs |-> {}, total |-> 0]
LostStatus == 0

\* What a call takes from the tab at the moment it is made: sc the scope, pg the page.
Arg(op, who, sc, pg) ==
    CASE op = "usersGet" -> pg
      [] op \in {"configGet", "configSave"} -> sc
      [] OTHER -> who

Call(t, calls, sc, pg) ==
    LET op == Head(calls) IN
    [m |-> t.m, who |-> t.who, todo |-> Tail(calls), ans |-> NoAnswer, at |-> "sent", since |-> 0,
     req |-> [op |-> op, arg |-> Arg(op, t.who, sc, pg), cookie |-> jar, draft |-> t.draft,
              from |-> IF op = "configSave" THEN shown ELSE Base],
     draft |-> t.draft]

\* The schema is asked for once.
Left(calls, have) == IF calls # <<>> /\ Head(calls) = "configSchema" /\ have THEN Tail(calls) ELSE calls

GoOn(s, sc, pg, have) ==
    LET calls == Left(tasks[s].todo, have) IN
    tasks' = [tasks EXCEPT ![s] = IF calls = <<>> THEN Idle ELSE Call(tasks[s], calls, sc, pg)]

Stop(s) == tasks' = [tasks EXCEPT ![s] = Idle]

Out(s) == page = "shell" /\ tasks[s] # Idle /\ tasks[s].ans = NoAnswer
Sent(s) == Out(s) /\ tasks[s].at = "sent"
Inside(s) == Out(s) /\ tasks[s].at # "sent"
Answered(s) == page = "shell" /\ tasks[s] # Idle /\ tasks[s].ans # NoAnswer
Status(s) == tasks[s].ans.status
Good(s) == Status(s) \in 200..299
Quiet == \A s \in Slots : tasks[s] = Idle

load(t) ==
    CASE t = "users" -> <<"nodesGet", "usersGet">>
      [] t = "nodes" -> <<"nodesGet">>
      [] t = "config" -> <<"nodesGet", "configSchema", "configCustoms", "configGet">>

\* data() of a document that has just loaded.
Data ==
    /\ tab' = "users" /\ scope' = Base /\ shown' = Blank /\ customs' = {}
    /\ rows' = [fields |-> {}, of |-> {}] /\ userPage' = 1 /\ total' = 0
    /\ schema' = FALSE /\ busy' = FALSE

\* The calls that are out and change users or custom configs: a page that gives up on one
\* does not call it back.
Writers == {"userCreate", "userDelete", "customCreate", "customDelete"}
Abandoned(S) ==
    {[req |-> tasks[s].req, at |-> tasks[s].at, since |-> tasks[s].since] :
        s \in {r \in S : Out(r) /\ tasks[r].req.op \in Writers}}

\* location.assign: the document goes, and what it waits for.
Leave(path) ==
    /\ page' = "nav" /\ hop' = path
    /\ orphans' = orphans \cup Abandoned(Slots)
    /\ tasks' = [s \in Slots |-> Idle]
    /\ Data

(***************************************************************************)
(* The server: a request is routed, let in and decoded, and then its handler   *)
(* runs, at any time while it is out.                                          *)
(***************************************************************************)
\* A table: comparing it makes TLC work it out, once.
Routing ==
    CHOOSE f \in {[q \in [op : Op, draft : Draft, arg : Scope, ok : BOOLEAN] |->
                        ServeHTTP(Request(q), q.ok)]} : f = f

Serves(q) ==
    Routing[[op |-> q.op, draft |-> q.draft, arg |-> q.arg, ok |-> securityAdminSession(q.cookie)]]
Served(s) == Serves(tasks[s].req)

AnswerWith(s, status, r, c, n) ==
    tasks' = [tasks EXCEPT ![s].ans = [status |-> status, rows |-> r, customs |-> c, total |-> n]]

Reply(s, outcome) == AnswerWith(s, Encode(Served(s).op)[outcome].status, {}, {}, 0)

\* The handler of op has the call; nobody looks at the cookie again.
Runs(s, op) == Inside(s) /\ Served(s).op = op

Proceed(s, step) == tasks' = [tasks EXCEPT ![s].at = step]

Arg_(s) == tasks[s].req.arg
Draft_(s) == tasks[s].req.draft

\* The router, the session check or a decoder turns the request down.
Stopped(s) ==
    /\ Sent(s) /\ Served(s).stage # "call"
    /\ AnswerWith(s, Refused(Served(s).stage).status, {}, {}, 0)
    /\ UNCHANGED <<server, browser, view, bounds>>

\* The session is good, the request decodes: its handler is called.
Enter(s) ==
    /\ Sent(s) /\ Served(s).stage = "call"
    /\ tasks' = [tasks EXCEPT ![s].at = "in", ![s].since = now]
    /\ UNCHANGED <<server, browser, view, bounds>>

\* A handler returns a plain error, from wherever it is: a user may be stored by then.
Fails(s) ==
    /\ Inside(s) /\ Served(s).op # "logout"
    /\ AnswerWith(s, ErrorHandler("error").status, {}, {}, 0)
    /\ Event /\ clean' = FALSE
    /\ UNCHANGED <<server, browser, view>>

ReadOnly == UNCHANGED <<server, browser, view, bounds>>
Writes == UNCHANGED <<now, secret, orphans, browser, view, bounds>>

Rank(u) == Cardinality({v \in people : v <= u})
PageOf(p) == {u \in people : Rank(u) \in ((p - 1) * PerPage + 1)..(p * PerPage)}

NodesGet(s) == Runs(s, "nodesGet") /\ Reply(s, "OK") /\ ReadOnly
ConfigSchema(s) == Runs(s, "configSchema") /\ Reply(s, "OK") /\ ReadOnly

UsersGet(s) ==
    /\ Runs(s, "usersGet")
    /\ AnswerWith(s, encodeUsersGetResponse.OK.status, PageOf(Arg_(s)), {}, Cardinality(people))
    /\ ReadOnly

ConfigCustoms(s) ==
    /\ Runs(s, "configCustoms")
    /\ AnswerWith(s, encodeConfigCustomsResponse.OK.status, people, custom, 0)
    /\ ReadOnly

\* The base is always there to read, empty before its first save.
ConfigGet(s) ==
    /\ Runs(s, "configGet")
    /\ Reply(s, IF Arg_(s) = Base \/ Arg_(s) \in custom THEN "OK" ELSE "NotFound")
    /\ ReadOnly

\* What is stored in a config is ConfigStore's; here only whether it is taken.  The
\* empty draft of an editor nothing was loaded into has no profile title.
ConfigSave(s) ==
    /\ Runs(s, "configSave")
    /\ LET taken == /\ Draft_(s) = "good" /\ tasks[s].req.from # Blank
                    /\ Arg_(s) \in {Base} \cup custom IN
       Reply(s, IF taken THEN "OK" ELSE "BadRequest")
    /\ ReadOnly

\* What the call of t, a task or one left behind, changes once its handler has it.
Write(t) ==
    LET op == Serves(t.req).op
        u == t.req.arg IN
    \/ op = "customCreate" /\ u \in people /\ custom' = custom \cup {u} /\ UNCHANGED <<people, born>>
    \/ op = "customDelete" /\ custom' = custom \ {u} /\ UNCHANGED <<people, born>>
    \/ /\ op = "userCreate" /\ t.at = "in" /\ t.req.draft = "good" /\ born < MaxUser
       /\ born' = born + 1 /\ people' = people \cup {born + 1} /\ UNCHANGED custom
    \* the user goes with his configs (ON DELETE CASCADE), if he is still there
    \/ op = "userDelete" /\ people' = people \ {u} /\ custom' = custom \ {u} /\ UNCHANGED born

CustomCreate(s) ==
    /\ Runs(s, "customCreate") /\ Arg_(s) \in people
    /\ Reply(s, IF Arg_(s) \in custom THEN "BadRequest" ELSE "OK")
    /\ Write(tasks[s]) /\ Writes

CustomDelete(s) ==
    /\ Runs(s, "customDelete")
    /\ Reply(s, IF Arg_(s) \in custom THEN "OK" ELSE "BadRequest")
    /\ Write(tasks[s]) /\ Writes

\* ensureEmailFree found no clash: the row is stored, and only then are the panels synced.
StoreUser(s) ==
    /\ Runs(s, "userCreate") /\ tasks[s].at = "in"
    /\ Write(tasks[s]) /\ Proceed(s, "stored") /\ Writes

\* Refused before: a bad draft, an inbound that is gone, a name that is taken in the store or
\* on a panel.  A synced user is answered.
UserCreate(s) ==
    /\ Runs(s, "userCreate")
    /\ \/ tasks[s].at = "in"
          /\ \E o \in {"BadRequest", "Conflict"} : (o = "Conflict" => Draft_(s) = "good") /\ Reply(s, o)
       \/ tasks[s].at = "stored" /\ Reply(s, "OK")
    /\ ReadOnly

\* users.Get: the panels are called with what it found.
FindUser(s) ==
    /\ \E op \in {"userEdit", "userDelete", "userRecreate"} : Runs(s, op)
    /\ tasks[s].at = "in" /\ Arg_(s) \in people
    /\ Proceed(s, "found") /\ ReadOnly

UserEdit(s) ==
    /\ Runs(s, "userEdit")
    /\ \/ (Draft_(s) # "good" \/ tasks[s].at = "found") /\ Reply(s, "BadRequest")
       \/ Draft_(s) = "good" /\ tasks[s].at = "found" /\ Arg_(s) \in people /\ Reply(s, "OK")
    /\ ReadOnly

\* After the panels; the row may be gone by then.
UserDelete(s) ==
    /\ Runs(s, "userDelete") /\ tasks[s].at = "found"
    /\ Reply(s, "OK")
    /\ Write(tasks[s]) /\ Writes

UserRecreate(s) == Runs(s, "userRecreate") /\ tasks[s].at = "found" /\ Reply(s, "OK") /\ ReadOnly

\* There is no such user, or, when his connections are replaced, no more: his handlers have
\* no answer of their own for that.
NoSuchUser(s) ==
    /\ \/ \E op \in {"customCreate", "userEdit", "userDelete", "userRecreate"} : Runs(s, op) /\ tasks[s].at = "in"
       \/ Runs(s, "userEdit") /\ tasks[s].at = "found"
    /\ Arg_(s) \notin people
    /\ AnswerWith(s, ErrorHandler("error").status, {}, {}, 0)
    /\ ReadOnly

NodeSave(s) ==
    /\ Runs(s, "nodeSave")
    /\ \E o \in IF Draft_(s) = "good" THEN {"OK"} ELSE {"BadRequest", "Conflict"} : Reply(s, o)
    /\ ReadOnly

NodeDelete(s) == Runs(s, "nodeDelete") /\ (\E o \in {"OK", "BadRequest"} : Reply(s, o)) /\ ReadOnly
ProviderCheck(s) == Runs(s, "providerCheck") /\ (\E o \in {"OK", "BadRequest"} : Reply(s, o)) /\ ReadOnly
Logout(s) == Runs(s, "logout") /\ Reply(s, "OK") /\ ReadOnly

Handler(s) ==
    \/ Stopped(s) \/ Enter(s) \/ Fails(s) \/ NodesGet(s) \/ ConfigSchema(s) \/ UsersGet(s)
    \/ ConfigCustoms(s) \/ ConfigGet(s) \/ ConfigSave(s) \/ CustomCreate(s) \/ CustomDelete(s)
    \/ StoreUser(s) \/ UserCreate(s) \/ FindUser(s) \/ UserEdit(s) \/ UserDelete(s) \/ UserRecreate(s)
    \/ NoSuchUser(s) \/ NodeSave(s) \/ NodeDelete(s) \/ ProviderCheck(s) \/ Logout(s)

\* fetch rejects: the request or its answer got lost, or the connection while it was out.
Lost(s) ==
    /\ page = "shell" /\ tasks[s] # Idle /\ Status(s) # LostStatus
    /\ AnswerWith(s, LostStatus, {}, {}, 0)
    /\ orphans' = orphans \cup Abandoned({s})
    /\ Event /\ clean' = FALSE
    /\ UNCHANGED <<site, browser, view>>

\* A request that no page waits for is still let in, carried out, or comes to nothing: it
\* never arrived, was refused, or its handler stopped with its context.
Late(e) ==
    /\ \/ /\ e.at = "sent" /\ Serves(e.req).stage = "call"
          /\ orphans' = (orphans \ {e}) \cup {[e EXCEPT !.at = "in", !.since = now]}
          /\ UNCHANGED <<people, born, custom, clean>>
       \/ /\ e.at # "sent" /\ Write(e) /\ orphans' = orphans \ {e}
          /\ clean' = (clean /\ people' = people /\ custom' = custom)
       \/ orphans' = orphans \ {e} /\ UNCHANGED <<people, born, custom, clean>>
    /\ UNCHANGED <<now, secret, browser, view, tasks, uses, events>>

(***************************************************************************)
(* The SPA: what a method does when it starts.                                *)
(***************************************************************************)
TableReads == {"inbounds", "stats"}

\* The users table reads fields of every row: without them nothing of the page is drawn.
Drawn == tab = "users" => rows.of = {} \/ TableReads \subseteq rows.fields

\* Nothing else is under way, or the tab is no longer left alone.
Begin(s, m, who, draft, calls, sc, pg) ==
    /\ page = "shell" /\ Drawn /\ tasks[s] = Idle /\ m \in uses
    /\ tasks' = [tasks EXCEPT ![s] = Call([m |-> m, who |-> who, draft |-> draft], calls, sc, pg)]
    /\ clean' = (Quiet /\ (clean \/ m = "go"))
    /\ UNCHANGED <<server, browser, uses, events>>

go(s, t) ==
    /\ Begin(s, "go", Base, "good", load(t), scope, userPage)
    /\ tab' = t
    /\ UNCHANGED <<scope, shown, customs, rows, userPage, total, schema, busy>>

userPageCount(n) == IF n <= PerPage THEN 1 ELSE (n + PerPage - 1) \div PerPage

gotoUserPage(s, p) ==
    /\ tab = "users" /\ p # userPage /\ p \in 1..userPageCount(total)
    /\ Begin(s, "gotoUserPage", Base, "good", <<"usersGet">>, scope, p)
    /\ userPage' = p
    /\ UNCHANGED <<tab, scope, shown, customs, rows, total, schema, busy>>

\* onScopeChange: the select offers the base and the customs.
switchScope(s, sc) ==
    /\ tab = "config" /\ sc # scope /\ sc \in {Base} \cup customs
    /\ Begin(s, "switchScope", Base, "good", <<"configGet">>, sc, userPage)
    /\ scope' = sc
    /\ UNCHANGED <<tab, shown, customs, rows, userPage, total, schema, busy>>

\* post: a mutation, from a button that busy disables.
Post(s, m, who, draft, calls) ==
    /\ ~busy
    /\ Begin(s, m, who, draft, calls, scope, userPage)
    /\ busy' = TRUE
    /\ UNCHANGED <<tab, scope, shown, customs, rows, userPage, total, schema>>

submitUser(s, u, draft) ==
    /\ tab = "users" /\ u \in {0} \cup rows.of /\ draft # "malformed"
    /\ Post(s, "submitUser", u, draft, <<IF u = 0 THEN "userCreate" ELSE "userEdit", "usersGet">>)

deleteUser(s, u) ==
    tab = "users" /\ u \in rows.of /\ Post(s, "deleteUser", u, "good", <<"userDelete", "usersGet">>)

recreateUser(s, u) ==
    tab = "users" /\ u \in rows.of /\ Post(s, "recreateUser", u, "good", <<"userRecreate", "usersGet">>)

saveNode(s, draft) ==
    tab = "nodes" /\ Post(s, "saveNode", Base, draft, <<"nodeSave", "nodesGet">>)

deleteNode(s) ==
    tab = "nodes" /\ Post(s, "deleteNode", Base, "good", <<"nodeDelete", "nodesGet">>)

saveConfig(s, draft) ==
    tab = "config" /\ Post(s, "saveConfig", Base, draft, <<"configSave">>)

deleteCustom(s) ==
    /\ tab = "config" /\ scope # Base
    /\ Post(s, "deleteCustom", scope, "good", <<"customDelete", "configCustoms", "configGet">>)

\* usersWithoutCustom; a double click on a row does not ask busy.
createCustom(s, u) ==
    /\ tab = "config" /\ u \in rows.of \ customs
    /\ Begin(s, "createCustom", u, "good", <<"customCreate", "configCustoms", "configGet">>, scope, userPage)
    /\ busy' = TRUE
    /\ UNCHANGED <<tab, scope, shown, customs, rows, userPage, total, schema>>

checkProvider(s) ==
    /\ tab = "config"
    /\ Begin(s, "checkProvider", Base, "good", <<"providerCheck">>, scope, userPage)
    /\ UNCHANGED view

logout(s) == Begin(s, "logout", Base, "good", <<"logout">>, scope, userPage) /\ UNCHANGED view

Method(s) ==
    \/ \E t \in {"users", "nodes", "config"} : go(s, t)
    \/ \E p \in 1..MaxUser : gotoUserPage(s, p)
    \/ \E sc \in Scope : switchScope(s, sc)
    \/ \E u \in {0} \cup User, d \in Draft : submitUser(s, u, d)
    \/ \E u \in User : deleteUser(s, u) \/ recreateUser(s, u) \/ createCustom(s, u)
    \/ \E d \in Draft : saveNode(s, d) \/ saveConfig(s, d)
    \/ deleteNode(s) \/ deleteCustom(s) \/ checkProvider(s) \/ logout(s)

(***************************************************************************)
(* The SPA: what a method does with the answer of its call.                   *)
(***************************************************************************)
Got(s, op) == Answered(s) /\ tasks[s].req.op = op
Same == UNCHANGED <<server, browser, bounds>>

Fields(op) == DOMAIN Encode(op).OK.body.fields["users"].of.fields

\* 401: on to the login page.
GotUnauthorized(s) ==
    /\ Answered(s) /\ Status(s) = 401 /\ tasks[s].req.op # "logout"
    /\ Leave("login")
    /\ UNCHANGED <<site, jar, bounds>>

\* getJSON throws, and the method ends with it.
GotNothing(s) ==
    /\ Answered(s) /\ tasks[s].req.op \in Gets /\ ~Good(s) /\ Status(s) # 401
    /\ Stop(s)
    /\ Same /\ UNCHANGED view

GotNodes(s) ==
    /\ Got(s, "nodesGet") /\ Good(s)
    /\ GoOn(s, scope, userPage, schema)
    /\ Same /\ UNCHANGED view

GotSchema(s) ==
    /\ Got(s, "configSchema") /\ Good(s)
    /\ schema' = TRUE
    /\ GoOn(s, scope, userPage, TRUE)
    /\ Same /\ UNCHANGED <<tab, scope, shown, customs, rows, userPage, total, busy>>

\* Slip: an empty page is left as it is.
GotUsers_stays(s) ==
    /\ Got(s, "usersGet") /\ Good(s)
    /\ rows' = [fields |-> Fields("usersGet"), of |-> tasks[s].ans.rows] /\ total' = tasks[s].ans.total
    /\ GoOn(s, scope, userPage, schema)
    /\ Same /\ UNCHANGED <<tab, scope, shown, customs, userPage, schema, busy>>

\* Slip: it asks again for the page it was on.
GotUsers_again(s) ==
    /\ Got(s, "usersGet") /\ Good(s)
    /\ LET a == tasks[s].ans IN
       /\ rows' = [fields |-> Fields("usersGet"), of |-> a.rows] /\ total' = a.total
       /\ IF a.rows = {} /\ a.total > 0 /\ userPage > 1
          THEN tasks' = [tasks EXCEPT ![s] = Call(tasks[s], <<"usersGet">>, scope, userPage)]
          ELSE GoOn(s, scope, userPage, schema)
    /\ Same /\ UNCHANGED <<tab, scope, shown, customs, userPage, schema, busy>>

\* loadUsers: from past the end it steps back and asks again.
GotUsers(s) ==
    /\ Got(s, "usersGet") /\ Good(s)
    /\ LET a == tasks[s].ans
           past == a.rows = {} /\ a.total > 0 /\ userPage > 1 IN
       /\ rows' = [fields |-> Fields("usersGet"), of |-> a.rows] /\ total' = a.total
       /\ userPage' = IF past THEN userPageCount(a.total) ELSE userPage
       /\ IF past
          THEN tasks' = [tasks EXCEPT ![s] = Call(tasks[s], <<"usersGet">>, scope, userPage')]
          ELSE GoOn(s, scope, userPage, schema)
    /\ Same /\ UNCHANGED <<tab, scope, shown, customs, schema, busy>>

\* Slip: load keeps the scope whether its custom is still there or not.
ScopeAfter_kept(t, owners) ==
    CASE t.m = "createCustom" -> t.who
      [] t.m = "deleteCustom" -> Base
      [] OTHER -> scope

\* loadCustoms, and the scope its caller goes on with: load keeps a custom that is still
\* there, createCustom turns to the new one, deleteCustom back to the base.
ScopeAfter(t, owners) ==
    CASE t.m = "createCustom" -> t.who
      [] t.m = "deleteCustom" -> Base
      [] OTHER -> IF scope \in owners THEN scope ELSE Base

GotCustoms(s) ==
    /\ Got(s, "configCustoms") /\ Good(s)
    /\ LET a == tasks[s].ans
           sc == ScopeAfter(tasks[s], a.customs) IN
       /\ customs' = a.customs /\ rows' = [fields |-> Fields("configCustoms"), of |-> a.rows]
       /\ scope' = sc
       /\ GoOn(s, sc, userPage, schema)
    /\ Same /\ UNCHANGED <<tab, shown, userPage, total, schema, busy>>

\* loadConfig: whatever scope the answer was asked for, it is what the editor holds.
GotConfig(s) ==
    /\ Got(s, "configGet") /\ Good(s)
    /\ shown' = Arg_(s)
    /\ GoOn(s, scope, userPage, schema)
    /\ Same /\ UNCHANGED <<tab, scope, customs, rows, userPage, total, schema, busy>>

\* post returns: busy ends, and the method goes on if it went well.
GotPosted(s) ==
    /\ Answered(s) /\ tasks[s].req.op \in Posts /\ Status(s) # 401
    /\ busy' = FALSE
    /\ IF Good(s) THEN GoOn(s, scope, userPage, schema) ELSE Stop(s)
    /\ Same /\ UNCHANGED <<tab, scope, shown, customs, rows, userPage, total, schema>>

GotChecked(s) == Got(s, "providerCheck") /\ Status(s) # 401 /\ Stop(s) /\ Same /\ UNCHANGED view

\* logout leaves whatever came back; the cookie goes if the answer came.
GotLoggedOut(s) ==
    /\ Got(s, "logout")
    /\ jar' = IF Good(s) THEN ClearCookie ELSE jar
    /\ Leave("login")
    /\ UNCHANGED <<site, bounds>>

Receive(s) ==
    \/ GotUnauthorized(s) \/ GotNothing(s) \/ GotNodes(s) \/ GotSchema(s) \/ GotUsers(s)
    \/ GotCustoms(s) \/ GotConfig(s) \/ GotPosted(s) \/ GotChecked(s) \/ GotLoggedOut(s)

(***************************************************************************)
(* Documents: the shell and the login page, and login.html.                   *)
(***************************************************************************)
\* Slip: any cookie is a session to the login page.
LoginPage_present(c) == IF c # NoCookie THEN "Found" ELSE "OK"

\* The page handlers look at the session themselves and redirect.
LoginPage(c) == IF Valid(c) THEN "Found" ELSE "OK"
AdminShellView(c) == IF Valid(c) THEN "OK" ELSE "Found"

PageStatus(path, c) ==
    LET h == ServeHTTP(Page(path), FALSE)
        outcome == IF h.op = "loginPage" THEN LoginPage(c) ELSE AdminShellView(c) IN
    Encode(h.op)[outcome].status

\* The browser follows a redirect, or shows the page; the shell mounts the SPA.
Fetched ==
    /\ page = "nav"
    /\ IF PageStatus(hop, jar) = 302
       THEN /\ hop' = IF hop = "login" THEN "users" ELSE "login"
            /\ UNCHANGED <<page, view, tasks, clean>>
       ELSE /\ page' = IF hop = "login" THEN "login" ELSE "shell"
            /\ clean' = TRUE
            /\ IF hop = "login"
               THEN UNCHANGED <<view, tasks>>
               ELSE /\ Data
                    /\ \E s \in Slots :
                         tasks' = [tasks EXCEPT ![s] = Call([m |-> "go", who |-> Base, draft |-> "good"],
                                                           load("users"), Base, 1)]
            /\ UNCHANGED hop
    /\ UNCHANGED <<server, jar, uses, events>>

\* The form: a good password brings the cookie, and the shell.
login(right) ==
    /\ page = "login"
    /\ LET r == [method |-> "POST", path |-> <<"admin", "api", "login">>, query |-> <<>>, json |-> TRUE,
                 body |-> JObj([user |-> JStr, password |-> JStr])]
           h == ServeHTTP(r, FALSE) IN
       /\ h = [op |-> "login", stage |-> "call"]
       /\ encodeLoginResponse[IF right THEN "OK" ELSE "Unauthorized"].status = 200
    /\ jar' = IssueCookie
    /\ Leave("users")
    /\ UNCHANGED <<site, bounds>>

\* The operator types an address.
Visit(path) ==
    /\ page \in {"login", "shell"} /\ Quiet
    /\ Leave(path)
    /\ UNCHANGED <<site, jar, bounds>>

(***************************************************************************)
(* Time, the other operator, a new secret.                                    *)
(***************************************************************************)
Tick ==
    /\ Event
    /\ now' = now + 1
    /\ jar' = IF jar # NoCookie /\ jar.till <= now' THEN NoCookie ELSE jar
    /\ UNCHANGED <<secret, people, born, custom, orphans, page, hop, view, tasks, clean>>

\* SUBGEN_SECRET is changed and the service started again: the handlers that ran beyond
\* the time Shutdown gives them end with the process.
Rekey ==
    /\ Event
    /\ secret' = secret + 1
    /\ tasks' = [s \in Slots |->
                    IF Inside(s) THEN [tasks[s] EXCEPT !.ans = [NoAnswer EXCEPT !.status = LostStatus]]
                    ELSE tasks[s]]
    /\ orphans' = {e \in orphans : e.at = "sent"}
    /\ clean' = (clean /\ \A s \in Slots : ~Inside(s))
    /\ UNCHANGED <<now, people, born, custom, browser, view>>

Foreign ==
    /\ Event /\ clean' = FALSE
    /\ \E u \in people :
         \/ people' = people \ {u} /\ custom' = custom \ {u}
         \/ custom' = (IF u \in custom THEN custom \ {u} ELSE custom \cup {u}) /\ UNCHANGED people
    /\ UNCHANGED <<now, secret, born, orphans, browser, view, tasks>>

(***************************************************************************)
(* The specification.                                                         *)
(***************************************************************************)
Init ==
    /\ now = 0 /\ secret = 1
    /\ born = MaxUser - 1 /\ people = 1..born /\ custom = {} /\ orphans = {}
    /\ jar = NoCookie /\ page = "nav" /\ hop = "users"
    /\ tab = "users" /\ scope = Base /\ shown = Blank /\ customs = {}
    /\ rows = [fields |-> {}, of |-> {}] /\ userPage = 1 /\ total = 0
    /\ schema = FALSE /\ busy = FALSE
    /\ tasks = [s \in Slots |-> Idle]
    /\ uses \in Operators /\ events = 0 /\ clean = TRUE

Next ==
    \/ \E s \in Slots : Method(s) \/ Handler(s) \/ Lost(s) \/ Receive(s)
    \/ Fetched \/ login(TRUE)
    \/ \E path \in {"users", "login"} : Visit(path)
    \/ \E e \in orphans : Late(e)
    \/ Tick \/ Rekey \/ Foreign

\* A request is answered, an answer is handled, a page arrives; nobody must click.
Fairness ==
    /\ \A s \in Slots : WF_vars(Handler(s)) /\ WF_vars(Receive(s))
    /\ WF_vars(Fetched)

Spec == Init /\ [][Next]_vars /\ Fairness

(***************************************************************************)
(* Properties.                                                                *)
(***************************************************************************)
\* The SPA and the generated API agree: every call of app.js reaches the operation it is
\* meant for, and its payload decodes - optional fields left out, a logical rule, a
\* hysteria2 bag - unless the draft itself is malformed; only the session may stop it.
ContractHolds ==
    \A s \in Slots : Out(s) =>
        LET h == Served(s) IN
        /\ h.op = tasks[s].req.op
        /\ h.stage = "call" \/ h.stage = "SecurityError"
           \/ (h.stage = "DecodeRequestError" /\ Draft_(s) = "malformed")

\* The editor holds the config its scope selector names, and the picker every user, when
\* the config tab has settled and nothing crossed it: customs come and go, the user of the
\* scope may have been deleted on another tab, and load falls back to the base.
EditorBound ==
    page = "shell" /\ Quiet /\ clean /\ tab = "config" => shown = scope /\ rows.of = people

\* The users table shows the page its pager names, as the server would give it now, and is
\* empty only when there is nobody: deletes that empty the last page step back.
TableTrue ==
    page = "shell" /\ Quiet /\ clean /\ tab = "users" =>
        /\ rows.of = PageOf(userPage) /\ total = Cardinality(people) /\ Drawn
        /\ rows.of = {} => people = {}

\* The session check let t in: with a cookie that was good then, and of the present secret.
LetIn(t) ==
    /\ t.at # "sent"
    /\ t.req.cookie # NoCookie /\ t.since <= t.req.cookie.exp /\ t.req.cookie.secret = secret

\* Users and custom configs change only for a call that the session check let in, with a
\* cookie that was good when it entered and whose key the service still runs with, or by the
\* other operator.  The write may come much later, after the panels: the cookie may have
\* expired since, and the page may have given up.
Authorised ==
    [][people' # people \/ custom' # custom =>
          \/ events' # events /\ UNCHANGED <<tasks, orphans>>
          \/ \E s \in Slots : Inside(s) /\ tasks'[s] # tasks[s] /\ LetIn(tasks[s])
          \/ \E e \in orphans \ orphans' : LetIn(e)]_vars

\* A method ends, whatever becomes of its calls, and gives the buttons back: loadUsers calls
\* itself again only from a page past the end and never for ever, and the actions that a
\* mutation disables do not stay so when its answer is lost.
NothingHangs ==
    /\ \A s \in Slots : tasks[s] # Idle ~> tasks[s] = Idle
    /\ busy ~> ~busy

\* The redirects between the shell and the login page come to an end, with a cookie that
\* expired, or that another secret signed.
NavigationEnds == page = "nav" ~> page # "nav"

\* A call the session check refused, and a logout that was answered, end on the login page,
\* unless that answer is lost on its way to the tab.
OutMeansOut ==
    \A s \in Slots :
        (Answered(s) /\ (Status(s) = 401 \/ (tasks[s].req.op = "logout" /\ Good(s))))
            ~> (page = "login" \/ (tasks[s] # Idle /\ Status(s) = LostStatus))

\* What app.js says of cfgScope, that it is the config the editor is bound to: a config
\* that was saved is the one that was being edited.
SavesWhatItShows ==
    \A s \in Slots :
        tasks[s] # Idle /\ tasks[s].req.op = "configSave" /\ Good(s) => tasks[s].req.from = tasks[s].req.arg
=============================================================================
