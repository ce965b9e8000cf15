# A verification project for subgen

subgen hands proxy subscriptions to users. An operator registers 3x-ui panels
("nodes") and their inbounds, creates users and connects them to inbounds, and edits
the mihomo config from which every user's profile is rendered. The store is SQLite;
the panels are servers of their own that also hold a client for every connected user.
The operator works in a single-page application that calls an HTTP API generated by ogen.

This directory models the parts of the repository that keep state and run concurrently,
from the migration scripts to the browser tab, checks them with TLC on small instances,
and proves the most important safety properties with TLAPS for every instance.

    tlc -workers 2 -config Provisioning_sequential.cfg MC_Provisioning
    tlapm ProvisioningProofs.tla

## Inventory

| part | state | operations | talks to |
|---|---|---|---|
| provisioning service (`service/provisioning`) | none of its own | CreateUser, EditUser, DeleteUser, RecreateUser | users and nodes repositories, a 3x-ui panel per node |
| users repository | `users`, `user_connections` | Create, Get, ReplaceConnections, SetDescription, Delete, reads | the store |
| 3x-ui client (`clients/xui`) | cookie | AddClient, DelClient, ListInbounds, 15 s timeout | a panel, over HTTP |
| node registry (`service/nodes`, `repository/nodes`) | `nodes`, `node_inbounds` | Save, Delete, List | the store; admin pages hold forms |
| config anchors (`repository/configs`) | `subscription_configs` | EnsureBaseConfigID, UserConfigID, CreateUserConfig, DeleteUserConfig | the store |
| mihomo config store (`repository/routing`) | six `mihomo_*` tables | SaveMihomoConfig, CloneConfig, reads | the store; `config_save`, `custom_create`, `custom_delete` |
| drafts (`mihomo`) | none | decode, validate | `config_save` |
| subscription endpoint (`handlers/sub`) | none | one GET of nine queries | users, configs, routing, fleet, renderer |
| rendering (`mihomo/render`) | none | Render | the endpoint |
| fleet (`service/fleet`) | none | Fleet: every panel's inbounds and their clients, then the connections | panels |
| certificate reloader (`cert`) | certificate, two marks, a lock | GetCertificate, reload | two files a renewal rewrites |
| rule-set mirror (`service/ruleset`) | last good copy per file, a lock | Run, loop, fetch, Get | upstream servers |
| store connection (`repository/open.go`, every repository method) | one `database/sql` connection | the statements of each method | SQLite |
| migrations (`migrations`) | `schema_migrations`, a pragma of the connection | Apply: five scripts | the store, at the start of the service and of `subctl` |
| admin session and login (`handlers/web/auth.go`, `login`, `logout`, `admin_shell`) | a signed cookie in the browser | issue, check, clear; two pages that redirect to each other | the API's security handler |
| generated API layer (`oas`, `handlers/api`) | none | route, check the session, decode, call, encode | handlers, the SPA |
| admin reads (`users_get`, `nodes_get`, `config_get`, `config_customs`, `config_schema`) | none | one per tab of the SPA | repositories |
| admin SPA (`handlers/web/static`) | tab, scope, editor, users, page, busy | a method per button, each a chain of awaited calls | the API |
| links, flags, wiring | none | | |

What makes them hard:

* **Nothing locks a user.** `repository.Open` allows one connection, so a statement or a
  transaction is atomic; a request is many of them with panel calls in between, and two
  requests interleave at every one.
* **The panels fail half way.** A call may be carried out and reported as failed, a
  request may be cut, the store is written before the panels, an operator changes a
  panel by hand. Panels know a user by email, which is the nickname.
* **A form is old when it is submitted.** Admin pages name inbounds by id, and a save
  deletes what the form no longer lists.
* **Ids carry the references.** A save replaces all rows of a config under new ids; a
  clone remaps every reference; rule ids come from `MAX(id)` over all configs.
* **A read is not a snapshot.** The subscription endpoint makes nine queries outside a
  transaction, with saves in between.
* **Files are read and dated in two steps**, while a renewal rewrites them.
* **One connection serves everybody.** A method that asks for it while it holds it, or
  that fails without giving it back, stops the service.
* **A migration may die between two statements**, two processes migrate one file, and two
  scripts switch foreign keys off outside a transaction.
* **Answers come when they come.** The SPA changes what it shows before and after its
  awaits; an answer may be lost, come after another method's, or find the session expired
  and the user gone.
* **The payload of the SPA is written by hand and the decoder is generated.** Fields that
  do not apply are left out by the one and must be optional for the other.

What makes each part correct: nicknames are unique and no connection dangles; panels
follow the store; a client that is not subgen's is never touched; a uuid outlives
re-binds (provisioning). Nothing that is referenced is deleted, ids never come back, a
save changes one node (registry). Configs do not share rows, a save replaces exactly one
config with exactly the draft, a clone is a snapshot (config store). What is served can
be loaded and is never another user's (subscription). A certificate goes with its key,
and the last one is served in the end (reloader). A mirrored file is never lost or
older than before, and is kept up to date (mirror). A file means the same after the
migrations as before, and what is recorded is what was done (migrations). Every call gives
the connection back, and users are stored whole (store). A call of the SPA reaches its
operation and decodes; the table and the editor show what they name; nothing changes but
for a call that the session check let in; nothing hangs (session, API, SPA). `PROJECT.json` lists the hazards one
by one, each at its line, with the properties aimed at it.

## Modules

| module | models | extends |
|---|---|---|
| `Provisioning` | service, users repository, 3x-ui client; panels and operators from outside | |
| `Fleet` | what panels and store come to for a subscriber and the users table | `Provisioning` |
| `ProvisioningProofs` | theorems about both | `Provisioning`, `Fleet` |
| `NodeRegistry`, `NodeRegistryProofs` | node registry and the admin pages' forms; theorems about it | |
| `Drafts` | what `config_save` validates, the search for cycles of groups with it; a reference definition of a cycle | |
| `ConfigProfiles` | abstract: what configs promise | |
| `ConfigStore` | anchors and mihomo tables, refines `ConfigProfiles` | `Drafts` |
| `ConfigStoreProofs` | theorems about it | `ConfigStore` |
| `Subscription` | endpoint and rendering, composed with the store and its admin handlers | `ConfigStore` |
| `SubscriptionProofs` | theorems about it | `Subscription`, `ConfigStoreProofs` |
| `CertReloader`, `CertReloaderProofs` | certificate reloader; theorems about it | |
| `Mirror`, `MirrorProofs` | rule-set mirror, its upstreams and restarts; theorems about it | |
| `Migrations` | the runner and the five scripts, two processes, SQLite from outside | |
| `Store` | the one connection under every repository method; users stored and listed | `Migrations` |
| `StoreProofs` | theorems about both | `Migrations`, `Store` |
| `Api` | the generated server: routes, session check, schemas, decoders, handlers, encoders | |
| `Console` | a browser tab, its cookie and SPA, over the API and the handlers' effects | `Api` |
| `ConsoleProofs` | theorems about both | `Api`, `Console` |
| `MC_*` | the sets and functions the configurations need | |

Operators named `X_...` beside an operator `X` ("Slip:") are plausible mistakes: with
`X` replaced by one, a named property of a run fails. They show that the property
depends on the code, and take no part in any specification.

### Provisioning

`nameOf` and `conns` are the tables `users` and `user_connections`, `nodes` the
registered nodes, `panel[n][e]` the client with email `e` on node `n`. `req[p]` is the
request that handler `p` serves, its program counter and its local variables; `todo` is
what is left of the loop over panels that the request is in. Go ranges over maps in no
fixed order, so the next panel is any.

| step | code |
|---|---|
| `BeginCreate`, `BeginEdit`, `BeginOther` | the handlers accept a request |
| `GetUser`, `GetConnections` | `users.Get`, two queries |
| `Index` | `nodeIndex`, `desiredTargets` |
| `GuardPanel`, `GuardPassed` | `ensureEmailFree`, one panel a step, fails closed |
| `StoreUser`, `ReplaceConnections`, `SetDescription` | the writes, with their constraint violations |
| `SyncPanel` | one panel of `syncPanels`: missing, dropped, unchanged, or looked up |
| `Unbind`, `Bind` | DelClient and AddClient of a re-bind, two calls |
| `RemoveClient`, `RemoveUser` | `DeleteUser` |
| `CutShort` | a cancelled context or a stopped process |
| `DeleteNode`, `OperatorChange` | the node-delete handler; somebody at a panel |

Three history variables carry the properties: `cleared` (pairs of node and nickname that
`ensureEmailFree` found free), `drift` (pairs touched by something other than a clean
request, and not repaired by one since), `birth` (the uuid a pair was last bound afresh
with).

A user id is the number of the request that creates it, and a uuid the number of the
request that mints it: both are unique and nothing else about them matters.

### Fleet

Operators on the state of `Provisioning`: `buildFleet` goes through the clients subgen
bound on the panels that answer, `addHysteria2Inbounds` through the connections in the
store, `ClientMissing` is the badge of the users table. `FleetServes` compares them with
the user's connections, for every set of panels that answer. A fetch reads in several
steps; the property speaks of users and panels that are at rest, for whom the steps read
what one look would.

### NodeRegistry

`nameOf`, `rows` are the tables; `refs` are the inbounds that users, groups or rules
reference, which come and go; `form[p]` is what page `p` shows, read in two queries and
edited since. `Save` is create and update: validation, unique name, deletion of the
inbounds the form has lost, updates and inserts in the order of the form under
`UNIQUE(node_id, inbound_port)`. A port stands for the inbound's name too.

### Drafts, ConfigProfiles and ConfigStore

`Drafts` validates a draft: `cyclicGroups` is the depth-first search of the code, a
recursive function of the groups still to be looked at and the colours. `Looped` says what
it looks for: a set of groups each of which refers to one of the set. `GroupsAcyclic`
compares the two over all 512 graphs of three groups, and says of every reachable store
that no group leads back to itself. A draft that does not pass is answered 400 and reaches no table.

`ConfigStore` keeps the rows: ids, positions, references by id. `content` rebuilds from
them (`Assembled`) what a subscriber would be served, in names; it is the refinement mapping to
`ConfigProfiles`, which has only `content`. `SaveMihomoConfig` and `CloneConfig` compute
the ids the inserts get. A rule tree is a function on paths. `config_save` is
`Submit`, `EnsureBase`, `ResolveConfig`, `SaveMihomoConfig`, each a step.

### Subscription

One action per query. `Rendered` is what the renderer makes of the nine results;
`Expected` says the same of a config's content, in names and in one piece.

### CertReloader

A version is the number of the renewal. Reading the certificate, reading the key, and
taking the mtime are three steps; storing under the lock is one. Every write is taken to
have an mtime of its own.

### Mirror

`srcs` and `cache` are the mirror's maps; `at` and `todo` are where `Run` is among the
sources, `loops` the goroutines it has started, `fetch[f, by]` the download that `Run` or
the loop of `f` is at. A restart reads the providers the configs have by then. When
there is nothing to mirror the system stops: the run has `CHECK_DEADLOCK FALSE`.

### Migrations

`disk` is the file: the ledger, the recorded scripts, the schema, and of the content what
refers to what (providers, rules, groups, members). `work[p]` is what process `p`'s open
transaction has made of it, `conn[p]` its connection (foreign keys on, transaction open),
`writer` who holds SQLite's write lock. `Open`, `EnsureLedger`, `Check`, `RunBody`,
`Record`, `Commit` are `Apply` and `applyOne`, a statement a step; a script that runs
without a transaction of the runner's (`.notx`) has steps of its own: `PragmaOff`,
`RebuildProviders`, `RebuildRules`, `RebuildGroups`, `PragmaOn`. `Die` is a crash, a full
disk or a busy timeout at any step; what was not committed is gone.

### Store

A repository method is the sequence of statements it sends: `row` and `exec` take the
connection and give it back, `rows` keeps it until `drain`, `begin` until `commit`. All
methods are listed, by the names of their packages; of what they read and write, users
and their connections are kept. `Needs` says when a statement may go on, `Released` what an
error gives back. `Abort` is a failed statement or a cancelled request, also of one that
waits. A connection's foreign keys are those the migrations left.

### Api and Console

`Api` has no state. A JSON value and the schema that decodes it are records tagged by
kind; the schemas are those of `Decode` in `oas_json_gen.go` with the required masks and
the enumerations of the validators; a request goes `ServeHTTP` (the routes), `handle...`
(session, parameters, body, in that order), the handler, `encode...`. Decoding recurs
along the types, which nest five deep in a config: `Decode1` to `Decode4` and `Decodes`
are its levels. Only the sub-rules of a logical rule nest without end, with the type of a
rule at every depth; a list of rules is therefore a tree, a function from paths to rules
without their children (`JTree`, `Tree`).

`Console` is one tab. A method of `app.js` is a task: the calls it still makes, and the one
that is out; it runs to its next `await` and goes on when the answer comes (`Got...`,
one action per `then`). `tab`, `scope` (`cfgScope`), `shown` (what `cfg` was loaded for),
`customs`, `rows` (`users`: which fields and whose), `userPage`, `total`, `schema`, `busy`
are the SPA's data. `people`, `born` and `custom` are
what the handlers change: users that are, that ever were, and that have a custom config.

The server works on a call in steps that may come at any time after it was sent (`at`:
sent, in, found, stored). The cookie is looked at once, in `Enter` or `Stopped`; what the
handler changes comes later, after panel calls for a user: `StoreUser` stores a row before
the panels are synced, and `UserCreate` answers after; `FindUser` reads a user before the
panels are called, and `UserDelete` deletes the row after. So the cookie may expire between
the check and the write, a user may vanish, and `Fails` may answer 500 for one who is
stored. A page that leaves, or loses an answer, does not call a mutation back: it is in
`orphans`, and `Late` lets it in, carries it out or drops it, at any later time. `since`,
the time a call was let in, is history.

`login`, `LoginPage`, `AdminShellView` and `Fetched` are the pages and their redirects.
`Tick`, `Rekey` (a restart with another secret, which ends the handlers inside), `Foreign`
(another operator) and `Visit` (between two methods) come from outside.
`clean` is history: nothing crossed the tab since it last loaded in full; `Quiet` says
that no method is under way. `UsersGet` and `ConfigCustoms` are one step here, their
queries are `Store`'s.

Left out of the SPA: the search box and the inbound filter, the forms' fields beyond what
the payload needs, drag and drop, the warnings, the YAML editor.

## Runs

| run | instance | states | checks |
|---|---|---|---|
| `provisioning_sequential` | 1 handler, 2 nicknames, 2 nodes, 4 inbounds (one hysteria2, one with a port the panel lacks), a foreign client, 3 requests, 1 fault, 1 operator's change | 757 624 | `PanelsAgree`, `FleetServes`, `UuidStable`, `PanelWritesVetted` |
| `provisioning_overlapping` | 2 handlers, 1 nickname, 3 requests, 1 fault; fair | 233 759 | `StoreConsistent`, `PanelsAgree`, `RequestsEnd` |
| `noderegistry_pages` | 2 pages, 2 nodes, 2 names, 2 ports, 3 inbound ids, 1 edit, of any ports of a form at once | 1 079 507 | `TypeOK`, `RegistrySound`, `IdsStable`, `SaveStaysHome`, `FreshSaveStores` |
| `configstore_saves` | 1 admin request, 2 users, 4 drafts, 4 configs ever, 4 writes | 38 882 | `TypeOK`, `ConfigsApart`, `GroupsAcyclic`, `ImplementsProfiles`, `SaveHitsItsOwner` |
| `subscription_serving` | 1 subscriber's request, 1 admin request, 2 users, 2 drafts, 3 configs ever, 3 writes | 833 734 | `SelfContained`, `QuietServesConfig`, `NeverAnothersConfig` |
| `certreloader` | 2 handshakes, 2 renewals; fair | 7 993 | `PairWhole`, `LatestServed` |
| `mirror` | 3 providers of 2 files and 3 URLs, one dead; 2 upstream versions, 1 save, 1 restart; fair | 16 744 | `NeverOlder`, `LatestMirrored` |
| `migrations` | service and subctl, a fresh file and an old one with 2 configs, 3 rules and a group; 2 deaths; fair | 38 046 | `TypeOK`, `LedgerTrue`, `OpenedWhole`, `MeaningKept`, `ComesUp` |
| `store` | 2 handlers, one that calls any method and one that writes users, 2 users, 3 inbounds, pages of 1; 1 crash, any statement may fail; fair | 64 489 | `StoreTypeOK`, `WholeUsers`, `ListingTrue`, `CallsEnd` |
| `admin_console` | 1 tab, 1 method at a time, 2 users ever, pages of 1, a session of 1 tick, 2 events, an operator of the users, of a new custom config, of those there are or of the rest; fair | 143 277 | `ContractHolds`, `EditorBound`, `TableTrue`, `Authorised`, `NothingHangs`, `NavigationEnds`, `OutMeansOut` |

Why the bounds suffice. Three requests are a Create, an Edit and a Delete or Recreate;
the shortest behaviours that break a slip take two or three. Two nodes tell a panel that
is left from one that is joined, two inbounds on one node a change from a join, the
hysteria2 inbound on the second node a user who is "there" without a client. One fault
can fall on any call of any request. Two pages are one stale form and what overtakes it;
an edit that sets all the ports of a form swaps two, which the store's `UNIQUE` refuses
half way. The drafts are a plain one, one with groups that refer to each other, a
logical rule and providers, one the store refuses and one with a cycle; three writes are
a save, a clone and a save between two queries. Two renewals are needed for a reload of
the first to meet the second. Two providers of one file and a dead one show that neither
a shared name nor a dead source stops the others.

An event of `admin_console` is a tick, a restart with a new secret, another operator's
change, a lost answer or a handler that fails; two of them are an answer that is lost
and a session that expires before the call is carried out. One user to begin with, one
to be created, and pages of one row make a delete empty the last page. One method at a
time is enough for the properties of the table and the editor, which speak of a tab
nothing crossed; `console_scope` has two. Two deaths are one of each process, or one and
one more in the retry. The old file of `migrations` has a provider of one name in two
configs, rules that name both, one that names none, and a group with a member.

Two runs show a disagreement between the code and what the repository says of it
("findings" in `PROJECT.json`):

| run | refutes |
|---|---|
| `provisioning_foreign` | `DeletesOnlyOwn`: a foreign client that came after the guard is deleted by a later request |
| `console_scope` | `SavesWhatItShows`: Save, pressed before the config of a newly chosen scope has come, stores the old scope's content as the new one's |

Some properties hold with an exception that their comments name. `PanelsAgree` and
`UuidStable` excuse the pairs in `drift`, `LatestServed` a last renewal that overtook a
load (`raced`: a file rewritten between the load and the stat leaves the old certificate
marked with the new mtime, until the next renewal), `TableTrue` and `EditorBound` a tab
that is not `clean`. So of a fault that the code does not undo (a re-bind that fails
half way, a failed GET that leaves the page blank) they say that it stays where it
happened, and that the next request or load that goes well repairs it, not that it
cannot happen; `PROJECT.json` says so at each such hazard.

Seen on the way and not given a run. In the fleet: `buildFleet` records an entry for
every configured inbound of a listed node, hysteria2 ones too, so the users table puts
"no client on the panel" on every hysteria2 connection; and
`openspec/specs/fleet/spec.md:69-72` says that an inbound the panel does not have gets
no entry, where the code and its test give it an empty one. In provisioning: a re-bind
that fails half way loses the uuid, though `service.go` means it to survive; a Delete
that overlaps an Edit leaves a client on the panel. In the registry: "Node saved" is
answered to a form whose inbound is gone. In the endpoint: a save between two queries
drops rules from one profile. In migrations: `run.go:111-118` says that the connection
of a `.notx` script is discarded, but `Close` returns it to the pool (harmless, the
scripts switch the keys on again), and `embed.go:5` still says that each script can run
inside a transaction. In the SPA: the users table and the picker share `users`, so
between two answers the table may be drawn from rows without its fields and the page
stays blank (`index.html:71`); a logout whose answer is lost keeps the cookie; a double
click on a row of the picker creates a config without asking `busy`. Elsewhere: two
pages can leave a node without inbounds although every form had one (`validateNode`
looks at the form only); a custom config deleted after it was picked yields a profile
with neither custom nor base; a group without remaining members is emitted with `DIRECT`
as its member (`render/groups.go:12-13`), where openspec, mihomo-rendering, has an empty
group; providers saved after the start are not mirrored until a restart
(`mirror.go:38-39` says so), where openspec, rule-provider-mirror, has those of every
config; and of two configs' providers that share a name and an extension only one is
mirrored.

## Fairness

`Provisioning!FairSpec` assumes `WF(Serve(p))`: a handler that can take its next step
does. The Go scheduler runs every goroutine, a statement gets the connection in turn and
a panel call returns within the client's 15 s. Arrivals, faults, operators and node
deletions are not fair. `CertReloader!Spec` assumes that handshakes keep coming and run
on, that minutes pass, and that a renewal once begun writes its files. `Mirror!Spec`
assumes that goroutines run, tickers tick, a download ends (30 s timeout) and one tried
for ever succeeds (`SF`) unless its URL is dead. `Migrations!Fairness` assumes that a
process which runs goes on and that the service is started again (the compose file's
`restart: unless-stopped`); `Store!StoreFairness` that a handler whose statement can get
the connection again and again gets it in the end (`SF`: `database/sql` picks among
those who wait at random); `Console!Fairness` that a request is served, an answer
handled and a page fetched, per method under way. Nobody must click, log in or visit,
and losses, ticks and other operators are not fair. The other modules are checked for
safety only. `CHECK_DEADLOCK` is on except for `Mirror`; `Quiet` in `Provisioning` is
the end of a bounded behaviour.

## Proofs

`ProvisioningProofs` proves, for any sets of handlers, nicknames, nodes and inbounds and
any bounds, from `ConstantsAssumption` alone:

* `TypeCorrect`: `Spec => []TypeOK`
* `StoreSafe`: `Spec => []StoreConsistent`
* `Vetting`: `Spec => PanelWritesVetted`
* `Agreement`: `Spec => []PanelsAgree`
* `UuidKept`: `Spec => []UuidStable`
* `FleetRight`: `Spec => []FleetServes`

The invariant of the first three is `IInv == Typed /\ StoreConsistent /\ Ids /\ Vetted`. `Typed` is the type
invariant. `StoreConsistent` is not inductive without `Ids`: ids come from the number of
requests begun, so a row that is about to be written under a request's number meets no
earlier row. `Vetted` says which pairs a request may have on its list: each pair a
connection stands for, and each the request is yet to write, is in `cleared`; the guard
establishes it on the way to `store`, and from there every connection in the store, every
`old` a request has read and every panel on `todo` carries it.

The other three rest on `AInv == IInv /\ Alone /\ Own /\ Agreed`, which says what every
pair of a panel and a nickname shows, in each step of a request, unless it is in `drift`.
`Shown` names the connections: those of the row while the request only reads, the old ones
from the write until the walk has been at the panel, then the new ones, and none when the
user is being deleted; `During` adds the gap between DelClient and AddClient, in which the
request carries the uuid. `Own`: a request that is alone on its nickname can rely on what
it has read: the row is there, its connections are still `old` (or already `want`), and
the panels on `todo` are in its snapshot of the nodes, so none is skipped as missing.
`Alone`: requests that overlap know it, and their pairs are in `drift`. `AgreementKept`
says what a step of one request must show about its own nickname; that it disturbs no
other is proved there once. `FleetRight` needs `ClientsOwn` too: a client carries the id
of a user of its own nickname or of one who is gone, in `drift` or not, so that nobody
else's client, left behind by any failure, is taken for a user's. There is one lemma per
part and action group; the theorems combine them with `PTL`.

`NodeRegistryProofs` proves, for any number of pages, nodes, inbounds, rows of a form and
edits, from `RegistryAssumption`:

* `TypeCorrect`: `Spec => []TypeOK`
* `Sound`: `Spec => []RegistrySound`
* `Home`: `Spec => SaveStaysHome`
* `Stable`: `Spec => IdsStable`
* `Fresh`: `Spec => FreshSaveStores`

The invariant is `IInv == TypeOK /\ RegistrySound /\ Issued /\ Reading`. `Issued`: every id
in use was handed out, so a row inserted under the next id meets no row, and a new node no
node. `Reading`: only the form of an existing node waits for its inbounds.
`StoredCases` says what a Save makes of a row: inserted, kept, dropped or left alone; each
theorem takes these four cases. `Fresh` needs one invariant more, `AllCurrent`: a form
nobody overtook names a node that exists and inbounds of that node, none of them twice.

`CertReloaderProofs` proves `ServedPairWhole`: `Spec => []PairWhole`, and `TypeCorrect`,
from `ReloaderAssumption`. `PairWhole` needs `InHand`: what a handshake is about to store
matches as well.

`MirrorProofs` proves `MirrorNeverOlder`: `Spec => NeverOlder`, and `TypeCorrect`, from
`MirrorAssumption`. The invariant is `TypeOK /\ Turns /\ Sourced /\ Aged`. `Turns`: of one
file the first fetch is to come, under way or over, and its loop runs in the last case
only, so no two fetches of a file overlap. `Aged`: what a fetch holds is no older than
what is cached, and neither is newer than upstream.

`StoreProofs` proves of `Migrations`, for any number of processes that migrate one file at once, any
content of that file and any number of crashes, from `MigrationsAssumption` and for files
that were `Found` (fresh, or tables older than the runner in which a provider is told by
its config and name):

* `TypeCorrect`: `[]TypeOK`
* `LedgerIsTrue`: `[]LedgerTrue`
* `OpensWhole`: `[]OpenedWhole`
* `KeepsMeaning`: `MeaningKept`

The invariant is `IInv == TypeOK /\ LedgerTrue /\ Unnumbered` and, for each process,
`Stages /\ Past /\ Copies`. `Stages` says what a process holds where it is: the write lock
inside a transaction, foreign keys off in the scripts that switch them off and nowhere
else. `Past`: the scripts before the one it is at are recorded. `Copies`: what its
transaction has made of the file differs from the file by the current script alone, which
needs that nobody else writes meanwhile; so a commit adds one name to the ledger and its
changes to the schema. `Unnumbered`: until 0003 has run, no two providers share config and
name, without which the ids it links rules by would be ambiguous. The proof has a lemma
per step of the runner (`CheckKeeps`, `RebuildRulesKeeps`, ...) that says what the process
makes of its own part, and `OthersKeep` for everybody else's.

Of `Store` it proves, for any handlers, users, inbounds, sets to be given and page sizes,
from `StoreAssumption` (finitely many users, numbered by name; a value that stands for no
table), `CallsAssumption` (handlers call the repositories' methods) and
`MigrationsAssumption`, on any `Found` file and with any processes beside the service:

* `StoreTyped`: `[]StoreTypeOK`
* `UsersStayWhole`: `[]WholeUsers`
* `ListsTruly`: `[]ListingTrue`

The invariant `SInv` has the migrations' `IInv` for the foreign keys: a delete cascades,
and a link to a user who is gone is refused, because the service is up only with them on.
Of the tables it says `Stored` (`WholeUsers` and types), of the connection `Lent`, and of
each call, by the statements it has left, `Does`: it `Reads`, `Lists` or `Writes`. A write
holds the connection, and what its transaction has made of the tables is whole or differs
from a whole one in its own user (`Aside`), whose connections lie within those wanted
(create) or around them (replace, between its inserts and its deletes). A listing has the
total, the slice and the connections as far as it has asked for them, if nobody has
written since it began. `OneStep` says what a step of one call must show, `OthersDo` why
the other calls stay true: nobody writes under a transaction, since it has the only
connection. The programs are sequences, and `Programs` says that each is one of the four
that `Lists` and `Writes` are about or sends nothing but what `Reads` allows.

`ConfigStoreProofs` proves, for any admins, users, inbounds, drafts and bounds, from
`StoreAssumption`, `DraftAssumption` (a draft is what decoding yields: sequences and
finite trees of rules, with any numbers for indices, valid or not; a member of a group is
always a policy, a rule's target may be missing) and `AbsentAssumption` (the value that
stands for no config is no content):

* `TypeCorrect`: `Spec => []TypeOK`
* `Apart`: `Spec => []ConfigsApart`
* `HitsItsOwner`: `Spec => SaveHitsItsOwner`
* `Refinement`: `Spec => ImplementsProfiles`
* `SearchFindsCycles`: `\A n \in Nat : SearchExact(n)`
* `Acyclic`: `Spec => []GroupsAcyclic`

The invariant is `IInv == TypeOK /\ Rows /\ Refs /\ Anchors /\ Issued /\ Finite /\ Owned`.
`Rows` and `Refs` are `ConfigsApart` cut in two: ids and places are unique and every row
has its config; references stay within a config. `Issued`: ids in use were handed out, so
those of a save or a clone are new. `Anchors`: one config per owner. `Finite`: a clone
numbers its rows by their place in a finite set. `Owned`: the config a save was resolved to
is its owner's or gone for good. What is hard is the numbering: the rules of a draft get
the ids of a depth-first walk, those of a clone the order of the originals. The lemmas on
`Place` and `Rank` say that both are injective, stay in range and grow (`Precedes` is a
total order in which a prefix comes first, hence a parent below its sub-rules). `New` then
says what a set of rows must satisfy to be put in place of a config's; `DraftIsNew` and
`CloneIsNew` show it of the two sources, and `ReplacedRows`, `ReplacedRefs` that `Rows` and
`Refs` survive it.

`Refinement` needs to know what the rows of a config came from. `Spelling`: every config
that was ever saved or cloned is told by a valid draft, `Spells`, through three injections
from the draft's indices and paths to ids. A save spells its draft, a clone what its source
is spelt by, under ids composed with the renumbering, and every other step leaves the rows
of a config alone or removes them. What is `Assembled` from rows that spell a draft is what
the draft `Meant`, whatever the ids are (`HeldTold`). The tree of rules comes back by
`PathOf`, a function that is recursive along the parents: `PathFixed` shows that its
equation has a solution, and the one it chose gives every rule its path, since the shortest
path it did not would be a counterexample to the equation.

The search for cycles is treated likewise. `Answer` says in closed form what a call of it
returns: a cycle if a group on its list is `Doomed`, on a path that never ends through
groups that are not black, and else the colours with all the white groups `Reach`ed from
the list through white ones painted black. `CallAnswered` shows that this answers a call
given the answers to the calls it makes (`FoundBelow`, `CycleLater` and `PaintedLater` are
what a visit does to the rest of the list), so the recursion has a solution; `OnlyAnswers`
that it has no other, by the least number of white groups and then the shortest list for
which it would differ. `Acyclic` follows since groups that lead in a circle are rows of one
config, spelt by a draft whose groups would do so as well.

`SubscriptionProofs` composes this with the endpoint, for any number of subscribers'
requests, and proves

* `NobodyElses`: `SubSpec => []NeverAnothersConfig`
* `Loads`: `SubSpec => []SelfContained`
* `QuietServes`: `SubSpec => []QuietServesConfig`

The invariant `SubInv` is that of the store, with two facts about each request. `Bound`:
the config it picked is its user's or the base, or its id is used up for good
(`AnchorsIssued`: an admin's step adds no anchor under an old id). `Listable`: the members
it has read have their places to themselves, by which `EveryPlace` finds a member for each
place of a listed group. Of `PathOf` the proof of `Loads` needs only that the renderer and
the filter before it look at the same paths. `QuietServes` needs the whole of `Spelling`,
and `QuietInv`: as long as no admin came between, what each query so far has read is what
the tables hold, for the config that is the user's, or else the base's. `RenderedTold` and
`ExpectedTold` say of rows that spell a draft, and of what the draft meant, that both give
the same profile (`Shelf`).

`ConsoleProofs` proves of `Api` and `Console`, for any number of users, rows of a page,
methods under way, operators and events, from `ConsoleAssumption`:

* `CallsReach`: `Spec => []ContractHolds`
* `TableSettles`: `Spec => []TableTrue`
* `EditorSettles`: `Spec => []EditorBound`
* `OnlyLetIn`: `Spec => Authorised`

`OnlyLetIn` has an invariant of its own, `Admitted`: whatever is beyond the session check, a
task or an orphan, was let in, with a cookie that was good at that time and of the present
secret (`AlwaysAdmitted`). It is not about the step that writes: ticks may come between, and
the restart that changes the secret takes the handlers with it. A call that is only `sent`
can write nothing, and the write of one that is inside is `Write`, by a task or an orphan.

The invariant of the other three is `IInv == Typed /\ Settling`. `Settling` is about a tab that nothing has
crossed: one method runs at most, the tab shows what it should when none does (`Table`,
`Editor`), and a method that runs is `OnWay`: `ToTable` and `ToEditor` list where it may be,
with the calls it has left and what its answer, once given, has in common with the server's
tables. A failed GET ends a method with the tab half loaded; so `OnWay` says that it does
not happen (`Fetches`), which rests on all that comes before the handler: the routes
(`Trie`), the decoders (`ConfigBodies`, `NodeBodies`, `UserBodies`, `Queries`, ...) and
`Reached`, which put together are `CallsReach`, true of every state that is `Typed`; and, of
`configGet`, on a scope that is the base or has a custom config. `Replied` says what a
handler or the network does to a call, `Effect` what the answer tells of the server;
`ReplyKeeps` carries `OnWay` over it, and `Starts`, `Moves` and `LeaveKeeps` over the
methods, the answers and the documents. An empty table means that there is nobody because
page 1 holds whoever has the least id (`FirstPage`), and the step back from past the end
lands on a page there is (`LastPage`).

Only model-checked: liveness (`RequestsEnd`, `LatestServed`, `LatestMirrored`, `ComesUp`,
`CallsEnd`, `NothingHangs`, `NavigationEnds`, `OutMeansOut`), since fairness and ENABLED are
out of the prover's reach, and the two properties that the code does not have. Induction
over data is out of its reach as well: where a function is recursive (`PathOf`, the search
for cycles), the proofs show that its equation has a solution and that the one chosen
agrees with it, a least counterexample standing in for the induction step. No module
declares a recursive operator.

## Plan

Done: `Provisioning`, `Fleet`, `NodeRegistry`, `CertReloader` and `Mirror`, `ConfigStore`,
`Subscription`, `Migrations`, `Store` and `Console` with theorems, `Drafts`,
`ConfigProfiles` and `Api` that they rest on. Next, in this order:

1. `Fleet` with its fetch in steps, inbounds and clients switched off on a panel and nodes
   that share one; composed with `Subscription` in place of its free choice.
2. An abstract provisioning service (a user is wholly there or not there) that
   `Provisioning` implements as long as nothing fails or overlaps.

## Not modelled

Subscription links (formatting), flags and the configuration file: no state that
interleaves; of the shutdown, only that a restart ends what handlers are at (`Rekey`). The Go client and the response decoders of `oas`, which nothing calls,
its path printer (`FindPath`) and tracing. Of the modelled parts: the text of HTTP, JSON
and YAML, HMACs and credentials (right or wrong), field syntax, wording, the YAML of
proxies and of the base config, health-check columns and other columns that travel with
their row. Of a draft, the decoding and the
rules on single fields, the place of MATCH and the number of sub-rules.
