------------------------------- MODULE Store -------------------------------
(***************************************************************************)
(* The store behind the repositories: once a process has opened the file   *)
(* (Migrations), its handlers share one connection (open.go:               *)
(* SetMaxOpenConns(1)).  A repository method is the sequence of statements *)
(* it sends, each of which takes the connection, keeps it or gives it      *)
(* back; of what they read and write, the users and their connections are  *)
(* kept.  subctl reads through a connection of its own and writes nothing. *)
(***************************************************************************)
EXTENDS Migrations, SequencesExt

CONSTANTS
    Caller,        \* handlers of the service that call a repository
    MayCall,       \* the programs each of them calls
    User, Inbound, \* users are numbered in the order of their names
    Wants,         \* the sets of inbounds that users are given
    PageSize

ASSUME StoreAssumption ==
    /\ User \subseteq Nat /\ IsFiniteSet(User) /\ IsFiniteSet(Inbound)
    /\ PageSize \in Nat \ {0}
    /\ Wants \subseteq SUBSET Inbound /\ NoOne \notin Caller
    /\ NoRef \notin [users : SUBSET User, links : SUBSET (User \X Inbound)]

VARIABLES
    users, links, \* the tables users and user_connections
    holder,       \* the call that has the connection
    call          \* each handler's call

storeVars == <<users, links, holder, call>>
allVars == <<vars, storeVars>>

-----------------------------------------------------------------------------
(* Statements.  QueryRow.Scan and Exec take the connection and give it     *)
(* back; Query keeps it until the rows are read to their end or closed;    *)
(* BeginTx keeps it until Commit or Rollback, and what is sent through the *)
(* transaction needs no other.                                             *)
Query == <<"rows", "drain">>
Tx(body) == <<"begin">> \o body \o <<"commit">>

(* users *)
loadConnections == <<"connections", "drain">>
(* Slip: the connections are loaded while the users are still being read. *)
users_List_nested == <<"rows", "connections", "drain", "drain">>
users_List == Query \o loadConnections
users_ListPage == <<"count", "page", "drain">> \o loadConnections \o <<"return">>
users_ListNames == Query
users_Get == <<"row">> \o Query
users_SubIDs == Query
users_IDBySubID == <<"row">>
users_InboundSubscribers == Query
(* Slip: the user and his connections are stored by a transaction each. *)
users_Create_apart == Tx(<<"insert">>) \o Tx(<<"link">>)
users_Create == Tx(<<"insert", "link">>)
users_ReplaceConnections == Tx(<<"tx", "link", "unlink">>)
users_SetDescription == <<"exec">>
users_Delete == <<"delete">>

(* nodes *)
nodes_List == Query \o Query
nodes_Get == <<"row">> \o Query
nodes_Create == Tx(<<"tx", "tx">>)
nodes_Update == Tx(<<"tx", "tx", "tx">>)
nodes_Delete == <<"exec">>

(* configs *)
configs_BaseConfigID == <<"row">>
configs_EnsureBaseConfigID == <<"exec", "row">>
configs_UserConfigID == <<"row">>
configs_UserConfigUserIDs == Query
configs_CreateUserConfig == Tx(<<"tx", "tx">> \o [i \in 1 .. 5 |-> "tx"]) \* CloneConfig: five tables
configs_DeleteUserConfig == <<"exec">>

(* routing *)
routing_Rules == Query
routing_ProxyGroups == Query \o Query \* loadMembers
routing_RuleProviders == Query
routing_AllRuleProviders == Query
routing_Profile == <<"row">>
routing_Setting == <<"row">>
routing_SaveMihomoConfig == Tx([i \in 1 .. 5 |-> "tx"])

Program == {
    users_List, users_ListPage, users_ListNames, users_Get, users_SubIDs, users_IDBySubID,
    users_InboundSubscribers, users_Create, users_ReplaceConnections, users_SetDescription,
    users_Delete, nodes_List, nodes_Get, nodes_Create, nodes_Update, nodes_Delete,
    configs_BaseConfigID, configs_EnsureBaseConfigID, configs_UserConfigID,
    configs_UserConfigUserIDs, configs_CreateUserConfig, configs_DeleteUserConfig,
    routing_Rules, routing_ProxyGroups, routing_RuleProviders, routing_AllRuleProviders,
    routing_Profile, routing_Setting, routing_SaveMihomoConfig}

ASSUME CallsAssumption == MayCall \in [Caller -> SUBSET Program]

-----------------------------------------------------------------------------
(* Calls: what is still to be sent, for whom, with what; what the open     *)
(* transaction has made of the tables; and what a listing has found.       *)

Tables == [users |-> users, links |-> links]
NoAnswer == [total |-> 0, page |-> {}, links |-> {}]
Idle == [todo |-> <<>>, user |-> NoRef, want |-> {}, skip |-> 0, mine |-> NoRef,
         got |-> NoAnswer, seen |-> NoRef, quiet |-> FALSE]

StoreInit ==
    /\ users = {} /\ links = {} /\ holder = NoOne
    /\ call = [c \in Caller |-> Idle]

Active(c) == call[c].todo # <<>>
Stmt(c) == Head(call[c].todo)
Missing(c) == {i \in call[c].want : <<call[c].user, i>> \notin call[c].mine.links}
Surplus(c) == {i \in Inbound \ call[c].want : <<call[c].user, i>> \in call[c].mine.links}

(* A handler calls a method, for a user, with a wanted set or an offset.   *)
Begin_(c) ==
    /\ ~Active(c) /\ pc[Service] = "up"
    /\ \E todo \in MayCall[c], u \in User, w \in Wants, k \in 0 .. Cardinality(User) - 1 :
        /\ Range(todo) \cap {"insert", "link", "delete"} = {} => u = CHOOSE x \in User : TRUE
        /\ "link" \notin Range(todo) => w = CHOOSE x \in Wants : TRUE
        /\ "page" \notin Range(todo) => k = 0
        /\ call' = [call EXCEPT ![c] =
            [Idle EXCEPT !.todo = todo, !.user = u, !.want = w, !.skip = k * PageSize,
                         !.seen = IF "page" \in Range(todo) THEN Tables ELSE NoRef,
                         !.quiet = "page" \in Range(todo)]]
    /\ UNCHANGED <<vars, users, links, holder>>

(* The next statement: what it needs of the connection, and leaves.        *)
Takes == {"row", "exec", "count", "delete"}
Keeps == {"rows", "page", "connections", "begin"}
Within == {"tx", "insert", "link", "unlink"}
Needs(c) ==
    IF Stmt(c) \in Takes \cup Keeps THEN holder = NoOne ELSE holder = c
Leaves(c) ==
    CASE Stmt(c) \in Takes -> NoOne
      [] Stmt(c) \in Keeps \cup Within -> c
      [] Stmt(c) \in {"drain", "commit"} -> NoOne

(* ORDER BY name LIMIT ? OFFSET ?                                          *)
RankOf(u) == Cardinality({v \in users : v <= u})
(* Slip: the offset skips one user too few. *)
Slice_early(skip) == {u \in users : RankOf(u) \in skip .. skip + PageSize - 1}
Slice(skip) == {u \in users : RankOf(u) \in skip + 1 .. skip + PageSize}

Finds(c) ==
    CASE Stmt(c) = "count" -> [call[c].got EXCEPT !.total = Cardinality(users)]
      [] Stmt(c) = "page" -> [call[c].got EXCEPT !.page = Slice(call[c].skip)]
      [] Stmt(c) = "connections" ->
            [call[c].got EXCEPT !.links = {l \in links : l[1] \in call[c].got.page}]
      [] OTHER -> call[c].got

(* What has been sent is dropped from todo; a loop of inserts or deletes   *)
(* stays until nothing is missing or in excess.                            *)
Rest(c) ==
    IF \/ Stmt(c) = "link" /\ Cardinality(Missing(c)) > 1
       \/ Stmt(c) = "unlink" /\ Cardinality(Surplus(c)) > 1
    THEN call[c].todo ELSE Tail(call[c].todo)

(* The calls as they stand after c's step with mine, and a write if moved. *)
Went(c, mine, moved) ==
    [d \in Caller |->
        IF d = c
        THEN IF Rest(c) = <<>> THEN Idle
             ELSE [call[c] EXCEPT !.todo = Rest(c), !.mine = mine, !.got = Finds(c)]
        ELSE IF moved THEN [call[d] EXCEPT !.quiet = FALSE, !.seen = NoRef]
        ELSE call[d]]

(* Deferred: rows.Close, tx.Rollback.                                      *)
Returned(c) == IF holder = c THEN NoOne ELSE holder
(* Slip: the rows are closed only where they have been read to the end. *)
Released_late(c) == holder
Released(c) == Returned(c)

Read(c) ==
    /\ Stmt(c) \in {"row", "exec", "rows", "count", "page", "connections", "drain", "tx"}
    /\ Needs(c) /\ holder' = Leaves(c)
    /\ call' = Went(c, call[c].mine, FALSE)
    /\ UNCHANGED <<users, links>>

BeginTx(c) ==
    /\ Stmt(c) = "begin" /\ Needs(c) /\ holder' = Leaves(c)
    /\ call' = Went(c, IF "link" \in Range(call[c].todo) THEN Tables ELSE NoRef, FALSE)
    /\ UNCHANGED <<users, links>>

(* Create: the name is UNIQUE; the error ends the call (ErrNameTaken).     *)
Insert(c) ==
    /\ Stmt(c) = "insert" /\ Needs(c)
    /\ IF call[c].user \in call[c].mine.users
       THEN call' = [call EXCEPT ![c] = Idle] /\ holder' = Released(c)
       ELSE /\ call' = Went(c, [call[c].mine EXCEPT !.users = @ \cup {call[c].user}], FALSE)
            /\ holder' = Leaves(c)
    /\ UNCHANGED <<users, links>>

(* A connection of a user who is not there violates the foreign key.       *)
Link(c) ==
    /\ Stmt(c) = "link" /\ Needs(c)
    /\ IF call[c].user \notin call[c].mine.users /\ conn[Service].fk
       THEN call' = [call EXCEPT ![c] = Idle] /\ holder' = Released(c)
       ELSE /\ \E i \in IF Missing(c) = {} THEN call[c].want ELSE Missing(c) :
                call' = Went(c, [call[c].mine EXCEPT !.links = @ \cup {<<call[c].user, i>>}], FALSE)
            /\ holder' = Leaves(c)
    /\ UNCHANGED <<users, links>>

Unlink(c) ==
    /\ Stmt(c) = "unlink" /\ Needs(c) /\ holder' = Leaves(c)
    /\ \/ /\ Surplus(c) = {} /\ call' = Went(c, call[c].mine, FALSE)
       \/ \E i \in Surplus(c) :
            call' = Went(c, [call[c].mine EXCEPT !.links = @ \ {<<call[c].user, i>>}], FALSE)
    /\ UNCHANGED <<users, links>>

Commit_(c) ==
    /\ Stmt(c) = "commit" /\ Needs(c) /\ holder' = Leaves(c)
    /\ LET new == IF call[c].mine = NoRef THEN Tables ELSE call[c].mine
       IN  /\ users' = new.users /\ links' = new.links
           /\ call' = Went(c, NoRef, new # Tables)

(* DELETE FROM users: the connections cascade where the key is enforced.   *)
Delete(c) ==
    /\ Stmt(c) = "delete" /\ Needs(c) /\ holder' = Leaves(c)
    /\ users' = users \ {call[c].user}
    /\ links' = IF conn[Service].fk THEN {l \in links : l[1] # call[c].user} ELSE links
    /\ call' = Went(c, call[c].mine, call[c].user \in users)

(* The listing is what its caller gets.                                    *)
Return(c) ==
    /\ Stmt(c) = "return" /\ call' = [call EXCEPT ![c] = Idle]
    /\ UNCHANGED <<users, links, holder>>

(* A statement fails, or the request is cancelled, also while it waits.    *)
Abort(c) ==
    /\ Active(c)
    /\ call' = [call EXCEPT ![c] = Idle] /\ holder' = Released(c)
    /\ UNCHANGED <<vars, users, links>>

Serve(c) ==
    /\ Active(c)
    /\ \/ Read(c) \/ BeginTx(c) \/ Insert(c) \/ Link(c) \/ Unlink(c) \/ Commit_(c)
       \/ Delete(c) \/ Return(c)
    /\ UNCHANGED vars

-----------------------------------------------------------------------------
(* The service dies with its calls.                                        *)
Migrate(p) == (Open(p) \/ Step(p) \/ Exit(p)) /\ UNCHANGED storeVars
Crash(p) ==
    /\ Die(p)
    /\ IF p = Service
       THEN call' = [c \in Caller |-> Idle] /\ holder' = NoOne
       ELSE UNCHANGED <<call, holder>>
    /\ UNCHANGED <<users, links>>
StoreNext ==
    \/ \E p \in Proc : Migrate(p) \/ Crash(p)
    \/ \E c \in Caller : Begin_(c) \/ Serve(c) \/ Abort(c)

(* database/sql hands a connection that is returned to one of the requests *)
(* that wait for it, at random: none waits for ever.                       *)
StoreFairness ==
    /\ WF_allVars(Migrate(Service))
    /\ \A p \in Proc : WF_allVars(Step(p) /\ UNCHANGED storeVars)
    /\ \A c \in Caller : SF_allVars(Serve(c))

-----------------------------------------------------------------------------
(* Properties.                                                             *)

(* Types, and the connection lent to no call but one that runs: it comes   *)
(* back whatever way a call ends.                                          *)
StoreTypeOK ==
    /\ TypeOK
    /\ users \subseteq User /\ links \subseteq User \X Inbound
    /\ holder = NoOne \/ Active(holder)
    /\ \A c \in Caller :
        /\ call[c].mine # NoRef => holder = c
        /\ call[c].todo # <<>> => pc[Service] = "up"
        /\ call[c].got.page \subseteq User

(* A user is stored with the whole of one set of inbounds or not at all,   *)
(* and no connection is left without its user, whatever dies, fails or     *)
(* overlaps (create.go:11: "in one transaction"; delete.go:5: "its         *)
(* connections cascade", which a script's pragma must not have undone).    *)
WholeUsers ==
    /\ \A u \in users : {l[2] : l \in {x \in links : x[1] = u}} \in Wants
    /\ \A l \in links : l[1] \in users

(* A page that no write overlapped is the slice of the users its offset    *)
(* asks for, with their connections, and its total is their number; one    *)
(* that was overlapped still shows nobody with half of his connections     *)
(* (list_page.go asks for total, page and connections one by one).         *)
ListingTrue ==
    \A c \in Caller : call[c].todo = <<"return">> =>
        LET got == call[c].got
            then == call[c].seen \* the tables when it began
        IN  /\ \A u \in got.page :
                {l[2] : l \in {x \in got.links : x[1] = u}} \in Wants \cup {{}}
            /\ call[c].quiet =>
                /\ got.total = Cardinality(then.users)
                /\ got.links = {l \in then.links : l[1] \in got.page}
                /\ \A u \in then.users :
                    u \in got.page <=>
                        LET before == Cardinality({v \in then.users : v < u})
                        IN  call[c].skip <= before /\ before < call[c].skip + PageSize

(* Every call comes to its end: none waits for the connection it holds     *)
(* itself, and none that failed keeps it (open.go:30).                     *)
CallsEnd == \A c \in Caller : Active(c) ~> ~Active(c)
=============================================================================
