---------------------------- MODULE Provisioning ----------------------------
(***************************************************************************)
(* The provisioning service (internal/service/provisioning) at the grain   *)
(* of its store statements and panel calls.                                *)
(*                                                                         *)
(* Several HTTP handlers run CreateUser, EditUser, DeleteUser and          *)
(* RecreateUser at once.  They share the SQLite store, where a statement   *)
(* or a transaction is one step (repository.Open allows one connection),   *)
(* and the 3x-ui panels, external servers each call of which is one step.  *)
(* Nothing locks a user for the length of a request, so the steps of two   *)
(* requests interleave freely.                                             *)
(*                                                                         *)
(* The panel side also has a life of its own: an operator adds or removes  *)
(* clients by hand, and a call may be answered by an error although the    *)
(* panel carried it out (the client's 15 s timeout).                       *)
(*                                                                         *)
(* Abstracted: the description column, the validation of the nickname, the *)
(* inbound ports (an inbound is on its panel or is not), the panels'       *)
(* credentials, and the texts of errors.                                   *)
(***************************************************************************)
EXTENDS Naturals

CONSTANTS
    Proc,        \* request handlers that may run at once
    Name,        \* nicknames; a nickname is the client's email on a panel
    Node,        \* nodes registered at the start, each with its own panel
    Inbound,     \* node_inbounds ids
    NodeOf,      \* NodeOf[i]: the node of inbound i
    Hysteria,    \* inbounds of kind hysteria2: never bound on a panel
    OnPanel,     \* inbounds whose port the panel really serves
    Selection,   \* the inbound selections an operator submits
    Squatted,    \* <<n, e>>: a foreign client e is on panel n at the start
    NoName, NoNode, NoClient,
    MaxReqs,     \* bound: requests in a behaviour
    MaxFaults,   \* bound: failed calls and cut requests
    MaxMeddling  \* bound: clients an operator adds or removes by hand

(* users.id is AUTOINCREMENT: an id is never used twice, so the number of  *)
(* the request that inserts a row serves as its id.  The sub_id minted with *)
(* the row is unique too, and the id stands for it.                         *)
UserId == 1 .. MaxReqs

(* A client on a panel.  sub = 0: not made by subgen.  A uuid minted while  *)
(* request number k syncs a panel is k: genUUID is called once per panel    *)
(* and request, and uuids are only compared on one panel.                   *)
Client == [sub : 0 .. MaxReqs, uuid : 0 .. MaxReqs, inbs : SUBSET Inbound]
ForeignClient == [sub |-> 0, uuid |-> 0, inbs |-> {}]

ASSUME ConstantsAssumption ==
    /\ NodeOf \in [Inbound -> Node]
    /\ Hysteria \subseteq Inbound
    /\ OnPanel \subseteq Inbound
    /\ Selection \subseteq (SUBSET Inbound) \ {{}}
    /\ Squatted \subseteq Node \X Name
    /\ NoName \notin Name
    /\ NoNode \notin Node
    /\ NoClient \notin Client
    /\ MaxReqs \in Nat
    /\ MaxFaults \in Nat
    /\ MaxMeddling \in Nat

Ops == {"create", "edit", "delete", "recreate"}
Places == {"idle", "get", "conns", "index", "guard", "store", "describe",
           "sync", "unbind", "bind", "remove"}

VARIABLES
    nameOf,   \* users.name by id; NoName: no such row
    conns,    \* user_connections: the inbounds of each user
    nodes,    \* rows of nodes (and of their inbounds)
    panel,    \* panel[n][e]: the client with email e on the panel of n
    req,      \* the request each handler is serving
    reqs,     \* requests begun so far
    faults,   \* failed calls and cut requests so far
    meddled,  \* clients an operator changed so far
    cleared,  \* history: pairs ensureEmailFree once found free
    drift,    \* history: pairs something other than a clean request touched
    birth     \* history: uuid with which a pair was last bound afresh

vars == <<nameOf, conns, nodes, panel, req, reqs, faults, meddled,
          cleared, drift, birth>>
store == <<nameOf, conns>>
counts == <<reqs, faults, meddled>>
history == <<cleared, drift, birth>>

Request == [op : Ops, pc : Places, uid : 0 .. MaxReqs,
            name : Name \cup {NoName}, want : SUBSET Inbound,
            old : SUBSET Inbound, byId : SUBSET Node, todo : SUBSET Node,
            at : Node \cup {NoNode}, cid : 0 .. MaxReqs,
            serial : 0 .. MaxReqs, solo : BOOLEAN]

NoRequest == [op |-> "create", pc |-> "idle", uid |-> 0, name |-> NoName,
              want |-> {}, old |-> {}, byId |-> {}, todo |-> {},
              at |-> NoNode, cid |-> 0, serial |-> 0, solo |-> TRUE]

TypeOK ==
    /\ nameOf \in [UserId -> Name \cup {NoName}]
    /\ conns \in [UserId -> SUBSET Inbound]
    /\ nodes \subseteq Node
    /\ panel \in [Node -> [Name -> Client \cup {NoClient}]]
    /\ req \in [Proc -> Request]
    /\ reqs \in 0 .. MaxReqs
    /\ faults \in 0 .. MaxFaults
    /\ meddled \in 0 .. MaxMeddling
    /\ cleared \subseteq Node \X Name
    /\ drift \subseteq Node \X Name
    /\ birth \in [Node -> [Name -> 0 .. MaxReqs]]

Init ==
    /\ nameOf = [u \in UserId |-> NoName]
    /\ conns = [u \in UserId |-> {}]
    /\ nodes = Node
    /\ panel = [n \in Node |-> [e \in Name |->
                  IF <<n, e>> \in Squatted THEN ForeignClient ELSE NoClient]]
    /\ req = [p \in Proc |-> NoRequest]
    /\ reqs = 0
    /\ faults = 0
    /\ meddled = 0
    /\ cleared = {}
    /\ drift = {}
    /\ birth = [n \in Node |-> [e \in Name |-> 0]]

-----------------------------------------------------------------------------
(* Selections, by node.                                                    *)

Vless(S) == S \ Hysteria
NodesOf(S) == {NodeOf[i] : i \in S}
At(S, n) == {i \in S : NodeOf[i] = n}

(* The rows of node_inbounds: those of the registered nodes. *)
Registered == {i \in Inbound : NodeOf[i] \in nodes}

(* Slip: the guard passes over hysteria2 selections. *)
AddedNodes_vlessOnly(old, desired) == NodesOf(Vless(desired)) \ NodesOf(old)

(* addedNodeIDs: a node counts as already held through any connection. *)
AddedNodes(old, desired) == NodesOf(desired) \ NodesOf(old)

(* Slip: the nodes a user leaves are forgotten. *)
TouchedNodes_desired(old, desired) == NodesOf(Vless(desired))

(* The nodes syncPanels touches. *)
TouchedNodes(old, desired) == NodesOf(Vless(desired)) \cup NodesOf(Vless(old))

Forced(p) == req[p].op = "recreate"
(* Slip: an edit treats the client it finds as not the user's. *)
Owns_recreateOnly(p, n) == Forced(p)
Owns(p, n) == At(Vless(req[p].old), n) # {} \/ Forced(p)

Busy(p) == req[p].pc # "idle"

(* Every pair request p may touch on a panel. *)
PairsOf(p) == Node \X {req[p].name}

Put(p, r) == req' = [req EXCEPT ![p] = r]
End(p) == Put(p, NoRequest)
Pass(p, n) == Put(p, [req[p] EXCEPT !.todo = @ \ {n}])
Fault == faults < MaxFaults /\ faults' = faults + 1

-----------------------------------------------------------------------------
(* A request arrives.                                                      *)

(* A request is solo while no other one works on the same nickname. *)
Begin(p, r) ==
    LET others == {q \in Proc : Busy(q) /\ req[q].name = r.name}
    IN  /\ ~Busy(p)
        /\ reqs < MaxReqs
        /\ reqs' = reqs + 1
        /\ req' = [q \in Proc |->
                     IF q = p
                     THEN [r EXCEPT !.serial = reqs + 1, !.solo = others = {}]
                     ELSE [req[q] EXCEPT !.solo = @ /\ q \notin others]]
        /\ drift' = IF others = {} THEN drift
                    ELSE drift \cup (Node \X {r.name})
        /\ UNCHANGED <<store, nodes, panel, faults, meddled, cleared, birth>>

Fresh(op, pc, u, e, S) ==
    [NoRequest EXCEPT !.op = op, !.pc = pc, !.uid = u, !.name = e, !.want = S]

BeginCreate(p) ==
    \E e \in Name, S \in Selection : Begin(p, Fresh("create", "index", 0, e, S))

(* Edit, Delete and Recreate name a row by its id; it may be gone when the *)
(* request gets to read it.  The nickname of a row never changes: it is    *)
(* noted here and read by the request at "get".                            *)
Live == {u \in UserId : nameOf[u] # NoName}

BeginEdit(p) ==
    \E u \in Live, S \in Selection :
        Begin(p, Fresh("edit", "get", u, nameOf[u], S))

BeginOther(p) ==
    \E u \in Live, op \in {"delete", "recreate"} :
        Begin(p, Fresh(op, "get", u, nameOf[u], {}))

-----------------------------------------------------------------------------
(* Reading the store: users.Get is two queries with a step in between.     *)
(* nodes.List is two as well, but nodes only ever leave here: the request  *)
(* goes on as from a snapshot at the first, or ends as at the second.      *)

GetUser(p) ==
    /\ req[p].pc = "get"
    /\ IF nameOf[req[p].uid] = NoName
       THEN End(p)
       ELSE Put(p, [req[p] EXCEPT !.pc = "conns"])
    /\ UNCHANGED <<store, nodes, panel, counts, history>>

GetConnections(p) ==
    /\ req[p].pc = "conns"
    /\ Put(p, [req[p] EXCEPT !.pc = "index", !.old = conns[req[p].uid]])
    /\ UNCHANGED <<store, nodes, panel, counts, history>>

(* nodeIndex, then desiredTargets for Create and Edit; the walk that comes *)
(* next is set up in todo.                                                 *)
Index(p) ==
    LET r == req[p]
        next(pc, todo) ==
            Put(p, [r EXCEPT !.pc = pc, !.byId = nodes, !.todo = todo])
    IN  /\ r.pc = "index"
        /\ \/ /\ r.op \in {"create", "edit"}
              /\ IF r.want \subseteq Registered
                 THEN next("guard", AddedNodes(r.old, r.want))
                 ELSE End(p)
           \/ /\ r.op = "delete"
              /\ next("remove", NodesOf(r.old) \cap nodes)
           \/ /\ r.op = "recreate"
              /\ Put(p, [r EXCEPT !.pc = "sync", !.byId = nodes, !.want = r.old,
                                 !.todo = TouchedNodes(r.old, r.old)])
        /\ UNCHANGED <<store, nodes, panel, counts, history>>

(* ensureEmailFree: one panel listed; it fails closed. *)
GuardPanel(p) ==
    /\ req[p].pc = "guard"
    /\ \E n \in req[p].todo :
        \/ /\ panel[n][req[p].name] = NoClient
           /\ Pass(p, n)
           /\ cleared' = cleared \cup {<<n, req[p].name>>}
           /\ UNCHANGED faults
        \/ /\ panel[n][req[p].name] # NoClient
           /\ End(p)
           /\ UNCHANGED <<cleared, faults>>
        \/ /\ Fault
           /\ End(p)
           /\ UNCHANGED cleared
    /\ UNCHANGED <<store, nodes, panel, reqs, meddled, drift, birth>>

GuardPassed(p) ==
    /\ req[p].pc = "guard"
    /\ req[p].todo = {}
    /\ Put(p, [req[p] EXCEPT !.pc = "store"])
    /\ UNCHANGED <<store, nodes, panel, counts, history>>

-----------------------------------------------------------------------------
(* Writing the store.                                                      *)

(* Slip: users.name without its UNIQUE constraint. *)
NameTaken_never(e) == FALSE
NameTaken(e) == \E u \in UserId : nameOf[u] = e

(* users.Create: the row and its connections in one transaction.  A taken  *)
(* nickname is a UNIQUE violation, a vanished inbound a foreign-key one.   *)
StoreUser(p) ==
    LET r == req[p]
    IN  /\ r.pc = "store" /\ r.op = "create"
        /\ IF NameTaken(r.name) \/ ~(r.want \subseteq Registered)
           THEN End(p) /\ UNCHANGED store
           ELSE /\ nameOf' = [nameOf EXCEPT ![r.serial] = r.name]
                /\ conns' = [conns EXCEPT ![r.serial] = r.want]
                /\ Put(p, [r EXCEPT !.pc = "sync", !.uid = r.serial,
                                   !.todo = TouchedNodes({}, r.want)])
        /\ UNCHANGED <<nodes, panel, counts, history>>

(* users.ReplaceConnections: insert the missing, delete the removed.  Each *)
(* inserted row references a user and an inbound that must be there.       *)
ReplaceConnections(p) ==
    LET r == req[p]
        added == r.want \ conns[r.uid]
        refused == \/ added # {} /\ nameOf[r.uid] = NoName
                   \/ ~(added \subseteq Registered)
    IN  /\ r.pc = "store" /\ r.op = "edit"
        /\ IF refused
           THEN End(p) /\ UNCHANGED conns
           ELSE /\ conns' = [conns EXCEPT ![r.uid] = r.want]
                /\ Put(p, [r EXCEPT !.pc = "describe"])
        /\ UNCHANGED <<nameOf, nodes, panel, counts, history>>

(* users.SetDescription stands between the connections and the panels. *)
SetDescription(p) ==
    /\ req[p].pc = "describe"
    /\ Put(p, [req[p] EXCEPT !.pc = "sync",
                             !.todo = TouchedNodes(req[p].old, req[p].want)])
    /\ UNCHANGED <<store, nodes, panel, counts, history>>

-----------------------------------------------------------------------------
(* Panel calls.  Each outcome of a call: it is carried out and answered,   *)
(* it is carried out and reported as failed, or it never reaches the panel.*)

(* Slip: the call reaches every client of the panel. *)
SetPair_wholePanel(n, e, c) == panel' = [panel EXCEPT ![n] = [x \in Name |-> c]]
SetPair(n, e, c) == panel' = [panel EXCEPT ![n][e] = c]
SetBirth(n, e, k) == birth' = [birth EXCEPT ![n][e] = k]
Taint(pairs) == drift' = drift \cup pairs

(* A solo request that re-bound or dropped a pair leaves it repaired. *)
Repair(p, n) ==
    drift' = IF req[p].solo THEN drift \ {<<n, req[p].name>>} ELSE drift

(* DelClient, when the user is to leave the panel for good. *)
DeleteClient(p, n) ==
    LET e == req[p].name
    IN  \/ /\ SetPair(n, e, NoClient) /\ SetBirth(n, e, 0)
           /\ Repair(p, n)
           /\ UNCHANGED faults
        \/ /\ Fault /\ Taint({<<n, e>>})
           /\ SetPair(n, e, NoClient) \/ UNCHANGED panel
           /\ UNCHANGED birth

(* syncPanels, a panel the user is no longer on: drop the whole client. *)
DropClient(p, n) ==
    /\ At(Vless(req[p].want), n) = {}
    /\ Pass(p, n)
    /\ DeleteClient(p, n)

(* Slip: an unchanged panel is not taken off the list. *)
Unchanged_stuck(p, n) ==
    /\ At(Vless(req[p].want), n) # {}
    /\ ~Forced(p)
    /\ At(Vless(req[p].old), n) = At(Vless(req[p].want), n)
    /\ UNCHANGED <<req, panel, faults, drift, birth>>

(* syncPanels, a panel whose inbound set did not change. *)
Unchanged(p, n) ==
    /\ At(Vless(req[p].want), n) # {}
    /\ ~Forced(p)
    /\ At(Vless(req[p].old), n) = At(Vless(req[p].want), n)
    /\ Pass(p, n)
    /\ UNCHANGED <<panel, faults, drift, birth>>

(* panelLookup, and the uuid the client will carry: the one the panel has, *)
(* if the user is known to be there.                                       *)
Lookup(p, n) ==
    LET r == req[p]
        c == panel[n][r.name]
    IN  /\ At(Vless(r.want), n) # {}
        /\ Forced(p) \/ At(Vless(r.old), n) # At(Vless(r.want), n)
        /\ \/ /\ Put(p, [r EXCEPT
                           !.todo = @ \ {n}, !.at = n,
                           !.pc = IF Owns(p, n) THEN "unbind" ELSE "bind",
                           !.cid = IF Owns(p, n) /\ c # NoClient
                                   THEN c.uuid ELSE r.serial])
              /\ UNCHANGED <<faults, drift>>
           \/ /\ Fault /\ Taint({<<n, r.name>>})
              /\ Pass(p, n)
        /\ UNCHANGED <<panel, birth>>

(* A node that left the registry: skipped, whatever was wanted there. *)
NodeMissing(p, n) ==
    /\ Pass(p, n)
    /\ UNCHANGED <<panel, faults, drift, birth>>

SyncPanel(p) ==
    /\ req[p].pc = "sync"
    /\ \E n \in req[p].todo :
        IF n \in req[p].byId
        THEN DropClient(p, n) \/ Unchanged(p, n) \/ Lookup(p, n)
        ELSE NodeMissing(p, n)
    /\ UNCHANGED <<store, nodes, reqs, meddled, cleared>>

(* DelClient before the re-bind; its error is ignored. *)
Unbind(p) ==
    LET n == req[p].at
        e == req[p].name
    IN  /\ req[p].pc = "unbind"
        /\ Put(p, [req[p] EXCEPT !.pc = "bind"])
        /\ \/ SetPair(n, e, NoClient) /\ UNCHANGED <<faults, drift>>
           \/ /\ Fault /\ Taint({<<n, e>>})
              /\ SetPair(n, e, NoClient) \/ UNCHANGED panel
        /\ UNCHANGED <<store, nodes, reqs, meddled, cleared, birth>>

(* AddClient: one client bound to all the wanted inbounds of the panel.    *)
(* A port the panel does not serve gives the panel up before the call.  A  *)
(* panel that already has the email refuses the client or replaces it.     *)
Bind(p) ==
    LET r == req[p]
        n == r.at
        ids == At(Vless(r.want), n)
        client == [sub |-> r.uid, uuid |-> r.cid, inbs |-> ids]
        bound == SetPair(n, r.name, client)
        afresh == birth[n][r.name] = 0 \/ <<n, r.name>> \in drift
    IN  /\ r.pc = "bind"
        /\ Put(p, [r EXCEPT !.pc = "sync", !.at = NoNode, !.cid = 0])
        /\ IF ~(ids \subseteq OnPanel)
           THEN Taint({<<n, r.name>>}) /\ UNCHANGED <<panel, faults, birth>>
           ELSE \/ /\ bound /\ Repair(p, n)
                   /\ IF afresh THEN SetBirth(n, r.name, r.cid)
                                ELSE UNCHANGED birth
                   /\ UNCHANGED faults
                \/ /\ panel[n][r.name] # NoClient
                   /\ Taint({<<n, r.name>>})
                   /\ UNCHANGED <<panel, faults, birth>>
                \/ /\ Fault /\ Taint({<<n, r.name>>})
                   /\ bound \/ UNCHANGED panel
                   /\ UNCHANGED birth
        /\ UNCHANGED <<store, nodes, reqs, meddled, cleared>>

SyncDone(p) ==
    /\ req[p].pc = "sync"
    /\ req[p].todo = {}
    /\ End(p)
    /\ UNCHANGED <<store, nodes, panel, counts, history>>

(* DeleteUser: the client is dropped from every panel, errors ignored. *)
RemoveClient(p) ==
    /\ req[p].pc = "remove"
    /\ \E n \in req[p].todo :
        /\ Pass(p, n)
        /\ DeleteClient(p, n)
    /\ UNCHANGED <<store, nodes, reqs, meddled, cleared>>

(* users.Delete: the row goes, and its connections by cascade. *)
RemoveUser(p) ==
    /\ req[p].pc = "remove"
    /\ req[p].todo = {}
    /\ nameOf' = [nameOf EXCEPT ![req[p].uid] = NoName]
    /\ conns' = [conns EXCEPT ![req[p].uid] = {}]
    /\ End(p)
    /\ UNCHANGED <<nodes, panel, counts, history>>

-----------------------------------------------------------------------------
(* Around the requests.                                                    *)

(* The context of a request is cancelled, or the process stops: no later   *)
(* statement or call of the request takes effect.                          *)
CutShort(p) ==
    /\ Busy(p)
    /\ Fault
    /\ End(p)
    /\ IF req[p].pc \in {"describe", "sync", "unbind", "bind", "remove"}
       THEN Taint(PairsOf(p))
       ELSE UNCHANGED drift
    /\ UNCHANGED <<store, nodes, panel, reqs, meddled, cleared, birth>>

(* The node-delete handler: refused by the foreign key while a connection  *)
(* references an inbound of the node.                                      *)
DeleteNode ==
    /\ \E n \in nodes :
        /\ \A u \in UserId : At(conns[u], n) = {}
        /\ nodes' = nodes \ {n}
    /\ UNCHANGED <<store, panel, req, counts, history>>

(* An operator works on a panel by hand. *)
OperatorChange ==
    /\ meddled < MaxMeddling
    /\ meddled' = meddled + 1
    /\ \E n \in Node, e \in Name :
        /\ SetPair(n, e, IF panel[n][e] = NoClient THEN ForeignClient
                                                  ELSE NoClient)
        /\ Taint({<<n, e>>})
    /\ UNCHANGED <<store, nodes, req, reqs, faults, cleared, birth>>

(* The bound on requests is reached and all have ended: not a deadlock. *)
Quiet ==
    /\ reqs = MaxReqs
    /\ \A p \in Proc : ~Busy(p)
    /\ UNCHANGED vars

Arrive(p) == BeginCreate(p) \/ BeginEdit(p) \/ BeginOther(p)

Serve(p) ==
    \/ GetUser(p) \/ GetConnections(p) \/ Index(p)
    \/ GuardPanel(p) \/ GuardPassed(p)
    \/ StoreUser(p) \/ ReplaceConnections(p) \/ SetDescription(p)
    \/ SyncPanel(p) \/ Unbind(p) \/ Bind(p) \/ SyncDone(p)
    \/ RemoveClient(p) \/ RemoveUser(p)

Next ==
    \/ \E p \in Proc : Arrive(p) \/ Serve(p) \/ CutShort(p)
    \/ DeleteNode
    \/ OperatorChange
    \/ Quiet

Spec == Init /\ [][Next]_vars

(* A handler keeps running its request: goroutines are scheduled, and every *)
(* store statement and panel call returns (15 s timeout).                   *)
FairSpec == Spec /\ \A p \in Proc : WF_vars(Serve(p))

-----------------------------------------------------------------------------
(* What the service promises.                                              *)

(* The nickname is unique among the users however the requests interleave, *)
(* and every stored connection references a row of node_inbounds: what     *)
(* users.Create, ReplaceConnections and the node-delete handler rely on    *)
(* the UNIQUE and foreign keys for, since they check nothing beforehand.   *)
StoreConsistent ==
    /\ \A u, v \in UserId : nameOf[u] # NoName /\ nameOf[u] = nameOf[v] => u = v
    /\ \A u \in UserId : conns[u] \subseteq Registered
    /\ \A u \in UserId : nameOf[u] = NoName => conns[u] = {}

(* Subgen adds, re-binds or deletes the client e on panel n only if        *)
(* ensureEmailFree once found n free of e: a client that was on a panel    *)
(* before subgen claimed the nickname there is never touched, whatever     *)
(* the interleaving and the failures, and hysteria2 connections included.  *)
PanelWritesVetted ==
    [][\A p \in Proc : Serve(p) =>
         \A n \in Node, e \in Name :
            panel'[n][e] # panel[n][e] => <<n, e>> \in cleared]_vars

(* The connections of the user named e, if there is one. *)
Holds(e) == UNION {conns[u] : u \in {v \in UserId : nameOf[v] = e}}

(* Once no request works on nickname e, a panel agrees with the store: it  *)
(* has exactly the user's client, bound to exactly its vless inbounds      *)
(* there, or no client of subgen's.  The panel of a node that has left the *)
(* registry is no exception: no client stays behind there.  Excused are    *)
(* the pairs where a call failed, a request was cut, two requests on e     *)
(* overlapped, a port was missing or an operator interfered, until a solo  *)
(* request repairs them.                                                   *)
PanelsAgree ==
    \A e \in Name, n \in Node :
        LET inbs == At(Vless(Holds(e)), n)
            c == panel[n][e]
        IN  (\A p \in Proc : req[p].name # e) /\ <<n, e>> \notin drift =>
              IF inbs = {}
              THEN c = NoClient \/ c = ForeignClient
              ELSE /\ c # NoClient
                   /\ c.inbs = inbs
                   /\ nameOf[c.sub] = e

(* The uuid of a user's client outlives every re-bind: Edit and Recreate   *)
(* look the client up before they delete it.  Pairs in drift excused.      *)
UuidStable ==
    \A e \in Name, n \in Node :
        panel[n][e] # NoClient /\ <<n, e>> \notin drift =>
            panel[n][e].uuid = birth[n][e]

(* Every request comes to its end: no statement or call waits for another  *)
(* request, and each loop over the panels shrinks.                         *)
RequestsEnd == \A p \in Proc : Busy(p) ~> ~Busy(p)

(* docs/subgen.md: subgen "never deletes a client it doesn't own".  A       *)
(* request's DelClient hits a foreign client when one came to the panel     *)
(* after ensureEmailFree had found it free and the AddClient was refused.   *)
DeletesOnlyOwn ==
    [][\A p \in Proc : Serve(p) =>
         \A n \in Node, e \in Name :
            panel[n][e] = ForeignClient => panel'[n][e] # NoClient]_vars

=============================================================================
