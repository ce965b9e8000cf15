------------------------- MODULE ProvisioningProofs -------------------------
(***************************************************************************)
(* Proofs about Provisioning, for every set of handlers, nicknames, nodes  *)
(* and inbounds, every placement of the inbounds and every bound.          *)
(*                                                                         *)
(* Six theorems: TypeCorrect, StoreSafe, Vetting, and on top of them       *)
(* Agreement, UuidKept and FleetRight, about the pairs of a panel and a    *)
(* nickname that no failure or overlap excuses.  Their invariant, AInv,    *)
(* says for each step of a request which connections each panel shows:     *)
(* the stored ones before the row is written, then the old ones until the  *)
(* walk has been at the panel, then the new.  A step of a request disturbs *)
(* its own nickname only, and a request that is alone there can rely on    *)
(* what it has read (OwnRow).                                              *)
(*                                                                         *)
(* Vetting needs a strengthening of its own: that a DelClient hits a       *)
(* vetted pair rests on where the request got the node from.  Vetted       *)
(* follows a pair from the guard, through the connections table and the    *)
(* snapshots of it that requests carry, to the call; Ids makes sure that   *)
(* the row a request writes to is the one it read, although the row may    *)
(* have been deleted in between: an id is never used again.                *)
(***************************************************************************)
EXTENDS Provisioning, Fleet, TLAPS

(* A request that is being served names what its steps need. *)
WellFormed ==
    {r \in Request : r.pc # "idle" =>
        /\ r.name \in Name
        /\ r.pc \in {"get", "conns"} => r.op # "create"
        /\ r.op # "create" => r.uid \in UserId
        /\ r.pc \in {"unbind", "bind"} => r.at \in Node}

(* TypeOK and the requests well-formed: the inductive form of the typing. *)
Typed == TypeOK /\ req \in [Proc -> WellFormed]

-----------------------------------------------------------------------------
(* Typing.                                                                 *)

(* Selections touch only nodes. *)
LEMMA NodeSets ==
    ASSUME NEW S \in SUBSET Inbound
    PROVE  NodesOf(S) \subseteq Node /\ NodesOf(Vless(S)) \subseteq Node
BY ConstantsAssumption DEF NodesOf, Vless

(* Typing of a request that is not being served. *)
LEMMA NoRequestType == NoRequest \in WellFormed
<1>1. NoRequest \in Request
  BY ConstantsAssumption DEF NoRequest, Request, Ops, Places
<1>2. NoRequest.pc = "idle"
  BY DEF NoRequest
<1> QED
  BY <1>1, <1>2 DEF WellFormed

(* Putting a request of the right type keeps req typed. *)
LEMMA PutType ==
    ASSUME Typed, NEW p \in Proc, NEW r \in WellFormed, Put(p, r)
    PROVE  /\ req' \in [Proc -> WellFormed]
           /\ req'[p] = r
           /\ \A q \in Proc : q # p => req'[q] = req[q]
BY DEF Typed, Put

(* Ending a request keeps req typed. *)
LEMMA EndType ==
    ASSUME Typed, NEW p \in Proc, End(p)
    PROVE  /\ req' \in [Proc -> WellFormed]
           /\ req'[p] = NoRequest
           /\ \A q \in Proc : q # p => req'[q] = req[q]
BY NoRequestType, PutType DEF End

(* Taking a panel off a walk keeps req typed. *)
LEMMA PassType ==
    ASSUME Typed, NEW p \in Proc, NEW n, Pass(p, n)
    PROVE  /\ req' \in [Proc -> WellFormed]
           /\ req'[p] = [req[p] EXCEPT !.todo = @ \ {n}]
           /\ \A q \in Proc : q # p => req'[q] = req[q]
<1>1. [req[p] EXCEPT !.todo = @ \ {n}] \in WellFormed
  <2>1. req[p] \in WellFormed
    BY DEF Typed
  <2> QED
    BY <2>1 DEF WellFormed, Request
<1> QED
  BY <1>1, PutType DEF Pass

(* The requests that arrive are well-formed. *)
LEMMA FreshType ==
    ASSUME NEW op \in Ops, NEW pc \in Places, NEW u \in 0 .. MaxReqs,
           NEW e \in Name, NEW S \in SUBSET Inbound,
           (op = "create" /\ pc = "index") \/ (op # "create" /\ u \in UserId),
           pc \notin {"unbind", "bind"}
    PROVE  LET r == Fresh(op, pc, u, e, S)
           IN  /\ r \in WellFormed
               /\ r.op = op /\ r.pc = pc /\ r.uid = u /\ r.name = e
               /\ r.old = {}
<1>1. NoRequest \in Request /\ NoRequest.old = {}
  BY NoRequestType DEF NoRequest, WellFormed
<1>2. e \in Name \cup {NoName}
  OBVIOUS
<1> QED
  BY <1>1, <1>2 DEF Fresh, Request, WellFormed

(* What an arriving request looks like. *)
LEMMA ArriveRequest ==
    ASSUME Typed, NEW p \in Proc, Arrive(p)
    PROVE  \E r \in WellFormed :
              /\ Begin(p, r)
              /\ r.name \in Name /\ r.old = {}
              /\ \/ r.op = "create" /\ r.uid = 0 /\ r.pc = "index"
                 \/ /\ r.op # "create" /\ r.pc = "get"
                    /\ r.uid \in UserId /\ nameOf[r.uid] = r.name
<1>0. /\ 0 \in 0 .. MaxReqs
      /\ \A S \in Selection : S \in SUBSET Inbound
      /\ \A u \in Live : u \in UserId /\ u \in 0 .. MaxReqs /\ nameOf[u] \in Name
      /\ {} \in SUBSET Inbound
  BY ConstantsAssumption DEF Live, UserId, Typed, TypeOK
<1>1. CASE BeginCreate(p)
  <2>1. PICK e \in Name, S \in Selection :
          Begin(p, Fresh("create", "index", 0, e, S))
    BY <1>1 DEF BeginCreate
  <2>2. "create" \in Ops /\ "index" \in Places
    BY DEF Ops, Places
  <2> QED
    BY <1>0, <2>1, <2>2, FreshType
<1>2. CASE BeginEdit(p)
  <2>1. PICK u \in Live, S \in Selection :
          Begin(p, Fresh("edit", "get", u, nameOf[u], S))
    BY <1>2 DEF BeginEdit
  <2>2. "edit" \in Ops /\ "get" \in Places
    BY DEF Ops, Places
  <2> QED
    BY <1>0, <2>1, <2>2, FreshType
<1>3. CASE BeginOther(p)
  <2>1. PICK u \in Live, op \in {"delete", "recreate"} :
          Begin(p, Fresh(op, "get", u, nameOf[u], {}))
    BY <1>3 DEF BeginOther
  <2>2. op \in Ops /\ op # "create" /\ "get" \in Places
    BY DEF Ops, Places
  <2> QED
    BY <1>0, <2>1, <2>2, FreshType
<1> QED
  BY <1>1, <1>2, <1>3 DEF Arrive

(* An arrival changes its own entry and the solo flags of the others. *)
LEMMA BeginType ==
    ASSUME Typed, NEW p \in Proc, NEW r \in WellFormed, Begin(p, r)
    PROVE  /\ req' \in [Proc -> WellFormed]
           /\ \E b \in BOOLEAN :
                 req'[p] = [r EXCEPT !.serial = reqs + 1, !.solo = b]
           /\ \A q \in Proc : q # p => \E b \in BOOLEAN :
                 req'[q] = [req[q] EXCEPT !.solo = b]
           /\ reqs' = reqs + 1 /\ reqs' \in 0 .. MaxReqs
<1> DEFINE others == {q \in Proc : Busy(q) /\ req[q].name = r.name}
<1>1. reqs' = reqs + 1 /\ reqs + 1 \in 0 .. MaxReqs
  <2>1. reqs < MaxReqs /\ reqs' = reqs + 1
    BY DEF Begin
  <2>2. reqs \in 0 .. MaxReqs /\ MaxReqs \in Nat
    BY ConstantsAssumption DEF Typed, TypeOK
  <2> QED
    BY <2>1, <2>2
<1>2. PICK b \in BOOLEAN : b = (others = {})
  OBVIOUS
<1>3. req' = [q \in Proc |->
                 IF q = p THEN [r EXCEPT !.serial = reqs + 1, !.solo = b]
                 ELSE [req[q] EXCEPT !.solo = @ /\ q \notin others]]
  BY <1>2 DEF Begin
<1>4. \A q \in Proc : [req[q] EXCEPT !.solo = @ /\ q \notin others] \in WellFormed
                      /\ (req[q].solo /\ q \notin others) \in BOOLEAN
  BY ZenonT(60) DEF Typed, Request, WellFormed
<1>5. [r EXCEPT !.serial = reqs + 1, !.solo = b] \in WellFormed
  BY <1>1, <1>2 DEF Request, WellFormed
<1> HIDE DEF others
<1> QED
  BY <1>1, <1>3, <1>4, <1>5

(* Arrivals keep the typing. *)
LEMMA ArriveTyped ==
    ASSUME Typed, NEW p \in Proc, Arrive(p)
    PROVE  Typed'
<1>1. PICK r \in WellFormed : Begin(p, r) /\ r.name \in Name
  BY ArriveRequest
<1>2. req' \in [Proc -> WellFormed] /\ reqs' \in 0 .. MaxReqs
  BY <1>1, BeginType
<1>4. drift' \subseteq Node \X Name
  <2>1. drift' = drift \/ drift' = drift \cup (Node \X {r.name})
    BY <1>1 DEF Begin
  <2> QED
    BY <1>1, <2>1 DEF Typed, TypeOK
<1>5. UNCHANGED <<nameOf, conns, nodes, panel, faults, meddled, cleared, birth>>
  BY <1>1 DEF Begin, store
<1> QED
  BY <1>2, <1>4, <1>5 DEF Typed, TypeOK, WellFormed

(* The fault counter stays within its bound. *)
LEMMA FaultType ==
    ASSUME Typed, Fault
    PROVE  faults' \in 0 .. MaxFaults
BY ConstantsAssumption DEF Typed, TypeOK, Fault

(* Writing one panel pair keeps the panels and their histories typed. *)
LEMMA PairType ==
    ASSUME Typed, NEW n \in Node, NEW e \in Name
    PROVE  /\ \A c \in Client \cup {NoClient} : SetPair(n, e, c) =>
                 panel' \in [Node -> [Name -> Client \cup {NoClient}]]
           /\ \A k \in 0 .. MaxReqs : SetBirth(n, e, k) =>
                 birth' \in [Node -> [Name -> 0 .. MaxReqs]]
           /\ Taint({<<n, e>>}) => drift' \subseteq Node \X Name
           /\ \A p \in Proc : Repair(p, n) => drift' \subseteq Node \X Name
<1>1. ASSUME NEW c \in Client \cup {NoClient}, SetPair(n, e, c)
      PROVE  panel' \in [Node -> [Name -> Client \cup {NoClient}]]
  <2> DEFINE C == Client \cup {NoClient}
  <2> HIDE DEF C
  <2> SUFFICES panel' \in [Node -> [Name -> C]]
    BY DEF C
  <2> QED
    BY <1>1 DEF Typed, TypeOK, SetPair, C
<1>2. ASSUME NEW k \in 0 .. MaxReqs, SetBirth(n, e, k)
      PROVE  birth' \in [Node -> [Name -> 0 .. MaxReqs]]
  BY <1>2 DEF Typed, TypeOK, SetBirth
<1>3. /\ Taint({<<n, e>>}) => drift' \subseteq Node \X Name
      /\ \A p \in Proc : Repair(p, n) => drift' \subseteq Node \X Name
  BY DEF Typed, TypeOK, Taint, Repair
<1> QED
  BY <1>1, <1>2, <1>3
(* The steps of a request that leave the panels alone. *)
LEMMA StoreStepTyped ==
    ASSUME Typed, NEW p \in Proc,
           \/ GetUser(p) \/ GetConnections(p) \/ Index(p) \/ GuardPassed(p)
           \/ StoreUser(p) \/ ReplaceConnections(p) \/ SetDescription(p)
           \/ SyncDone(p) \/ RemoveUser(p)
    PROVE  Typed'
<1> DEFINE r == req[p]
<1>0. r \in WellFormed
  BY DEF Typed
<1>1. ASSUME UNCHANGED <<store, nodes, panel, counts, history>>,
             req' \in [Proc -> WellFormed]
      PROVE  Typed'
  BY <1>1 DEF Typed, TypeOK, store, counts, history, WellFormed
<1>2. CASE GetUser(p)
  <2>1. r.pc = "get" => [r EXCEPT !.pc = "conns"] \in WellFormed
    BY <1>0 DEF WellFormed, Request, Places
  <2>2. req' \in [Proc -> WellFormed]
    BY <1>2, <2>1, PutType, EndType DEF GetUser
  <2> QED
    BY <1>1, <1>2, <2>2 DEF GetUser
<1>3. CASE GetConnections(p)
  <2>1. r.pc = "conns" => conns[r.uid] \in SUBSET Inbound
    BY <1>0 DEF Typed, TypeOK, WellFormed
  <2>2. r.pc = "conns" =>
           [r EXCEPT !.pc = "index", !.old = conns[r.uid]] \in WellFormed
    BY <1>0, <2>1 DEF WellFormed, Request, Places
  <2>3. req' \in [Proc -> WellFormed]
    BY <1>3, <2>2, PutType DEF GetConnections
  <2> QED
    BY <1>1, <1>3, <2>3 DEF GetConnections
<1>4. CASE Index(p)
  <2>1. nodes \in SUBSET Node /\ r.pc = "index"
    BY <1>4 DEF Index, Typed, TypeOK
  <2>2. ASSUME NEW pc \in {"guard", "remove"}, NEW todo \in SUBSET Node
        PROVE  [r EXCEPT !.pc = pc, !.byId = nodes, !.todo = todo] \in WellFormed
    BY <1>0, <2>1 DEF WellFormed, Request, Places
  <2>3. ASSUME NEW todo \in SUBSET Node
        PROVE  [r EXCEPT !.pc = "sync", !.byId = nodes, !.want = r.old,
                         !.todo = todo] \in WellFormed
    BY <1>0, <2>1 DEF WellFormed, Request, Places
  <2>4. /\ AddedNodes(r.old, r.want) \in SUBSET Node
        /\ NodesOf(r.old) \cap nodes \in SUBSET Node
        /\ TouchedNodes(r.old, r.old) \in SUBSET Node
    BY <1>0, <2>1, NodeSets DEF AddedNodes, TouchedNodes, WellFormed, Request
  <2>5. req' \in [Proc -> WellFormed]
    <3>1. CASE End(p)
      BY <3>1, EndType
    <3>2. CASE Put(p, [r EXCEPT !.pc = "guard", !.byId = nodes,
                                !.todo = AddedNodes(r.old, r.want)])
      BY <3>2, <2>2, <2>4, PutType
    <3>3. CASE Put(p, [r EXCEPT !.pc = "remove", !.byId = nodes,
                                !.todo = NodesOf(r.old) \cap nodes])
      BY <3>3, <2>2, <2>4, PutType
    <3>4. CASE Put(p, [r EXCEPT !.pc = "sync", !.byId = nodes, !.want = r.old,
                                !.todo = TouchedNodes(r.old, r.old)])
      BY <3>4, <2>3, <2>4, PutType
    <3> QED
      BY <1>4, <3>1, <3>2, <3>3, <3>4 DEF Index
  <2> QED
    BY <1>1, <1>4, <2>5 DEF Index
<1>5. CASE GuardPassed(p)
  <2>1. r.pc = "guard" => [r EXCEPT !.pc = "store"] \in WellFormed
    BY <1>0 DEF WellFormed, Request, Places
  <2>2. req' \in [Proc -> WellFormed]
    BY <1>5, <2>1, PutType DEF GuardPassed
  <2> QED
    BY <1>1, <1>5, <2>2 DEF GuardPassed
<1>6. CASE StoreUser(p)
  <2>1. /\ r.want \in SUBSET Inbound /\ r.serial \in 0 .. MaxReqs
        /\ r.name \in Name \cup {NoName}
    BY <1>0 DEF WellFormed, Request
  <2>2. TouchedNodes({}, r.want) \in SUBSET Node
    BY <2>1, NodeSets DEF TouchedNodes
  <2>3. r.pc = "store" /\ r.op = "create"
    BY <1>6 DEF StoreUser
  <2>4. [r EXCEPT !.pc = "sync", !.uid = r.serial,
                  !.todo = TouchedNodes({}, r.want)] \in WellFormed
    BY <1>0, <2>1, <2>2, <2>3 DEF WellFormed, Request, Places
  <2>5. req' \in [Proc -> WellFormed]
    BY <1>6, <2>4, PutType, EndType DEF StoreUser
  <2>6. /\ nameOf' \in [UserId -> Name \cup {NoName}]
        /\ conns' \in [UserId -> SUBSET Inbound]
    BY <1>6, <2>1 DEF StoreUser, store, Typed, TypeOK
  <2> QED
    BY <1>6, <2>5, <2>6 DEF StoreUser, Typed, TypeOK, counts, history, WellFormed
<1>7. CASE ReplaceConnections(p)
  <2>1. r.want \in SUBSET Inbound
    BY <1>0 DEF WellFormed, Request
  <2>2. r.pc = "store" => [r EXCEPT !.pc = "describe"] \in WellFormed
    BY <1>0 DEF WellFormed, Request, Places
  <2>3. req' \in [Proc -> WellFormed]
    BY <1>7, <2>2, PutType, EndType DEF ReplaceConnections
  <2>4. conns' \in [UserId -> SUBSET Inbound]
    BY <1>7, <2>1 DEF ReplaceConnections, Typed, TypeOK
  <2> QED
    BY <1>7, <2>3, <2>4
       DEF ReplaceConnections, Typed, TypeOK, counts, history, WellFormed
<1>8. CASE SetDescription(p)
  <2>1. TouchedNodes(r.old, r.want) \in SUBSET Node
    BY <1>0, NodeSets DEF TouchedNodes, WellFormed, Request
  <2>2. r.pc = "describe" =>
           [r EXCEPT !.pc = "sync",
                     !.todo = TouchedNodes(r.old, r.want)] \in WellFormed
    BY <1>0, <2>1 DEF WellFormed, Request, Places
  <2>3. req' \in [Proc -> WellFormed]
    BY <1>8, <2>2, PutType DEF SetDescription
  <2> QED
    BY <1>1, <1>8, <2>3 DEF SetDescription
<1>9. CASE SyncDone(p)
  BY <1>1, <1>9, EndType DEF SyncDone
<1>10. CASE RemoveUser(p)
  <2>1. req' \in [Proc -> WellFormed]
    BY <1>10, EndType DEF RemoveUser
  <2>2. /\ nameOf' \in [UserId -> Name \cup {NoName}]
        /\ conns' \in [UserId -> SUBSET Inbound]
    BY <1>10 DEF RemoveUser, Typed, TypeOK
  <2> QED
    BY <1>10, <2>1, <2>2
       DEF RemoveUser, Typed, TypeOK, counts, history, WellFormed
<1> QED
  BY <1>2, <1>3, <1>4, <1>5, <1>6, <1>7, <1>8, <1>9, <1>10

(* The steps that call a panel. *)
LEMMA GuardTyped ==
    ASSUME Typed, NEW p \in Proc, GuardPanel(p)
    PROVE  Typed'
<1>1. PICK n \in req[p].todo :
        \/ /\ Pass(p, n)
           /\ cleared' = cleared \cup {<<n, req[p].name>>}
           /\ UNCHANGED faults
        \/ End(p) /\ UNCHANGED <<cleared, faults>>
        \/ Fault /\ End(p) /\ UNCHANGED cleared
  BY DEF GuardPanel
<1>2. req[p] \in WellFormed /\ req[p].pc = "guard"
  BY DEF Typed, GuardPanel
<1>3. n \in Node /\ req[p].name \in Name
  BY <1>2 DEF WellFormed, Request
<1>4. req' \in [Proc -> WellFormed]
  BY <1>1, PassType, EndType
<1>5. cleared' \subseteq Node \X Name /\ faults' \in 0 .. MaxFaults
  BY <1>1, <1>3, FaultType DEF Typed, TypeOK
<1> QED
  BY <1>4, <1>5 DEF GuardPanel, Typed, TypeOK, WellFormed, store

(* What a call may change is typed when it is; the pair is <<n, e>>. *)
LEMMA CallTyped ==
    ASSUME Typed, NEW n \in Node, NEW e \in Name, NEW p \in Proc,
           req' \in [Proc -> WellFormed],
           UNCHANGED <<nodes, reqs, meddled, cleared>>,
           UNCHANGED store,
           \/ UNCHANGED panel
           \/ \E c \in Client \cup {NoClient} : SetPair(n, e, c),
           \/ UNCHANGED birth
           \/ \E k \in 0 .. MaxReqs : SetBirth(n, e, k),
           UNCHANGED drift \/ Taint({<<n, e>>}) \/ Repair(p, n),
           UNCHANGED faults \/ Fault
    PROVE  Typed'
<1>1. panel' \in [Node -> [Name -> Client \cup {NoClient}]]
  BY PairType DEF Typed, TypeOK
<1>2. birth' \in [Node -> [Name -> 0 .. MaxReqs]]
  BY PairType DEF Typed, TypeOK
<1>3. drift' \subseteq Node \X Name
  BY PairType DEF Typed, TypeOK
<1>4. faults' \in 0 .. MaxFaults
  BY FaultType DEF Typed, TypeOK
<1> QED
  BY <1>1, <1>2, <1>3, <1>4 DEF Typed, TypeOK, WellFormed, store

(* DelClient keeps the typing. *)
LEMMA DeleteClientTyped ==
    ASSUME Typed, NEW p \in Proc, NEW n \in req[p].todo,
           req[p].pc \in {"sync", "remove"},
           Pass(p, n), DeleteClient(p, n),
           UNCHANGED <<nodes, reqs, meddled, cleared>>, UNCHANGED store
    PROVE  Typed'
<1> DEFINE e == req[p].name
<1>1. n \in Node /\ e \in Name
  BY DEF Typed, WellFormed, Request
<1>2. req' \in [Proc -> WellFormed]
  BY PassType
<1>3. 0 \in 0 .. MaxReqs
  BY ConstantsAssumption
<1>4. /\ UNCHANGED panel \/ SetPair(n, e, NoClient)
      /\ UNCHANGED birth \/ SetBirth(n, e, 0)
      /\ Taint({<<n, e>>}) \/ Repair(p, n)
      /\ UNCHANGED faults \/ Fault
  BY DEF DeleteClient
<1> HIDE DEF e
<1> QED
  BY <1>1, <1>2, <1>3, <1>4, CallTyped

(* panelLookup keeps the typing: the uuid is the panel's or a new one. *)
LEMMA LookupTyped ==
    ASSUME Typed, NEW p \in Proc, NEW n \in req[p].todo,
           req[p].pc = "sync", Lookup(p, n),
           UNCHANGED <<nodes, reqs, meddled, cleared>>, UNCHANGED store
    PROVE  Typed'
<1> DEFINE e == req[p].name
           c == panel[n][e]
<1>1. n \in Node /\ e \in Name /\ req[p] \in WellFormed
  BY DEF Typed, WellFormed, Request
<1>2. req' \in [Proc -> WellFormed]
  <2>1. CASE Pass(p, n)
    BY <2>1, PassType
  <2>2. CASE ~Pass(p, n)
    <3>1. c \in Client \cup {NoClient}
      BY <1>1 DEF Typed, TypeOK
    <3>2. c # NoClient => c.uuid \in 0 .. MaxReqs
      BY <3>1 DEF Client
    <3>3. PICK pc \in {"unbind", "bind"}, k \in 0 .. MaxReqs :
            Put(p, [req[p] EXCEPT !.todo = @ \ {n}, !.at = n,
                                  !.pc = pc, !.cid = k])
      <4>1. req[p].serial \in 0 .. MaxReqs
        BY <1>1 DEF WellFormed, Request
      <4>2. (IF Owns(p, n) /\ c # NoClient THEN c.uuid ELSE req[p].serial)
               \in 0 .. MaxReqs
        BY <3>2, <4>1
      <4> QED
        BY <2>2, <4>2 DEF Lookup
    <3>4. [req[p] EXCEPT !.todo = @ \ {n}, !.at = n,
                         !.pc = pc, !.cid = k] \in WellFormed
      BY <1>1 DEF WellFormed, Request, Places
    <3> QED
      BY <3>3, <3>4, PutType
  <2> QED
    BY <2>1, <2>2
<1>3. /\ UNCHANGED panel /\ UNCHANGED birth
      /\ UNCHANGED drift \/ Taint({<<n, e>>})
      /\ UNCHANGED faults \/ Fault
  BY DEF Lookup
<1> HIDE DEF e
<1> QED
  BY <1>1, <1>2, <1>3, CallTyped

(* The walk of syncPanels keeps the typing. *)
LEMMA SyncPanelTyped ==
    ASSUME Typed, NEW p \in Proc, SyncPanel(p)
    PROVE  Typed'
<1>1. PICK n \in req[p].todo :
        DropClient(p, n) \/ Unchanged(p, n) \/ Lookup(p, n) \/ NodeMissing(p, n)
  BY DEF SyncPanel
<1>2. /\ req[p].pc = "sync"
      /\ UNCHANGED <<nodes, reqs, meddled, cleared>> /\ UNCHANGED store
  BY DEF SyncPanel
<1>3. n \in Node /\ req[p].name \in Name
  BY <1>2 DEF Typed, WellFormed, Request
<1>4. CASE DropClient(p, n)
  BY <1>2, <1>4, DeleteClientTyped DEF DropClient
<1>5. CASE Lookup(p, n)
  BY <1>2, <1>5, LookupTyped
<1>6. CASE Unchanged(p, n) \/ NodeMissing(p, n)
  <2>1. Pass(p, n) /\ UNCHANGED panel /\ UNCHANGED faults
          /\ UNCHANGED drift /\ UNCHANGED birth
    BY <1>6 DEF Unchanged, NodeMissing
  <2>2. req' \in [Proc -> WellFormed]
    BY <2>1, PassType
  <2> QED
    BY <1>2, <1>3, <2>1, <2>2, CallTyped
<1> QED
  BY <1>1, <1>4, <1>5, <1>6

(* The walk of DeleteUser keeps the typing. *)
LEMMA RemoveClientTyped ==
    ASSUME Typed, NEW p \in Proc, RemoveClient(p)
    PROVE  Typed'
BY DeleteClientTyped DEF RemoveClient

(* Unbinding keeps the typing. *)
LEMMA UnbindTyped ==
    ASSUME Typed, NEW p \in Proc, Unbind(p)
    PROVE  Typed'
<1> DEFINE n == req[p].at
           e == req[p].name
<1>1. req[p] \in WellFormed /\ req[p].pc = "unbind"
  BY DEF Typed, Unbind
<1>2. n \in Node /\ e \in Name
  BY <1>1 DEF WellFormed
<1>3. [req[p] EXCEPT !.pc = "bind"] \in WellFormed
  BY <1>1 DEF WellFormed, Request, Places
<1>4. req' \in [Proc -> WellFormed]
  BY <1>3, PutType DEF Unbind
<1>5. /\ UNCHANGED panel \/ SetPair(n, e, NoClient)
      /\ UNCHANGED birth
      /\ UNCHANGED drift \/ Taint({<<n, e>>})
      /\ UNCHANGED faults \/ Fault
      /\ UNCHANGED <<nodes, reqs, meddled, cleared>> /\ UNCHANGED store
  BY DEF Unbind
<1> HIDE DEF n, e
<1> QED
  BY <1>2, <1>4, <1>5, CallTyped

(* Binding keeps the typing. *)
LEMMA BindTyped ==
    ASSUME Typed, NEW p \in Proc, Bind(p)
    PROVE  Typed'
<1> DEFINE r == req[p]
           n == r.at
           e == r.name
           c == [sub |-> r.uid, uuid |-> r.cid, inbs |-> At(Vless(r.want), n)]
<1>1. r \in WellFormed /\ r.pc = "bind"
  BY DEF Typed, Bind
<1>2. n \in Node /\ e \in Name /\ r.cid \in 0 .. MaxReqs
  BY <1>1 DEF WellFormed, Request
<1>3. [r EXCEPT !.pc = "sync", !.at = NoNode, !.cid = 0] \in WellFormed
  <2>1. 0 \in 0 .. MaxReqs
    BY ConstantsAssumption
  <2> QED
    BY <1>1, <2>1 DEF WellFormed, Request, Places
<1>4. req' \in [Proc -> WellFormed]
  BY <1>3, PutType DEF Bind
<1>5. c \in Client
  <2>1. At(Vless(r.want), n) \in SUBSET Inbound
    BY <1>1 DEF At, Vless, WellFormed, Request
  <2> QED
    BY <1>1, <2>1 DEF Client, WellFormed, Request
<1>6. /\ UNCHANGED panel \/ SetPair(n, e, c)
      /\ UNCHANGED birth \/ SetBirth(n, e, r.cid)
      /\ Taint({<<n, e>>}) \/ Repair(p, n)
      /\ UNCHANGED faults \/ Fault
      /\ UNCHANGED <<nodes, reqs, meddled, cleared>> /\ UNCHANGED store
  BY DEF Bind
<1> HIDE DEF n, e, c
<1> QED
  BY <1>2, <1>4, <1>5, <1>6, CallTyped

(* What happens around the requests. *)
LEMMA OthersTyped ==
    ASSUME Typed,
           \/ \E p \in Proc : CutShort(p)
           \/ DeleteNode \/ OperatorChange \/ UNCHANGED vars
    PROVE  Typed'
<1>1. ASSUME NEW p \in Proc, CutShort(p)
      PROVE  Typed'
  <2>1. req' \in [Proc -> WellFormed] /\ faults' \in 0 .. MaxFaults
    BY <1>1, EndType, FaultType DEF CutShort
  <2>2. req[p].name \in Name
    BY <1>1 DEF CutShort, Busy, Typed, WellFormed
  <2>3. drift' \subseteq Node \X Name
    BY <1>1, <2>2 DEF CutShort, Taint, PairsOf, Typed, TypeOK
  <2> QED
    BY <1>1, <2>1, <2>3 DEF CutShort, Typed, TypeOK, store, WellFormed
<1>2. CASE DeleteNode
  BY <1>2 DEF DeleteNode, Typed, TypeOK, store, counts, history, WellFormed
<1>3. CASE OperatorChange
  <2>1. meddled' \in 0 .. MaxMeddling
    BY <1>3, ConstantsAssumption DEF OperatorChange, Typed, TypeOK
  <2>2. PICK n \in Node, e \in Name :
          /\ SetPair(n, e, IF panel[n][e] = NoClient THEN ForeignClient
                                                    ELSE NoClient)
          /\ Taint({<<n, e>>})
    BY <1>3 DEF OperatorChange
  <2>3. ForeignClient \in Client
    BY ConstantsAssumption DEF ForeignClient, Client
  <2>4. panel' \in [Node -> [Name -> Client \cup {NoClient}]]
    BY <2>2, <2>3, PairType
  <2>5. drift' \subseteq Node \X Name
    BY <2>2, PairType
  <2> QED
    BY <1>3, <2>1, <2>4, <2>5 DEF OperatorChange, Typed, TypeOK, store, WellFormed
<1>4. CASE UNCHANGED vars
  BY <1>4 DEF vars, Typed, TypeOK, WellFormed
<1> QED
  BY <1>1, <1>2, <1>3, <1>4

(* Every step keeps the typing. *)
LEMMA StepTyped ==
    ASSUME Typed, [Next]_vars
    PROVE  Typed'
<1>1. ASSUME NEW p \in Proc, Serve(p)
      PROVE  Typed'
  BY <1>1, StoreStepTyped, GuardTyped, SyncPanelTyped, UnbindTyped, BindTyped,
     RemoveClientTyped DEF Serve
<1> QED
  BY <1>1, ArriveTyped, OthersTyped DEF Next, Quiet

(* The first state is typed. *)
LEMMA InitTyped == Init => Typed
<1>1. Init => TypeOK
  BY ConstantsAssumption
     DEF Init, TypeOK, Request, NoRequest, Ops, Places, Client, ForeignClient,
         UserId
<1> QED
  BY <1>1, NoRequestType DEF Init, Typed

(* Every variable keeps its type. *)
THEOREM TypeCorrect == Spec => []TypeOK
<1>1. Init => Typed
  BY InitTyped
<1>2. Typed /\ [Next]_vars => Typed'
  BY StepTyped
<1>3. Typed => TypeOK
  BY DEF Typed
<1> QED
  BY <1>1, <1>2, <1>3, PTL DEF Spec
-----------------------------------------------------------------------------
(* The store: unique nicknames and sound references.                       *)

(* The statements that write the store, and the deletion of a node. *)
LEMMA StoreStep ==
    ASSUME Typed, StoreConsistent, [Next]_vars
    PROVE  StoreConsistent'
<1>1. CASE UNCHANGED <<nameOf, conns, nodes>>
  BY <1>1 DEF StoreConsistent, Registered
<1>2. ASSUME NEW p \in Proc, StoreUser(p)
      PROVE  StoreConsistent'
  <2> DEFINE r == req[p]
  <2>1. CASE UNCHANGED store
    BY <1>1, <1>2, <2>1 DEF StoreUser, store
  <2>2. CASE ~UNCHANGED store
    <3>1. /\ nameOf' = [nameOf EXCEPT ![r.serial] = r.name]
          /\ conns' = [conns EXCEPT ![r.serial] = r.want]
          /\ ~NameTaken(r.name) /\ r.want \subseteq Registered
          /\ nodes' = nodes
      BY <1>2, <2>2 DEF StoreUser
    <3>2. r.name \in Name /\ r.name # NoName
      BY <1>2, ConstantsAssumption DEF StoreUser, Typed, WellFormed
    <3>3. Registered' = Registered
      BY <3>1 DEF Registered
    <3> QED
      BY <3>1, <3>2, <3>3 DEF NameTaken, StoreConsistent, Typed, TypeOK
  <2> QED
    BY <2>1, <2>2
<1>3. ASSUME NEW p \in Proc, ReplaceConnections(p)
      PROVE  StoreConsistent'
  <2> DEFINE r == req[p]
  <2>1. CASE UNCHANGED conns
    BY <1>1, <1>3, <2>1 DEF ReplaceConnections
  <2>2. CASE ~UNCHANGED conns
    <3>1. /\ conns' = [conns EXCEPT ![r.uid] = r.want]
          /\ r.want \ conns[r.uid] # {} => nameOf[r.uid] # NoName
          /\ r.want \ conns[r.uid] \subseteq Registered
          /\ nodes' = nodes /\ nameOf' = nameOf
      BY <1>3, <2>2 DEF ReplaceConnections
    <3>2. Registered' = Registered
      BY <3>1 DEF Registered
    <3> QED
      BY <3>1, <3>2 DEF StoreConsistent, Typed, TypeOK
  <2> QED
    BY <2>1, <2>2
<1>4. ASSUME NEW p \in Proc, RemoveUser(p)
      PROVE  StoreConsistent'
  <2>1. /\ nameOf' = [nameOf EXCEPT ![req[p].uid] = NoName]
        /\ conns' = [conns EXCEPT ![req[p].uid] = {}]
        /\ nodes' = nodes
    BY <1>4 DEF RemoveUser
  <2>2. Registered' = Registered
    BY <2>1 DEF Registered
  <2> QED
    BY <2>1, <2>2 DEF StoreConsistent, Typed, TypeOK
<1>5. CASE DeleteNode
  <2>1. PICK n \in nodes : /\ \A u \in UserId : At(conns[u], n) = {}
                           /\ nodes' = nodes \ {n}
    BY <1>5 DEF DeleteNode
  <2>2. \A u \in UserId : \A i \in conns[u] : NodeOf[i] # n
    BY <2>1 DEF At
  <2> QED
    BY <1>5, <2>1, <2>2 DEF DeleteNode, store, StoreConsistent, Registered
<1>6. ASSUME NEW p \in Proc, Arrive(p)
      PROVE  UNCHANGED <<nameOf, conns, nodes>>
  BY <1>6, ArriveRequest DEF Begin, store
<1>7. ASSUME NEW p \in Proc, Serve(p),
             ~StoreUser(p), ~ReplaceConnections(p), ~RemoveUser(p)
      PROVE  UNCHANGED <<nameOf, conns, nodes>>
  BY <1>7 DEF Serve, GetUser, GetConnections, Index, GuardPanel, GuardPassed,
              SetDescription, SyncPanel, Unbind, Bind, SyncDone, RemoveClient,
              store
<1>8. ASSUME NEW p \in Proc, CutShort(p) \/ OperatorChange \/ UNCHANGED vars
      PROVE  UNCHANGED <<nameOf, conns, nodes>>
  BY <1>8 DEF CutShort, OperatorChange, vars, store
<1>9. CASE \E p \in Proc : Arrive(p) \/ Serve(p) \/ CutShort(p)
  BY <1>1, <1>2, <1>3, <1>4, <1>6, <1>7, <1>8, <1>9
<1>10. CASE OperatorChange \/ UNCHANGED vars
  BY <1>1, <1>10 DEF OperatorChange, vars, store
<1> QED
  BY <1>5, <1>9, <1>10 DEF Next, Quiet

(* However the requests, the failures and the deletions of nodes interleave, *)
(* nicknames stay unique and connections reference registered inbounds.      *)
THEOREM StoreSafe == Spec => []StoreConsistent
<1>1. Init => Typed /\ StoreConsistent
  BY InitTyped DEF Init, StoreConsistent
<1>2. Typed /\ StoreConsistent /\ [Next]_vars => Typed' /\ StoreConsistent'
  BY StepTyped, StoreStep
<1> QED
  BY <1>1, <1>2, PTL DEF Spec
-----------------------------------------------------------------------------
(* Vetting: where a request got the nodes it calls from.                   *)

(* A create that has not stored its row yet. *)
Unstored(r) == r.op = "create" /\ r.pc \in {"index", "guard", "store"}

(* The row a request writes to is the one it named, or is gone: a row id is *)
(* never used again.                                                        *)
Ids ==
    /\ \A u \in UserId : u > reqs => nameOf[u] = NoName
    /\ \A p \in Proc : Busy(p) =>
          /\ req[p].serial \in 1 .. reqs
          /\ req[p].uid \in 0 .. reqs
          /\ req[p].uid # 0 => nameOf[req[p].uid] \in {req[p].name, NoName}
    /\ \A p, q \in Proc : Busy(p) /\ Busy(q) /\ p # q =>
          req[p].serial # req[q].serial
    /\ \A p \in Proc : Unstored(req[p]) =>
          /\ nameOf[req[p].serial] = NoName
          /\ \A q \in Proc : Busy(q) => req[q].uid # req[p].serial

(* The steps of a request after the guard. *)
PastGuard == {"store", "describe", "sync", "unbind", "bind"}

(* Every inbound and node a request carries was vetted for its nickname: *)
(* the pair is in C, the pairs found free so far.                        *)
VettedRequest(r, C) ==
    r.pc # "idle" =>
        /\ \A i \in r.old : <<NodeOf[i], r.name>> \in C
        /\ r.pc = "guard" => \A i \in r.want :
              NodeOf[i] \in r.todo \/ <<NodeOf[i], r.name>> \in C
        /\ r.pc \in PastGuard => \A i \in r.want : <<NodeOf[i], r.name>> \in C
        /\ r.pc \in {"sync", "unbind", "bind", "remove"} =>
              \A n \in r.todo : <<n, r.name>> \in C
        /\ r.pc \in {"unbind", "bind"} => <<r.at, r.name>> \in C

Vetted ==
    /\ \A u \in UserId : \A i \in conns[u] : <<NodeOf[i], nameOf[u]>> \in cleared
    /\ \A p \in Proc : VettedRequest(req[p], cleared)

(* The inductive invariant. *)
IInv == Typed /\ StoreConsistent /\ Ids /\ Vetted

(* A step of a request that keeps its identity keeps Ids. *)
LEMMA IdsKept ==
    ASSUME Typed, Ids, NEW p \in Proc, UNCHANGED <<nameOf, reqs>>,
           \A q \in Proc : q # p => req'[q] = req[q],
           req'[p].pc # "idle" =>
              /\ req[p].pc # "idle"
              /\ req'[p].serial = req[p].serial
              /\ req'[p].uid = req[p].uid
              /\ req'[p].name = req[p].name
              /\ Unstored(req'[p]) => Unstored(req[p])
    PROVE  Ids'
<1>1. ASSUME NEW q \in Proc, Busy(q)'
      PROVE  /\ Busy(q)
             /\ req'[q].serial = req[q].serial
             /\ req'[q].uid = req[q].uid
             /\ req'[q].name = req[q].name
             /\ Unstored(req'[q]) => Unstored(req[q])
  BY <1>1 DEF Busy
<1>2. ASSUME NEW q \in Proc, Unstored(req'[q])
      PROVE  Busy(q)'
  BY <1>2 DEF Busy, Unstored
<1> QED
  BY <1>1, <1>2 DEF Ids

(* What a request carries stays vetted: no pair is ever un-vetted.         *)
LEMMA VettedGrows ==
    ASSUME NEW r, NEW C, NEW D, C \subseteq D, VettedRequest(r, C)
    PROVE  VettedRequest(r, D)
BY DEF VettedRequest

(* A request that ended carries nothing. *)
LEMMA IdleVetted ==
    ASSUME NEW C PROVE VettedRequest(NoRequest, C)
BY DEF VettedRequest, NoRequest

(* A step of p that leaves the connections alone. *)
LEMMA VettedKept ==
    ASSUME Vetted, NEW p \in Proc, cleared \subseteq cleared', UNCHANGED store,
           \A q \in Proc : q # p => req'[q] = req[q],
           VettedRequest(req'[p], cleared')
    PROVE  Vetted'
<1>1. \A q \in Proc : VettedRequest(req'[q], cleared')
  BY VettedGrows DEF Vetted
<1>2. \A u \in UserId : \A i \in conns'[u] : <<NodeOf[i], nameOf'[u]>> \in cleared'
  BY DEF Vetted, store
<1> QED
  BY <1>1, <1>2 DEF Vetted

(* The nodes of vetted inbounds are vetted. *)
LEMMA NodesVetted ==
    ASSUME NEW S, NEW e, NEW C, \A i \in S : <<NodeOf[i], e>> \in C
    PROVE  /\ \A n \in NodesOf(S) : <<n, e>> \in C
           /\ \A n \in NodesOf(Vless(S)) : <<n, e>> \in C
BY DEF NodesOf, Vless
(* The stored connections of the row a request names are vetted for it. *)
LEMMA RowVetted ==
    ASSUME IInv, NEW p \in Proc, Busy(p), req[p].uid \in UserId
    PROVE  \A i \in conns[req[p].uid] : <<NodeOf[i], req[p].name>> \in cleared
<1>1. nameOf[req[p].uid] \in {req[p].name, NoName}
  BY DEF IInv, Ids, UserId
<1> QED
  BY <1>1 DEF IInv, Vetted, StoreConsistent

(* Arrivals: the serial is new, and so is the row a create will insert. *)
LEMMA ArriveInv ==
    ASSUME IInv, NEW p \in Proc, Arrive(p)
    PROVE  Ids' /\ Vetted'
<1>1. PICK r \in WellFormed :
        /\ Begin(p, r)
        /\ r.name \in Name /\ r.old = {}
        /\ \/ r.op = "create" /\ r.uid = 0 /\ r.pc = "index"
           \/ /\ r.op # "create" /\ r.pc = "get"
              /\ r.uid \in UserId /\ nameOf[r.uid] = r.name
  BY ArriveRequest DEF IInv
<1>2. PICK b \in BOOLEAN : req'[p] = [r EXCEPT !.serial = reqs + 1, !.solo = b]
  BY <1>1, BeginType DEF IInv
<1>3. /\ req'[p].serial = reqs + 1 /\ req'[p].uid = r.uid
      /\ req'[p].name = r.name /\ req'[p].pc = r.pc /\ req'[p].op = r.op
      /\ req'[p].old = {}
  BY <1>1, <1>2 DEF WellFormed, Request
<1>4. ASSUME NEW q \in Proc, q # p
      PROVE  /\ req'[q].serial = req[q].serial /\ req'[q].uid = req[q].uid
             /\ req'[q].name = req[q].name /\ req'[q].pc = req[q].pc
             /\ req'[q].op = req[q].op /\ req'[q].old = req[q].old
             /\ req'[q].want = req[q].want /\ req'[q].todo = req[q].todo
             /\ req'[q].at = req[q].at
  <2>1. PICK x \in BOOLEAN : req'[q] = [req[q] EXCEPT !.solo = x]
    BY <1>1, <1>4, BeginType DEF IInv
  <2>2. req[q] \in Request
    BY DEF IInv, Typed, TypeOK
  <2> QED
    BY <2>1, <2>2 DEF Request
<1>5. /\ reqs' = reqs + 1 /\ reqs \in Nat
      /\ UNCHANGED <<nameOf, conns, cleared>>
      /\ ~Busy(p)
  <2>1. reqs \in 0 .. MaxReqs /\ MaxReqs \in Nat
    BY ConstantsAssumption DEF IInv, Typed, TypeOK
  <2>2. ~Busy(p) /\ UNCHANGED <<nameOf, conns, cleared>> /\ reqs' = reqs + 1
    BY <1>1 DEF Begin, store
  <2> QED
    BY <2>1, <2>2
<1>6. \A u \in UserId : u \in Nat
  BY DEF UserId
<1>7. Ids'
  <2>1. \A u \in UserId : u > reqs' => nameOf'[u] = NoName
    BY <1>5, <1>6 DEF IInv, Ids
  <2>2. r.uid \in UserId => r.uid \in 0 .. reqs
    BY <1>1, <1>5, <1>6, ConstantsAssumption DEF IInv, Ids
  <2>3. \A q \in Proc : q # p => Busy(q)' = Busy(q)
    BY <1>4 DEF Busy
  <2>4. ASSUME NEW q \in Proc, Busy(q)'
        PROVE  /\ req'[q].serial \in 1 .. reqs'
               /\ req'[q].uid \in 0 .. reqs'
               /\ req'[q].uid # 0 => nameOf'[req'[q].uid] \in {req'[q].name, NoName}
               /\ q # p => req'[q].serial <= reqs
               /\ req'[q].uid <= reqs
    <3>1. CASE q = p
      BY <1>1, <1>3, <1>5, <2>2, <3>1
    <3>2. CASE q # p
      <4>1. Busy(q)
        BY <2>3, <2>4, <3>2
      <4>2. /\ req[q].serial \in 1 .. reqs
            /\ req[q].uid \in 0 .. reqs
            /\ req[q].uid # 0 => nameOf[req[q].uid] \in {req[q].name, NoName}
        BY <4>1 DEF IInv, Ids
      <4> QED
        BY <1>4, <1>5, <3>2, <4>2
    <3> QED
      BY <3>1, <3>2
  <2>5. ASSUME NEW q \in Proc, NEW x \in Proc, Busy(q)', Busy(x)', q # x
        PROVE  req'[q].serial # req'[x].serial
    <3>1. CASE q = p \/ x = p
      BY <1>3, <1>5, <2>4, <2>5, <3>1
    <3>2. CASE q # p /\ x # p
      BY <1>4, <2>3, <2>5, <3>2 DEF IInv, Ids
    <3> QED
      BY <3>1, <3>2
  <2>6. ASSUME NEW q \in Proc, NEW x \in Proc, Unstored(req'[q]), Busy(x)'
        PROVE  req'[x].uid # req'[q].serial
    <3>1. CASE q = p
      BY <1>3, <1>5, <2>4, <2>6, <3>1
    <3>2. CASE q # p /\ x # p
      <4>1. Unstored(req[q]) /\ Busy(x)
        BY <1>4, <2>3, <2>6, <3>2 DEF Unstored
      <4> QED
        BY <1>4, <3>2, <4>1 DEF IInv, Ids
    <3>3. CASE q # p /\ x = p
      <4>1. Unstored(req[q]) /\ Busy(q)
        BY <1>4, <2>6, <3>3 DEF Unstored, Busy
      <4>2. /\ req[q].serial \in 1 .. reqs
            /\ nameOf[req[q].serial] = NoName
        BY <4>1 DEF IInv, Ids
      <4>3. r.uid # req[q].serial
        BY <1>1, <4>2, ConstantsAssumption
      <4> QED
        BY <1>3, <1>4, <3>3, <4>3
    <3> QED
      BY <3>1, <3>2, <3>3
  <2>7. ASSUME NEW q \in Proc, Unstored(req'[q])
        PROVE  nameOf'[req'[q].serial] = NoName
    <3>1. CASE q = p
      <4>1. reqs' \in 0 .. MaxReqs
        BY <1>1, BeginType DEF IInv
      <4>2. reqs + 1 \in UserId
        BY <1>5, <4>1, ConstantsAssumption DEF UserId
      <4> QED
        BY <1>3, <1>5, <3>1, <4>2 DEF IInv, Ids
    <3>2. CASE q # p
      <4>1. Unstored(req[q])
        BY <1>4, <2>7, <3>2 DEF Unstored
      <4> QED
        BY <1>4, <1>5, <3>2, <4>1 DEF IInv, Ids
    <3> QED
      BY <3>1, <3>2
  <2> QED
    BY <2>1, <2>4, <2>5, <2>6, <2>7 DEF Ids
<1>8. Vetted'
  <2>1. VettedRequest(req'[p], cleared')
    BY <1>1, <1>3 DEF VettedRequest, PastGuard
  <2>2. \A q \in Proc : q # p => VettedRequest(req'[q], cleared')
    BY <1>4, <1>5 DEF IInv, Vetted, VettedRequest
  <2> QED
    BY <1>5, <2>1, <2>2 DEF IInv, Vetted
<1> QED
  BY <1>7, <1>8

(* What Put does to the requests. *)
LEMMA PutRequest ==
    ASSUME Typed, NEW p \in Proc, NEW s, Put(p, s)
    PROVE  req'[p] = s /\ \A q \in Proc : q # p => req'[q] = req[q]
BY DEF Typed, Put

(* What End does to the requests. *)
LEMMA EndRequest ==
    ASSUME Typed, NEW p \in Proc, End(p)
    PROVE  req'[p] = NoRequest /\ \A q \in Proc : q # p => req'[q] = req[q]
BY PutRequest DEF End

(* A step that keeps the store and the serials: the request is over, or it *)
(* is the same one and still vetted.                                       *)
LEMMA KeptInv ==
    ASSUME IInv, NEW p \in Proc,
           cleared \subseteq cleared', UNCHANGED store, UNCHANGED reqs,
           \A q \in Proc : q # p => req'[q] = req[q],
           \/ req'[p] = NoRequest
           \/ /\ req[p].pc # "idle"
              /\ req'[p].serial = req[p].serial /\ req'[p].uid = req[p].uid
              /\ req'[p].name = req[p].name
              /\ Unstored(req'[p]) => Unstored(req[p])
              /\ VettedRequest(req'[p], cleared')
    PROVE  Ids' /\ Vetted'
<1>1. NoRequest.pc = "idle"
  BY DEF NoRequest
<1>2. UNCHANGED <<nameOf, conns, reqs>>
  BY DEF store
<1>3. Ids'
  BY <1>1, <1>2, IdsKept DEF IInv
<1>4. Vetted'
  BY IdleVetted, VettedKept DEF IInv
<1> QED
  BY <1>3, <1>4

(* Reading the store and guarding. *)
LEMMA ReadInv ==
    ASSUME IInv, NEW p \in Proc,
           \/ GetUser(p) \/ GetConnections(p) \/ Index(p)
           \/ GuardPanel(p) \/ GuardPassed(p) \/ SetDescription(p) \/ SyncDone(p)
    PROVE  Ids' /\ Vetted'
<1> DEFINE r == req[p]
<1>0. /\ Typed /\ r \in WellFormed /\ r \in Request
      /\ VettedRequest(r, cleared)
  BY DEF IInv, Typed, TypeOK, Vetted
<1>a. ASSUME End(p), UNCHANGED store, UNCHANGED reqs, UNCHANGED cleared
      PROVE  Ids' /\ Vetted'
  BY <1>0, <1>a, EndRequest, KeptInv
<1>1. CASE GetUser(p)
  <2>1. CASE Put(p, [r EXCEPT !.pc = "conns"])
    <3>1. req'[p] = [r EXCEPT !.pc = "conns"] /\ r.pc = "get"
      BY <1>0, <1>1, <2>1, PutRequest DEF GetUser
    <3>2. /\ req'[p].serial = r.serial /\ req'[p].uid = r.uid
          /\ req'[p].name = r.name /\ ~Unstored(req'[p])
          /\ VettedRequest(req'[p], cleared)
      BY <1>0, <3>1 DEF Request, Unstored, VettedRequest, PastGuard
    <3> QED
      BY <1>0, <1>1, <2>1, <3>1, <3>2, PutRequest, KeptInv
         DEF GetUser, counts, history
  <2> QED
    BY <1>1, <1>a, <2>1 DEF GetUser, counts, history
<1>2. CASE GetConnections(p)
  <2> DEFINE s == [r EXCEPT !.pc = "index", !.old = conns[r.uid]]
  <2>1. req'[p] = s /\ r.pc = "conns"
    BY <1>0, <1>2, PutRequest DEF GetConnections
  <2>2. r.uid \in UserId
    BY <1>0, <2>1 DEF WellFormed
  <2>3. \A i \in conns[r.uid] : <<NodeOf[i], r.name>> \in cleared
    BY <2>1, <2>2, RowVetted DEF Busy
  <2>4. r.op # "create"
    BY <1>0, <2>1 DEF WellFormed
  <2>5. /\ req'[p].serial = r.serial /\ req'[p].uid = r.uid
        /\ req'[p].name = r.name /\ ~Unstored(req'[p])
        /\ VettedRequest(req'[p], cleared)
    BY <1>0, <2>1, <2>3, <2>4 DEF Request, Unstored, VettedRequest, PastGuard
  <2> QED
    BY <1>0, <1>2, <2>1, <2>5, PutRequest, KeptInv
       DEF GetConnections, counts, history
<1>3. CASE Index(p)
  <2>0. r.pc = "index" /\ UNCHANGED store /\ UNCHANGED reqs /\ UNCHANGED cleared
    BY <1>3 DEF Index, counts, history
  <2>1. CASE Put(p, [r EXCEPT !.pc = "guard", !.byId = nodes,
                              !.todo = AddedNodes(r.old, r.want)])
    <3>1. req'[p] = [r EXCEPT !.pc = "guard", !.byId = nodes,
                              !.todo = AddedNodes(r.old, r.want)]
      BY <1>0, <2>1, PutRequest
    <3>2. /\ req'[p].serial = r.serial /\ req'[p].uid = r.uid
          /\ req'[p].name = r.name /\ req'[p].pc = "guard"
          /\ req'[p].old = r.old /\ req'[p].want = r.want
          /\ req'[p].todo = AddedNodes(r.old, r.want)
          /\ Unstored(req'[p]) => Unstored(r)
      BY <1>0, <2>0, <3>1 DEF Request, Unstored
    <3>3. \A n \in NodesOf(r.old) : <<n, r.name>> \in cleared
      BY <1>0, <2>0, NodesVetted DEF VettedRequest
    <3>4. \A i \in r.want :
             NodeOf[i] \in AddedNodes(r.old, r.want) \/ NodeOf[i] \in NodesOf(r.old)
      BY DEF AddedNodes, NodesOf
    <3>5. VettedRequest(req'[p], cleared)
      BY <1>0, <2>0, <3>2, <3>3, <3>4 DEF VettedRequest, PastGuard
    <3> QED
      BY <1>0, <2>0, <2>1, <3>2, <3>5, PutRequest, KeptInv
  <2>2. CASE Put(p, [r EXCEPT !.pc = "remove", !.byId = nodes,
                              !.todo = NodesOf(r.old) \cap nodes])
    <3>1. req'[p] = [r EXCEPT !.pc = "remove", !.byId = nodes,
                              !.todo = NodesOf(r.old) \cap nodes]
      BY <1>0, <2>2, PutRequest
    <3>2. /\ req'[p].serial = r.serial /\ req'[p].uid = r.uid
          /\ req'[p].name = r.name /\ req'[p].pc = "remove"
          /\ req'[p].old = r.old
          /\ req'[p].todo \subseteq NodesOf(r.old)
          /\ Unstored(req'[p]) => Unstored(r)
      BY <1>0, <2>0, <3>1 DEF Request, Unstored
    <3>3. \A n \in NodesOf(r.old) : <<n, r.name>> \in cleared
      BY <1>0, <2>0, NodesVetted DEF VettedRequest
    <3>5. VettedRequest(req'[p], cleared)
      BY <1>0, <2>0, <3>2, <3>3 DEF VettedRequest, PastGuard
    <3> QED
      BY <1>0, <2>0, <2>2, <3>2, <3>5, PutRequest, KeptInv
  <2>3. CASE Put(p, [r EXCEPT !.pc = "sync", !.byId = nodes, !.want = r.old,
                              !.todo = TouchedNodes(r.old, r.old)])
    <3>1. req'[p] = [r EXCEPT !.pc = "sync", !.byId = nodes, !.want = r.old,
                              !.todo = TouchedNodes(r.old, r.old)]
      BY <1>0, <2>3, PutRequest
    <3>2. /\ req'[p].serial = r.serial /\ req'[p].uid = r.uid
          /\ req'[p].name = r.name /\ req'[p].pc = "sync"
          /\ req'[p].old = r.old /\ req'[p].want = r.old
          /\ req'[p].todo = TouchedNodes(r.old, r.old)
          /\ Unstored(req'[p]) => Unstored(r)
      BY <1>0, <2>0, <3>1 DEF Request, Unstored
    <3>3. \A n \in TouchedNodes(r.old, r.old) : <<n, r.name>> \in cleared
      BY <1>0, <2>0, NodesVetted DEF VettedRequest, TouchedNodes
    <3>5. VettedRequest(req'[p], cleared)
      BY <1>0, <2>0, <3>2, <3>3 DEF VettedRequest, PastGuard
    <3> QED
      BY <1>0, <2>0, <2>3, <3>2, <3>5, PutRequest, KeptInv
  <2> QED
    BY <1>3, <1>a, <2>0, <2>1, <2>2, <2>3 DEF Index
<1>4. CASE GuardPanel(p)
  <2>0. /\ r.pc = "guard" /\ UNCHANGED store /\ UNCHANGED reqs
        /\ cleared \subseteq cleared'
    BY <1>4 DEF GuardPanel
  <2>1. PICK n \in r.todo :
          \/ Pass(p, n) /\ cleared' = cleared \cup {<<n, r.name>>}
          \/ End(p) /\ UNCHANGED cleared
    BY <1>4 DEF GuardPanel
  <2>2. CASE Pass(p, n) /\ cleared' = cleared \cup {<<n, r.name>>}
    <3>1. req'[p] = [r EXCEPT !.todo = @ \ {n}]
      BY <1>0, <2>2, PutRequest DEF Pass
    <3>2. /\ req'[p].serial = r.serial /\ req'[p].uid = r.uid
          /\ req'[p].name = r.name /\ req'[p].pc = "guard"
          /\ req'[p].old = r.old /\ req'[p].want = r.want
          /\ req'[p].todo = r.todo \ {n}
          /\ Unstored(req'[p]) => Unstored(r)
      BY <1>0, <2>0, <3>1 DEF Request, Unstored
    <3>3. VettedRequest(req'[p], cleared')
      BY <1>0, <2>0, <2>2, <3>2 DEF VettedRequest, PastGuard
    <3> QED
      BY <1>0, <2>0, <2>2, <3>2, <3>3, PutRequest, KeptInv DEF Pass
  <2> QED
    BY <1>a, <2>0, <2>1, <2>2
<1>5. CASE GuardPassed(p)
  <2>0. /\ r.pc = "guard" /\ r.todo = {} /\ UNCHANGED store /\ UNCHANGED reqs
        /\ UNCHANGED cleared
    BY <1>5 DEF GuardPassed, counts, history
  <2>1. req'[p] = [r EXCEPT !.pc = "store"]
    BY <1>0, <1>5, PutRequest DEF GuardPassed
  <2>2. /\ req'[p].serial = r.serial /\ req'[p].uid = r.uid
        /\ req'[p].name = r.name /\ req'[p].pc = "store"
        /\ req'[p].old = r.old /\ req'[p].want = r.want
        /\ Unstored(req'[p]) => Unstored(r)
    BY <1>0, <2>0, <2>1 DEF Request, Unstored
  <2>3. VettedRequest(req'[p], cleared)
    BY <1>0, <2>0, <2>2 DEF VettedRequest, PastGuard
  <2> QED
    BY <1>0, <1>5, <2>0, <2>2, <2>3, PutRequest, KeptInv DEF GuardPassed
<1>6. CASE SetDescription(p)
  <2> DEFINE todo == TouchedNodes(r.old, r.want)
  <2>0. /\ r.pc = "describe" /\ UNCHANGED store /\ UNCHANGED reqs
        /\ UNCHANGED cleared
    BY <1>6 DEF SetDescription, counts, history
  <2>1. req'[p] = [r EXCEPT !.pc = "sync", !.todo = todo]
    BY <1>0, <1>6, PutRequest DEF SetDescription
  <2>2. \A n \in todo : <<n, r.name>> \in cleared
    BY <1>0, <2>0, NodesVetted DEF VettedRequest, TouchedNodes, PastGuard
  <2> HIDE DEF todo
  <2>3. /\ req'[p].serial = r.serial /\ req'[p].uid = r.uid
        /\ req'[p].name = r.name /\ req'[p].pc = "sync"
        /\ req'[p].old = r.old /\ req'[p].want = r.want
        /\ req'[p].todo = todo /\ ~Unstored(req'[p])
    BY <1>0, <2>0, <2>1 DEF Request, Unstored
  <2>4. VettedRequest(req'[p], cleared)
    BY <1>0, <2>0, <2>2, <2>3 DEF VettedRequest, PastGuard
  <2> QED
    BY <1>0, <1>6, <2>0, <2>3, <2>4, PutRequest, KeptInv DEF SetDescription
<1>7. CASE SyncDone(p)
  BY <1>7, <1>a DEF SyncDone, counts, history
<1> QED
  BY <1>1, <1>2, <1>3, <1>4, <1>5, <1>6, <1>7

(* The walks over the panels. *)
LEMMA SyncInv ==
    ASSUME IInv, NEW p \in Proc,
           SyncPanel(p) \/ Unbind(p) \/ Bind(p) \/ RemoveClient(p)
    PROVE  Ids' /\ Vetted'
<1> DEFINE r == req[p]
<1>0. /\ Typed /\ r \in WellFormed /\ r \in Request
      /\ VettedRequest(r, cleared)
  BY DEF IInv, Typed, TypeOK, Vetted
<1>1. /\ r.pc \in {"sync", "unbind", "bind", "remove"}
      /\ UNCHANGED store /\ UNCHANGED reqs /\ UNCHANGED cleared
  BY DEF SyncPanel, Unbind, Bind, RemoveClient
<1>2. ASSUME NEW n \in r.todo, r.pc \in {"sync", "remove"}, Pass(p, n)
      PROVE  Ids' /\ Vetted'
  <2>1. req'[p] = [r EXCEPT !.todo = @ \ {n}]
    BY <1>0, <1>2, PutRequest DEF Pass
  <2>2. /\ req'[p].serial = r.serial /\ req'[p].uid = r.uid
        /\ req'[p].name = r.name /\ req'[p].pc = r.pc
        /\ req'[p].old = r.old /\ req'[p].want = r.want
        /\ req'[p].todo = r.todo \ {n} /\ ~Unstored(req'[p])
    BY <1>0, <1>2, <2>1 DEF Request, Unstored
  <2>3. VettedRequest(req'[p], cleared)
    BY <1>0, <1>2, <2>2 DEF VettedRequest, PastGuard
  <2> QED
    BY <1>0, <1>1, <1>2, <2>2, <2>3, PutRequest, KeptInv DEF Pass
<1>3. ASSUME NEW n \in r.todo, r.pc = "sync", Lookup(p, n), ~Pass(p, n)
      PROVE  Ids' /\ Vetted'
  <2> DEFINE pc == IF Owns(p, n) THEN "unbind" ELSE "bind"
             k == IF Owns(p, n) /\ panel[n][r.name] # NoClient
                  THEN panel[n][r.name].uuid ELSE r.serial
  <2>1. /\ pc \in {"unbind", "bind"}
        /\ Put(p, [r EXCEPT !.todo = @ \ {n}, !.at = n, !.pc = pc, !.cid = k])
    BY <1>3 DEF Lookup
  <2> HIDE DEF pc, k
  <2>2. req'[p] = [r EXCEPT !.todo = @ \ {n}, !.at = n, !.pc = pc, !.cid = k]
    BY <1>0, <2>1, PutRequest
  <2>3. /\ req'[p].serial = r.serial /\ req'[p].uid = r.uid
        /\ req'[p].name = r.name /\ req'[p].pc = pc
        /\ req'[p].old = r.old /\ req'[p].want = r.want
        /\ req'[p].todo = r.todo \ {n} /\ req'[p].at = n
        /\ ~Unstored(req'[p])
    BY <1>0, <2>1, <2>2 DEF Request, Unstored
  <2>4. VettedRequest(req'[p], cleared)
    BY <1>0, <1>3, <2>3 DEF VettedRequest, PastGuard
  <2> QED
    BY <1>0, <1>1, <2>1, <2>3, <2>4, PutRequest, KeptInv
<1>4. CASE SyncPanel(p) \/ RemoveClient(p)
  <2>1. /\ r.pc \in {"sync", "remove"}
        /\ \E n \in r.todo : Pass(p, n) \/ (r.pc = "sync" /\ Lookup(p, n))
    BY <1>4 DEF SyncPanel, RemoveClient, DropClient, Unchanged, NodeMissing
  <2> QED
    BY <1>2, <1>3, <2>1
<1>5. CASE Unbind(p)
  <2>1. req'[p] = [r EXCEPT !.pc = "bind"] /\ r.pc = "unbind"
    BY <1>0, <1>5, PutRequest DEF Unbind
  <2>2. /\ req'[p].serial = r.serial /\ req'[p].uid = r.uid
        /\ req'[p].name = r.name /\ req'[p].pc = "bind"
        /\ req'[p].old = r.old /\ req'[p].want = r.want
        /\ req'[p].todo = r.todo /\ req'[p].at = r.at
        /\ ~Unstored(req'[p])
    BY <1>0, <2>1 DEF Request, Unstored
  <2>3. VettedRequest(req'[p], cleared)
    BY <1>0, <2>1, <2>2 DEF VettedRequest, PastGuard
  <2> QED
    BY <1>0, <1>1, <1>5, <2>2, <2>3, PutRequest, KeptInv DEF Unbind
<1>6. CASE Bind(p)
  <2>1. req'[p] = [r EXCEPT !.pc = "sync", !.at = NoNode, !.cid = 0] /\ r.pc = "bind"
    BY <1>0, <1>6, PutRequest DEF Bind
  <2>2. /\ req'[p].serial = r.serial /\ req'[p].uid = r.uid
        /\ req'[p].name = r.name /\ req'[p].pc = "sync"
        /\ req'[p].old = r.old /\ req'[p].want = r.want
        /\ req'[p].todo = r.todo
        /\ ~Unstored(req'[p])
    BY <1>0, <2>1 DEF Request, Unstored
  <2>3. VettedRequest(req'[p], cleared)
    BY <1>0, <2>1, <2>2 DEF VettedRequest, PastGuard
  <2> QED
    BY <1>0, <1>1, <1>6, <2>2, <2>3, PutRequest, KeptInv DEF Bind
<1> QED
  BY <1>4, <1>5, <1>6
(* The statements that write the store. *)
LEMMA WriteInv ==
    ASSUME IInv, NEW p \in Proc,
           StoreUser(p) \/ ReplaceConnections(p) \/ RemoveUser(p)
    PROVE  Ids' /\ Vetted'
<1> DEFINE r == req[p]
<1>0. /\ Typed /\ r \in WellFormed /\ r \in Request
      /\ VettedRequest(r, cleared)
  BY DEF IInv, Typed, TypeOK, Vetted
<1>1. UNCHANGED reqs /\ UNCHANGED cleared
  BY DEF StoreUser, ReplaceConnections, RemoveUser, counts, history
<1>2. ASSUME UNCHANGED store, End(p)
      PROVE  Ids' /\ Vetted'
  BY <1>0, <1>1, <1>2, EndRequest, KeptInv
<1>3. CASE StoreUser(p)
  <2>1. CASE End(p) /\ UNCHANGED store
    BY <1>2, <2>1
  <2>2. CASE ~(End(p) /\ UNCHANGED store)
    <3> DEFINE todo == TouchedNodes({}, r.want)
    <3>1. /\ nameOf' = [nameOf EXCEPT ![r.serial] = r.name]
          /\ conns' = [conns EXCEPT ![r.serial] = r.want]
          /\ Put(p, [r EXCEPT !.pc = "sync", !.uid = r.serial, !.todo = todo])
          /\ r.pc = "store" /\ r.op = "create"
      BY <1>3, <2>2 DEF StoreUser
    <3>2. /\ req'[p] = [r EXCEPT !.pc = "sync", !.uid = r.serial, !.todo = todo]
          /\ \A q \in Proc : q # p => req'[q] = req[q]
      BY <1>0, <3>1, PutRequest
    <3>3. Busy(p) /\ Unstored(r) /\ r.serial \in 1 .. reqs /\ r.serial \in UserId
      <4>1. Busy(p) /\ Unstored(r)
        BY <3>1 DEF Busy, Unstored
      <4>2. r.serial \in 1 .. reqs /\ reqs \in 0 .. MaxReqs
        BY <4>1 DEF IInv, Ids, Typed, TypeOK
      <4> QED
        BY <4>1, <4>2, ConstantsAssumption DEF UserId
    <3>4. \A i \in r.want : <<NodeOf[i], r.name>> \in cleared
      BY <1>0, <3>1 DEF VettedRequest, PastGuard
    <3>5. \A n \in todo : <<n, r.name>> \in cleared
      BY <3>4, NodesVetted DEF TouchedNodes, Vless, NodesOf
    <3> HIDE DEF todo
    <3>6. /\ req'[p].serial = r.serial /\ req'[p].uid = r.serial
          /\ req'[p].name = r.name /\ req'[p].pc = "sync"
          /\ req'[p].old = r.old /\ req'[p].want = r.want
          /\ req'[p].todo = todo /\ ~Unstored(req'[p])
      BY <1>0, <3>2 DEF Request, Unstored
    <3>7. VettedRequest(req'[p], cleared)
      BY <1>0, <3>1, <3>4, <3>5, <3>6 DEF VettedRequest, PastGuard
    <3>8. /\ \A u \in UserId : u # r.serial =>
                nameOf'[u] = nameOf[u] /\ conns'[u] = conns[u]
          /\ nameOf'[r.serial] = r.name /\ conns'[r.serial] = r.want
      BY <1>0, <3>1, <3>3 DEF Typed, TypeOK
    <3>9. Vetted'
      <4>1. \A q \in Proc : VettedRequest(req'[q], cleared')
        BY <1>1, <3>2, <3>7 DEF IInv, Vetted
      <4>2. \A u \in UserId : \A i \in conns'[u] :
               <<NodeOf[i], nameOf'[u]>> \in cleared'
        BY <1>1, <3>3, <3>4, <3>8 DEF IInv, Vetted
      <4> QED
        BY <4>1, <4>2 DEF Vetted
    <3>10. Ids'
      <4>0. reqs \in Nat /\ \A u \in UserId : u \in Nat /\ u # 0
        BY <1>0, ConstantsAssumption DEF Typed, TypeOK, UserId
      <4>1. \A u \in UserId : u > reqs' => nameOf'[u] = NoName
        BY <1>1, <3>3, <3>8, <4>0 DEF IInv, Ids
      <4>2. ASSUME NEW q \in Proc, Busy(q)'
            PROVE  /\ Busy(q) /\ req'[q].serial = req[q].serial
                   /\ req'[q].name = req[q].name
                   /\ Unstored(req'[q]) => q # p /\ req'[q] = req[q]
        BY <3>2, <3>3, <3>6, <4>2 DEF Busy
      <4>3. ASSUME NEW q \in Proc, Busy(q)'
            PROVE  /\ req'[q].serial \in 1 .. reqs'
                   /\ req'[q].uid \in 0 .. reqs'
                   /\ req'[q].uid # 0 =>
                        nameOf'[req'[q].uid] \in {req'[q].name, NoName}
        <5>1. CASE q = p
          BY <1>1, <3>3, <3>6, <3>8, <4>0, <5>1
        <5>2. CASE q # p
          <6>1. /\ Busy(q) /\ req'[q] = req[q]
                /\ req[q].uid # r.serial
            BY <3>2, <3>3, <4>2, <4>3, <5>2 DEF IInv, Ids
          <6>2. /\ req[q].serial \in 1 .. reqs /\ req[q].uid \in 0 .. reqs
                /\ req[q].uid # 0 => nameOf[req[q].uid] \in {req[q].name, NoName}
            BY <6>1 DEF IInv, Ids
          <6>3. req[q].uid # 0 => req[q].uid \in UserId
            BY <1>0, <6>2, ConstantsAssumption DEF Typed, TypeOK, UserId
          <6> QED
            BY <1>1, <3>8, <6>1, <6>2, <6>3
        <5> QED
          BY <5>1, <5>2
      <4>4. ASSUME NEW q \in Proc, NEW x \in Proc, Busy(q)', Busy(x)', q # x
            PROVE  req'[q].serial # req'[x].serial
        BY <4>2, <4>4 DEF IInv, Ids
      <4>5. ASSUME NEW q \in Proc, Unstored(req'[q])
            PROVE  /\ nameOf'[req'[q].serial] = NoName
                   /\ \A x \in Proc : Busy(x)' => req'[x].uid # req'[q].serial
        <5>1. q # p /\ req'[q] = req[q] /\ Busy(q)
          BY <3>2, <3>6, <4>5 DEF Unstored, Busy
        <5>2. req[q].serial # r.serial /\ req[q].serial \in 1 .. reqs
          BY <3>3, <5>1 DEF IInv, Ids
        <5>3. req[q].serial \in UserId
          BY <1>0, <5>2, ConstantsAssumption DEF Typed, TypeOK, UserId
        <5>4. /\ nameOf[req[q].serial] = NoName
              /\ \A x \in Proc : Busy(x) => req[x].uid # req[q].serial
          BY <4>5, <5>1 DEF IInv, Ids
        <5>5. \A x \in Proc : Busy(x)' => req'[x].uid # req[q].serial
          BY <3>2, <3>6, <4>2, <5>2, <5>4
        <5> QED
          BY <3>8, <5>1, <5>2, <5>3, <5>4, <5>5
      <4> QED
        BY <4>1, <4>3, <4>4, <4>5 DEF Ids
    <3> QED
      BY <3>9, <3>10
  <2> QED
    BY <2>1, <2>2
<1>4. CASE ReplaceConnections(p)
  <2>0. UNCHANGED nameOf /\ r.pc = "store" /\ r.op = "edit"
    BY <1>4 DEF ReplaceConnections
  <2>1. CASE End(p) /\ UNCHANGED conns
    BY <1>2, <2>0, <2>1 DEF store
  <2>2. CASE ~(End(p) /\ UNCHANGED conns)
    <3>1. /\ conns' = [conns EXCEPT ![r.uid] = r.want]
          /\ Put(p, [r EXCEPT !.pc = "describe"])
          /\ r.want \ conns[r.uid] # {} => nameOf[r.uid] # NoName
      BY <1>4, <2>2 DEF ReplaceConnections
    <3>2. /\ req'[p] = [r EXCEPT !.pc = "describe"]
          /\ \A q \in Proc : q # p => req'[q] = req[q]
      BY <1>0, <3>1, PutRequest
    <3>3. /\ req'[p].serial = r.serial /\ req'[p].uid = r.uid
          /\ req'[p].name = r.name /\ req'[p].pc = "describe"
          /\ req'[p].old = r.old /\ req'[p].want = r.want
          /\ ~Unstored(req'[p])
      BY <1>0, <3>2 DEF Request, Unstored
    <3>4. VettedRequest(req'[p], cleared)
      BY <1>0, <2>0, <3>3 DEF VettedRequest, PastGuard
    <3>5. Ids'
      BY <1>0, <1>1, <2>0, <3>2, <3>3, IdsKept DEF IInv
    <3>6. r.uid \in UserId /\ nameOf[r.uid] \in {r.name, NoName}
      <4>1. r.uid \in UserId /\ Busy(p)
        BY <1>0, <2>0 DEF WellFormed, Busy
      <4>2. r.uid # 0
        BY <4>1 DEF UserId
      <4> QED
        BY <4>1, <4>2 DEF IInv, Ids
    <3>7. \A i \in r.want : <<NodeOf[i], nameOf[r.uid]>> \in cleared
      <4>1. CASE nameOf[r.uid] = NoName
        <5>1. conns[r.uid] = {} /\ r.want \ conns[r.uid] = {}
          BY <3>1, <3>6, <4>1 DEF IInv, StoreConsistent
        <5> QED
          BY <5>1
      <4>2. CASE nameOf[r.uid] = r.name
        BY <1>0, <2>0, <4>2 DEF VettedRequest, PastGuard
      <4> QED
        BY <3>6, <4>1, <4>2
    <3>8. \A u \in UserId : \A i \in conns'[u] :
             <<NodeOf[i], nameOf'[u]>> \in cleared'
      BY <1>0, <1>1, <2>0, <3>1, <3>6, <3>7 DEF IInv, Vetted, Typed, TypeOK
    <3>9. \A q \in Proc : VettedRequest(req'[q], cleared')
      BY <1>1, <3>2, <3>4 DEF IInv, Vetted
    <3> QED
      BY <3>5, <3>8, <3>9 DEF Vetted
  <2> QED
    BY <2>1, <2>2
<1>5. CASE RemoveUser(p)
  <2>1. /\ nameOf' = [nameOf EXCEPT ![r.uid] = NoName]
        /\ conns' = [conns EXCEPT ![r.uid] = {}]
        /\ req'[p] = NoRequest
        /\ \A q \in Proc : q # p => req'[q] = req[q]
    BY <1>0, <1>5, EndRequest DEF RemoveUser
  <2>2. \A u \in UserId : /\ nameOf'[u] \in {nameOf[u], NoName}
                          /\ conns'[u] = {} \/ (conns'[u] = conns[u]
                                                /\ nameOf'[u] = nameOf[u])
    BY <1>0, <2>1 DEF Typed, TypeOK
  <2>3. Vetted'
    <3>1. \A q \in Proc : VettedRequest(req'[q], cleared')
      BY <1>1, <2>1, IdleVetted DEF IInv, Vetted
    <3>2. \A u \in UserId : \A i \in conns'[u] :
             <<NodeOf[i], nameOf'[u]>> \in cleared'
      BY <1>1, <2>2 DEF IInv, Vetted
    <3> QED
      BY <3>1, <3>2 DEF Vetted
  <2>4. Ids'
    <3>1. ASSUME NEW q \in Proc, Busy(q)' \/ Unstored(req'[q])
          PROVE  q # p /\ req'[q] = req[q] /\ Busy(q)
      BY <2>1, <3>1 DEF Busy, Unstored, NoRequest
    <3>2. ASSUME NEW q \in Proc, Busy(q)
          PROVE  /\ req[q].serial \in UserId
                 /\ req[q].uid # 0 => req[q].uid \in UserId
      <4>1. /\ req[q].serial \in 1 .. reqs /\ req[q].uid \in 0 .. reqs
            /\ reqs \in 0 .. MaxReqs
        BY <1>0, <3>2 DEF IInv, Ids, Typed, TypeOK
      <4> QED
        BY <4>1, ConstantsAssumption DEF UserId
    <3>3. \A u \in UserId : u > reqs' => nameOf'[u] = NoName
      BY <1>1, <2>2 DEF IInv, Ids
    <3>4. ASSUME NEW q \in Proc, Busy(q)'
          PROVE  /\ req'[q].serial \in 1 .. reqs'
                 /\ req'[q].uid \in 0 .. reqs'
                 /\ req'[q].uid # 0 =>
                      nameOf'[req'[q].uid] \in {req'[q].name, NoName}
      <4>1. Busy(q) /\ req'[q] = req[q]
        BY <3>1, <3>4
      <4>2. /\ req[q].serial \in 1 .. reqs /\ req[q].uid \in 0 .. reqs
            /\ req[q].uid # 0 => nameOf[req[q].uid] \in {req[q].name, NoName}
        BY <4>1 DEF IInv, Ids
      <4> QED
        BY <1>1, <2>2, <3>2, <4>1, <4>2
    <3>5. ASSUME NEW q \in Proc, NEW x \in Proc, Busy(q)', Busy(x)', q # x
          PROVE  req'[q].serial # req'[x].serial
      BY <3>1, <3>5 DEF IInv, Ids
    <3>6. ASSUME NEW q \in Proc, Unstored(req'[q])
          PROVE  /\ nameOf'[req'[q].serial] = NoName
                 /\ \A x \in Proc : Busy(x)' => req'[x].uid # req'[q].serial
      <4>1. Busy(q) /\ req'[q] = req[q] /\ req[q].serial \in UserId
        BY <3>1, <3>2, <3>6
      <4>2. nameOf'[req[q].serial] = NoName
        BY <2>2, <3>6, <4>1 DEF IInv, Ids
      <4>3. \A x \in Proc : Busy(x)' => req'[x].uid # req[q].serial
        BY <3>1, <3>6, <4>1 DEF IInv, Ids
      <4> QED
        BY <4>1, <4>2, <4>3
    <3> QED
      BY <3>3, <3>4, <3>5, <3>6 DEF Ids
  <2> QED
    BY <2>3, <2>4
<1> QED
  BY <1>3, <1>4, <1>5

(* What happens around the requests touches no request that goes on. *)
LEMMA OthersInv ==
    ASSUME IInv,
           \/ \E p \in Proc : CutShort(p)
           \/ DeleteNode \/ OperatorChange \/ UNCHANGED vars
    PROVE  Ids' /\ Vetted'
<1>1. ASSUME NEW p \in Proc, CutShort(p)
      PROVE  Ids' /\ Vetted'
  <2>1. End(p) /\ UNCHANGED store /\ UNCHANGED reqs /\ UNCHANGED cleared
    BY <1>1 DEF CutShort
  <2> QED
    BY <2>1, EndRequest, KeptInv DEF IInv
<1>2. ASSUME UNCHANGED <<store, req, reqs, cleared>>
      PROVE  Ids' /\ Vetted'
  BY <1>2 DEF IInv, Ids, Vetted, Busy, store
<1>3. CASE DeleteNode \/ OperatorChange \/ UNCHANGED vars
  BY <1>2, <1>3 DEF DeleteNode, OperatorChange, vars, store, counts, history
<1> QED
  BY <1>1, <1>3

(* The invariant is inductive. *)
LEMMA StepInv ==
    ASSUME IInv, [Next]_vars
    PROVE  IInv'
<1>1. Typed' /\ StoreConsistent'
  BY StepTyped, StoreStep DEF IInv
<1>2. ASSUME NEW p \in Proc, Serve(p)
      PROVE  Ids' /\ Vetted'
  BY <1>2, ReadInv, SyncInv, WriteInv DEF Serve
<1>3. Ids' /\ Vetted'
  BY <1>2, ArriveInv, OthersInv DEF Next, Quiet
<1> QED
  BY <1>1, <1>3 DEF IInv

(* The invariant holds at the start. *)
LEMMA InitInv == Init => IInv
<1> SUFFICES ASSUME Init PROVE IInv
  OBVIOUS
<1>1. Typed
  BY InitTyped
<1>2. StoreConsistent
  BY DEF Init, StoreConsistent
<1>3. \A p \in Proc : req[p] = NoRequest /\ ~Busy(p) /\ ~Unstored(req[p])
  BY DEF Init, Busy, Unstored, NoRequest
<1>4. Ids
  BY <1>3 DEF Init, Ids
<1>5. Vetted
  BY <1>3, IdleVetted DEF Init, Vetted
<1> QED
  BY <1>1, <1>2, <1>4, <1>5 DEF IInv

(* In a state of the invariant a request's call hits a vetted pair only. *)
LEMMA CallVetted ==
    ASSUME IInv, NEW p \in Proc, Serve(p), NEW n \in Node, NEW e \in Name,
           panel'[n][e] # panel[n][e]
    PROVE  <<n, e>> \in cleared
<1> DEFINE r == req[p]
<1>1. VettedRequest(r, cleared) /\ panel \in [Node -> [Name -> Client \cup {NoClient}]]
  BY DEF IInv, Typed, TypeOK, Vetted
<1>2. ASSUME NEW m, NEW c, SetPair(m, r.name, c)
      PROVE  n = m /\ e = r.name
  BY <1>1, <1>2 DEF SetPair
<1>3. CASE SyncPanel(p) \/ RemoveClient(p)
  <2>1. PICK m \in r.todo :
          r.pc \in {"sync", "remove"} /\ \/ UNCHANGED panel
                                         \/ SetPair(m, r.name, NoClient)
    BY <1>3 DEF SyncPanel, RemoveClient, DropClient, DeleteClient, Unchanged,
                Lookup, NodeMissing
  <2> QED
    BY <1>1, <1>2, <2>1 DEF VettedRequest
<1>4. CASE Unbind(p) \/ Bind(p)
  <2>1. /\ r.pc \in {"unbind", "bind"}
        /\ UNCHANGED panel \/ \E c : SetPair(r.at, r.name, c)
    BY <1>4 DEF Unbind, Bind
  <2> QED
    BY <1>1, <1>2, <2>1 DEF VettedRequest
<1>5. CASE ~SyncPanel(p) /\ ~RemoveClient(p) /\ ~Unbind(p) /\ ~Bind(p)
  <2>1. UNCHANGED panel
    BY <1>5 DEF Serve, GetUser, GetConnections, Index, GuardPanel, GuardPassed,
                StoreUser, ReplaceConnections, SetDescription, SyncDone, RemoveUser
  <2> QED
    BY <2>1
<1> QED
  BY <1>3, <1>4, <1>5

(* No request ever changes a client where ensureEmailFree had not found the *)
(* nickname free before: the nickname guard of Create and Edit covers every *)
(* later Edit, Recreate and Delete, under every interleaving and failure.   *)
THEOREM Vetting == Spec => PanelWritesVetted
<1>1. IInv /\ [Next]_vars =>
        [\A p \in Proc : Serve(p) =>
           \A n \in Node, e \in Name :
              panel'[n][e] # panel[n][e] => <<n, e>> \in cleared]_vars
  BY CallVetted
<1>2. Init => IInv
  BY InitInv
<1>3. IInv /\ [Next]_vars => IInv'
  BY StepInv
<1> QED
  BY <1>1, <1>2, <1>3, PTL DEF Spec, PanelWritesVetted

-----------------------------------------------------------------------------
(* Agreement: what a panel shows while a request works on it.              *)

(* Pair <<n, e>> shows the connections S: the panel has client c there and *)
(* its uuid history is b.                                                  *)
Shows(c, b, names, n, e, S) ==
    IF At(Vless(S), n) = {}
    THEN c \in {NoClient, ForeignClient} /\ b = 0
    ELSE /\ c \in Client
         /\ c.inbs = At(Vless(S), n)
         /\ c.sub \in UserId /\ names[c.sub] = e
         /\ c.uuid = b

(* The steps of a request before it changes a row or a panel. *)
Reading == {"get", "conns", "index", "guard", "store"}
(* The steps of a request that walks the panels to re-bind the client. *)
Syncing == {"sync", "unbind", "bind"}

(* The connections a panel shows while r is served: those of the row, H,   *)
(* then the old ones until the walk has been at the panel, then the new.   *)
Shown(r, n, H) ==
    IF r.pc \in Reading THEN H
    ELSE IF r.pc = "describe" \/ n \in r.todo \/ (r.pc = "unbind" /\ n = r.at)
         THEN r.old
    ELSE IF r.pc = "remove" THEN {}
    ELSE r.want

(* The pair on panel n while r works on it.  Between the DelClient and the *)
(* AddClient there may be no client, and the next one takes over the uuid. *)
During(r, c, b, names, n, H) ==
    IF r.pc = "bind" /\ n = r.at
    THEN (c # NoClient => c.uuid = b) /\ b \in {0, r.cid}
    ELSE /\ Shows(c, b, names, n, r.name, Shown(r, n, H))
         /\ r.pc = "unbind" /\ n = r.at =>
              At(Vless(r.old), n) # {} /\ r.cid = c.uuid

(* A request that is alone on its nickname carries what the store has for  *)
(* it, and every panel it is to touch is in its snapshot of the nodes.     *)
OwnRow(r, names, held) ==
    /\ ~Unstored(r) => r.uid \in UserId /\ names[r.uid] = r.name
    /\ Unstored(r) => r.old = {}
    /\ r.op # "create" /\ r.pc \in {"index", "guard", "store", "remove"} =>
          held[r.uid] = r.old
    /\ r.pc \in Syncing \cup {"describe"} => held[r.uid] = r.want
    /\ r.pc = "describe" => r.op = "edit"
    /\ r.op = "recreate" /\ r.pc \in Syncing => r.want = r.old
    /\ r.pc \in {"guard", "store", "describe"} =>
          NodesOf(r.old) \cup NodesOf(r.want) \subseteq r.byId
    /\ r.pc \in Syncing => r.todo \subseteq r.byId
    /\ r.pc \in {"unbind", "bind"} =>
          At(Vless(r.want), r.at) # {} /\ r.at \notin r.todo

(* Requests that overlap on a nickname know it, and its pairs are excused. *)
Alone ==
    /\ \A p \in Proc : ~Busy(p) => req[p].name = NoName
    /\ \A p, q \in Proc :
          p # q /\ Busy(p) /\ Busy(q) /\ req[p].name = req[q].name =>
             ~req[p].solo
    /\ \A p \in Proc : Busy(p) /\ ~req[p].solo => PairsOf(p) \subseteq drift

Own == \A p \in Proc : Busy(p) /\ req[p].solo => OwnRow(req[p], nameOf, conns)

(* Every pair that is not excused shows what the request on its nickname   *)
(* is at, or what the store holds if there is none.                        *)
Agreed ==
    \A n \in Node, e \in Name : <<n, e>> \notin drift =>
        /\ (\A p \in Proc : req[p].name # e) =>
              Shows(panel[n][e], birth[n][e], nameOf, n, e, Holds(e))
        /\ \A p \in Proc : req[p].name = e =>
              During(req[p], panel[n][e], birth[n][e], nameOf, n, Holds(e))

(* The inductive invariant of the agreement. *)
AInv == IInv /\ Alone /\ Own /\ Agreed

(* What is shown is kept while the rows of the nickname are, and depends on *)
(* the vless connections of the panel only.                                 *)
LEMMA ShowsKept ==
    ASSUME NEW c, NEW b, NEW names, NEW later, NEW n, NEW e, NEW S, NEW T,
           Shows(c, b, names, n, e, S),
           \A u \in UserId : names[u] = e => later[u] = e,
           At(Vless(S), n) = At(Vless(T), n)
    PROVE  Shows(c, b, later, n, e, T)
BY DEF Shows

LEMMA DuringKept ==
    ASSUME NEW r, NEW c, NEW b, NEW names, NEW later, NEW n, NEW H,
           During(r, c, b, names, n, H),
           \A u \in UserId : names[u] = r.name => later[u] = r.name
    PROVE  During(r, c, b, later, n, H)
BY ShowsKept DEF During

(* The row a nickname names, if any, is what the nickname holds. *)
LEMMA HoldsRow ==
    ASSUME StoreConsistent, NEW u \in UserId, nameOf[u] # NoName
    PROVE  Holds(nameOf[u]) = conns[u]
<1>1. {v \in UserId : nameOf[v] = nameOf[u]} = {u}
  BY DEF StoreConsistent
<1> QED
  BY <1>1 DEF Holds

LEMMA HoldsNothing ==
    ASSUME NEW e, \A u \in UserId : nameOf[u] # e
    PROVE  Holds(e) = {}
<1>1. {v \in UserId : nameOf[v] = e} = {}
  OBVIOUS
<1> QED
  BY <1>1 DEF Holds

LEMMA HoldsKept ==
    ASSUME NEW e, \A u \in UserId : nameOf[u] = e <=> nameOf'[u] = e,
           \A u \in UserId : nameOf[u] = e => conns'[u] = conns[u]
    PROVE  Holds(e)' = Holds(e)
<1> DEFINE U == {v \in UserId : nameOf[v] = e}
<1>1. U = {v \in UserId : nameOf'[v] = e}
  OBVIOUS
<1>2. {conns'[u] : u \in U} = {conns[u] : u \in U}
  OBVIOUS
<1>3. Holds(e) = UNION {conns[u] : u \in U}
  BY DEF Holds
<1>4. Holds(e)' = UNION {conns'[u] : u \in U}
  BY <1>1 DEF Holds
<1> QED
  BY <1>2, <1>3, <1>4

(* A step of the request of p: it is enough to look at p's own pairs.      *)
LEMMA AgreementKept ==
    ASSUME AInv, NEW p \in Proc, NEW r \in WellFormed, NEW s,
           r = req[p], s = req'[p], r.pc # "idle",
           \A q \in Proc : q # p => req'[q] = req[q],
           s = NoRequest \/ (s.pc # "idle" /\ s.name = r.name /\ s.solo = r.solo),
           \A u \in UserId : nameOf[u] \notin {r.name, NoName} =>
              nameOf'[u] = nameOf[u] /\ conns'[u] = conns[u],
           \A u \in UserId : nameOf[u] \in {r.name, NoName} =>
              nameOf'[u] \in {r.name, NoName},
           \A n \in Node, e \in Name : e # r.name =>
              /\ panel'[n][e] = panel[n][e] /\ birth'[n][e] = birth[n][e]
              /\ <<n, e>> \in drift' <=> <<n, e>> \in drift,
           ~r.solo => drift \subseteq drift',
           r.solo /\ s.pc # "idle" => OwnRow(s, nameOf', conns'),
           r.solo => \A n \in Node : <<n, r.name>> \notin drift' =>
              IF s.pc = "idle"
              THEN Shows(panel'[n][r.name], birth'[n][r.name], nameOf',
                         n, r.name, Holds(r.name)')
              ELSE During(s, panel'[n][r.name], birth'[n][r.name], nameOf',
                          n, Holds(r.name)')
    PROVE  Alone' /\ Own' /\ Agreed'
<1>0. /\ r.name \in Name /\ NoName \notin Name
      /\ NoRequest.pc = "idle" /\ NoRequest.name = NoName
  BY ConstantsAssumption DEF WellFormed, NoRequest
<1>1. \A q \in Proc : Busy(q)' =>
         Busy(q) /\ req'[q].name = req[q].name /\ req'[q].solo = req[q].solo
  BY <1>0 DEF Busy
<1>2. ASSUME NEW q \in Proc, Busy(q), q # p, req[q].solo \/ r.solo
      PROVE  req[q].name # r.name
  BY <1>2 DEF AInv, Alone, Busy
<1>3. Alone'
  <2>1. \A q \in Proc : ~Busy(q)' => req'[q].name = NoName
    BY <1>0 DEF Busy, AInv, Alone
  <2>2. ASSUME NEW q \in Proc, Busy(q)', ~req'[q].solo
        PROVE  PairsOf(q)' \subseteq drift'
    <3>1. Busy(q) /\ ~req[q].solo /\ Node \X {req[q].name} \subseteq drift
      BY <1>1, <2>2 DEF AInv, Alone, PairsOf
    <3>2. PairsOf(q)' = Node \X {req[q].name}
      BY <1>1, <2>2 DEF PairsOf
    <3>3. CASE req[q].name = r.name
      <4>1. ~r.solo
        BY <1>2, <3>1, <3>3
      <4> QED
        BY <3>1, <3>2, <4>1
    <3>4. CASE req[q].name # r.name
      <4>1. req[q].name \in Name
        BY <3>1 DEF Busy, AInv, IInv, Typed, WellFormed
      <4> QED
        BY <3>1, <3>2, <3>4, <4>1
    <3> QED
      BY <3>3, <3>4
  <2>3. \A q, x \in Proc :
          q # x /\ Busy(q)' /\ Busy(x)' /\ req'[q].name = req'[x].name =>
             ~req'[q].solo
    BY <1>1 DEF AInv, Alone
  <2> QED
    BY <2>1, <2>2, <2>3 DEF Alone
<1>4. Own'
  <2> SUFFICES ASSUME NEW q \in Proc, Busy(q)', req'[q].solo
               PROVE  OwnRow(req'[q], nameOf', conns')
    BY DEF Own
  <2>1. CASE q = p
    BY <1>1, <2>1 DEF Busy
  <2>2. CASE q # p
    <3>1. Busy(q) /\ req'[q] = req[q] /\ req[q].name # r.name
      BY <1>1, <1>2, <2>2
    <3>2. OwnRow(req[q], nameOf, conns) /\ req[q].name \in Name
      BY <3>1 DEF Busy, AInv, IInv, Typed, WellFormed, Own
    <3>3. ~Unstored(req[q]) => /\ nameOf'[req[q].uid] = nameOf[req[q].uid]
                               /\ conns'[req[q].uid] = conns[req[q].uid]
      BY <1>0, <3>1, <3>2 DEF OwnRow
    <3> QED
      BY <3>1, <3>2, <3>3 DEF OwnRow, Unstored, Syncing
  <2> QED
    BY <2>1, <2>2
<1>5. Agreed'
  <2> SUFFICES ASSUME NEW n \in Node, NEW e \in Name, <<n, e>> \notin drift'
               PROVE  /\ (\A q \in Proc : req'[q].name # e) =>
                            Shows(panel'[n][e], birth'[n][e], nameOf', n, e, Holds(e)')
                      /\ \A q \in Proc : req'[q].name = e =>
                            During(req'[q], panel'[n][e], birth'[n][e], nameOf',
                                   n, Holds(e)')
    BY DEF Agreed
  <2>1. CASE e = r.name
    <3>1. r.solo
      BY <2>1 DEF AInv, Alone, PairsOf, Busy
    <3>2. \A q \in Proc : q # p => req'[q].name # e
      BY <1>0, <1>2, <2>1, <3>1 DEF AInv, Alone
    <3>3. IF s.pc = "idle"
          THEN Shows(panel'[n][e], birth'[n][e], nameOf', n, e, Holds(e)')
          ELSE During(s, panel'[n][e], birth'[n][e], nameOf', n, Holds(e)')
      BY <2>1, <3>1
    <3>4. CASE s.pc = "idle"
      BY <1>0, <2>1, <3>2, <3>3, <3>4
    <3>5. CASE s.pc # "idle"
      BY <1>0, <2>1, <3>2, <3>3, <3>5
    <3> QED
      BY <3>4, <3>5
  <2>2. CASE e # r.name
    <3>1. /\ panel'[n][e] = panel[n][e] /\ birth'[n][e] = birth[n][e]
          /\ <<n, e>> \notin drift
      BY <2>2
    <3>2. \A u \in UserId : nameOf[u] = e <=> nameOf'[u] = e
      BY <1>0, <2>2
    <3>3. Holds(e)' = Holds(e)
      BY <1>0, <2>2, <3>2, HoldsKept
    <3>4. ASSUME \A q \in Proc : req'[q].name # e
          PROVE  Shows(panel'[n][e], birth'[n][e], nameOf', n, e, Holds(e)')
      <4>1. \A q \in Proc : req[q].name # e
        BY <2>2, <3>4
      <4>2. Shows(panel[n][e], birth[n][e], nameOf, n, e, Holds(e))
        BY <3>1, <4>1 DEF AInv, Agreed
      <4> QED
        BY <3>1, <3>2, <3>3, <4>2, ShowsKept
    <3>5. ASSUME NEW q \in Proc, req'[q].name = e
          PROVE  During(req'[q], panel'[n][e], birth'[n][e], nameOf', n, Holds(e)')
      <4>1. req'[q] = req[q] /\ req[q].name = e
        BY <1>0, <2>2, <3>5
      <4>2. During(req[q], panel[n][e], birth[n][e], nameOf, n, Holds(e))
        BY <3>1, <4>1 DEF AInv, Agreed
      <4> QED
        BY <3>1, <3>2, <3>3, <4>1, <4>2, DuringKept
    <3> QED
      BY <3>4, <3>5
  <2> QED
    BY <2>1, <2>2
<1> QED
  BY <1>3, <1>4, <1>5

(* An arrival: the pairs of a nickname several requests work on are excused. *)
LEMMA ArriveAgreed ==
    ASSUME AInv, NEW p \in Proc, Arrive(p)
    PROVE  Alone' /\ Own' /\ Agreed'
<1>1. PICK r \in WellFormed :
        /\ Begin(p, r)
        /\ r.name \in Name /\ r.old = {}
        /\ \/ r.op = "create" /\ r.uid = 0 /\ r.pc = "index"
           \/ /\ r.op # "create" /\ r.pc = "get"
              /\ r.uid \in UserId /\ nameOf[r.uid] = r.name
  BY ArriveRequest DEF AInv, IInv
<1> DEFINE others == {q \in Proc : Busy(q) /\ req[q].name = r.name}
<1>2. /\ ~Busy(p) /\ UNCHANGED <<nameOf, conns, panel, birth>>
      /\ drift' = IF others = {} THEN drift ELSE drift \cup (Node \X {r.name})
      /\ req' = [q \in Proc |->
                   IF q = p
                   THEN [r EXCEPT !.serial = reqs + 1, !.solo = others = {}]
                   ELSE [req[q] EXCEPT !.solo = @ /\ q \notin others]]
  BY <1>1 DEF Begin, store
<1>3. PICK alone \in BOOLEAN : alone = (others = {})
  OBVIOUS
<1>4. PICK k : k = reqs + 1
  OBVIOUS
<1>5. /\ req'[p] = [r EXCEPT !.serial = k, !.solo = alone]
      /\ \A q \in Proc : q # p =>
            req'[q] = [req[q] EXCEPT !.solo = @ /\ q \notin others]
  BY <1>2, <1>3, <1>4
<1>6. \A q \in Proc : q \in others <=> Busy(q) /\ req[q].name = r.name
  OBVIOUS
<1>7. p \notin others /\ drift \subseteq drift'
      /\ (~alone => Node \X {r.name} \subseteq drift')
      /\ (alone => drift' = drift)
  BY <1>2, <1>3
<1>8. req \in [Proc -> WellFormed]
  BY DEF AInv, IInv, Typed
<1>9. alone => \A q \in Proc : q \notin others
  BY <1>3
<1> HIDE DEF others
<1>10. /\ req'[p].pc = r.pc /\ req'[p].name = r.name /\ req'[p].solo = alone
       /\ req'[p].op = r.op /\ req'[p].uid = r.uid /\ req'[p].old = r.old
  BY <1>5 DEF WellFormed, Request
<1>11. ASSUME NEW q \in Proc, q # p
       PROVE  /\ req'[q].pc = req[q].pc /\ req'[q].name = req[q].name
              /\ req'[q].op = req[q].op /\ req'[q].uid = req[q].uid
              /\ req'[q].old = req[q].old /\ req'[q].want = req[q].want
              /\ req'[q].byId = req[q].byId /\ req'[q].todo = req[q].todo
              /\ req'[q].at = req[q].at /\ req'[q].cid = req[q].cid
              /\ req'[q].solo = (req[q].solo /\ q \notin others)
  <2>1. req[q] \in Request
    BY <1>8 DEF WellFormed
  <2> QED
    BY <1>5, <1>11, <2>1, ZenonT(60) DEF Request
<1>12. Busy(p)' /\ \A q \in Proc : q # p => (Busy(q)' <=> Busy(q))
  BY <1>1, <1>10, <1>11 DEF Busy
<1>13. Alone'
  <2>1. \A q \in Proc : ~Busy(q)' => req'[q].name = NoName
    BY <1>11, <1>12 DEF AInv, Alone
  <2>2. ASSUME NEW q \in Proc, Busy(q)', ~req'[q].solo
        PROVE  PairsOf(q)' \subseteq drift'
    <3>1. PairsOf(q)' = Node \X {req'[q].name}
      BY DEF PairsOf
    <3>2. CASE q = p \/ q \in others
      <4>1. ~alone /\ req'[q].name = r.name
        BY <1>3, <1>6, <1>10, <1>11, <2>2, <3>2
      <4> QED
        BY <1>7, <3>1, <4>1
    <3>3. CASE q # p /\ q \notin others
      <4>1. Busy(q) /\ ~req[q].solo /\ req'[q].name = req[q].name
        BY <1>11, <1>12, <2>2, <3>3
      <4>2. Node \X {req[q].name} \subseteq drift
        BY <4>1 DEF AInv, Alone, PairsOf
      <4> QED
        BY <1>7, <3>1, <4>1, <4>2
    <3> QED
      BY <3>2, <3>3
  <2>3. ASSUME NEW q \in Proc, NEW x \in Proc, q # x, Busy(q)', Busy(x)',
               req'[q].name = req'[x].name
        PROVE  ~req'[q].solo
    <3>1. CASE q = p
      BY <1>6, <1>9, <1>10, <1>11, <1>12, <2>3, <3>1
    <3>2. CASE x = p
      BY <1>6, <1>10, <1>11, <1>12, <2>3, <3>2, ZenonT(60)
    <3>3. CASE q # p /\ x # p
      BY <1>11, <1>12, <2>3, <3>3, ZenonT(60) DEF AInv, Alone
    <3> QED
      BY <3>1, <3>2, <3>3
  <2> QED
    BY <2>1, <2>2, <2>3 DEF Alone
<1>14. Own'
  <2> SUFFICES ASSUME NEW q \in Proc, Busy(q)', req'[q].solo
               PROVE  OwnRow(req'[q], nameOf, conns)
    BY <1>2 DEF Own
  <2>1. CASE q = p
    BY <1>1, <1>10, <2>1 DEF OwnRow, Unstored, Syncing
  <2>2. CASE q # p
    <3>1. OwnRow(req[q], nameOf, conns)
      BY <1>11, <1>12, <2>2 DEF AInv, Own
    <3> QED
      BY <1>11, <2>2, <3>1 DEF OwnRow, Unstored
  <2> QED
    BY <2>1, <2>2
<1>15. Agreed'
  <2> SUFFICES ASSUME NEW n \in Node, NEW e \in Name, <<n, e>> \notin drift'
               PROVE  /\ (\A q \in Proc : req'[q].name # e) =>
                            Shows(panel[n][e], birth[n][e], nameOf, n, e, Holds(e))
                      /\ \A q \in Proc : req'[q].name = e =>
                            During(req'[q], panel[n][e], birth[n][e], nameOf,
                                   n, Holds(e))
    <3>1. \A e : Holds(e)' = Holds(e)
      BY <1>2, HoldsKept
    <3> QED
      BY <1>2, <3>1 DEF Agreed
  <2>1. <<n, e>> \notin drift
    BY <1>7
  <2>2. req[p].name = NoName /\ NoName # e
    BY <1>2, ConstantsAssumption DEF AInv, Alone
  <2>3. ASSUME \A q \in Proc : q # p => req[q].name # e
        PROVE  Shows(panel[n][e], birth[n][e], nameOf, n, e, Holds(e))
    BY <2>1, <2>2, <2>3 DEF AInv, Agreed
  <2>4. (\A q \in Proc : req'[q].name # e) =>
           Shows(panel[n][e], birth[n][e], nameOf, n, e, Holds(e))
    BY <1>11, <2>3
  <2>5. ASSUME NEW q \in Proc, req'[q].name = e
        PROVE  During(req'[q], panel[n][e], birth[n][e], nameOf, n, Holds(e))
    <3>1. CASE q = p
      <4>1. alone
        BY <1>7, <1>10, <2>5, <3>1
      <4>2. \A x \in Proc : x # p => req[x].name # e
        BY <1>6, <1>9, <1>10, <2>2, <2>5, <3>1, <4>1 DEF AInv, Alone
      <4>3. Shows(panel[n][e], birth[n][e], nameOf, n, e, Holds(e))
        BY <2>3, <4>2
      <4> QED
        BY <1>1, <1>10, <2>5, <3>1, <4>3 DEF During, Shown, Reading
    <3>2. CASE q # p
      <4>1. During(req[q], panel[n][e], birth[n][e], nameOf, n, Holds(e))
        BY <1>11, <2>1, <2>5, <3>2 DEF AInv, Agreed
      <4> QED
        BY <1>11, <3>2, <4>1 DEF During, Shown
    <3> QED
      BY <3>1, <3>2
  <2> QED
    BY <2>4, <2>5
<1> QED
  BY <1>13, <1>14, <1>15

(* The nodes of a selection, and what it has on them. *)
LEMMA Placed ==
    ASSUME NEW S, NEW n
    PROVE  /\ NodesOf(Vless(S)) \subseteq NodesOf(S)
           /\ n \notin NodesOf(S) => At(Vless(S), n) = {}
           /\ n \notin NodesOf(Vless(S)) => At(Vless(S), n) = {}
           /\ At(Vless({}), n) = {}
           /\ NodesOf({}) = {}
           /\ S \subseteq Registered => NodesOf(S) \subseteq nodes
BY DEF NodesOf, Vless, At, Registered

(* What a request that is alone on its nickname can rely on. *)
LEMMA AloneFacts ==
    ASSUME AInv, NEW p \in Proc, req[p].pc # "idle", req[p].solo
    PROVE  /\ OwnRow(req[p], nameOf, conns)
           /\ \A n \in Node : <<n, req[p].name>> \notin drift =>
                 During(req[p], panel[n][req[p].name], birth[n][req[p].name],
                        nameOf, n, Holds(req[p].name))
           /\ ~Unstored(req[p]) => Holds(req[p].name) = conns[req[p].uid]
           /\ ~Unstored(req[p]) => nameOf[req[p].uid] # NoName
<1>1. req[p].name \in Name /\ NoName \notin Name
  BY ConstantsAssumption DEF AInv, IInv, Typed, WellFormed
<1>2. OwnRow(req[p], nameOf, conns)
  BY DEF AInv, Own, Busy
<1>3. ~Unstored(req[p]) =>
         req[p].uid \in UserId /\ nameOf[req[p].uid] = req[p].name
  BY <1>2 DEF OwnRow
<1> QED
  BY <1>1, <1>2, <1>3, HoldsRow DEF AInv, IInv, Agreed

(* A step of the request of p that leaves the store and the panels alone. *)
LEMMA QuietKept ==
    ASSUME AInv, NEW p \in Proc, NEW s, s = req'[p], req[p].pc # "idle",
           \A q \in Proc : q # p => req'[q] = req[q],
           \/ s = NoRequest
           \/ s.pc # "idle" /\ s.name = req[p].name /\ s.solo = req[p].solo,
           UNCHANGED <<nameOf, conns, panel, birth, drift>>,
           req[p].solo /\ s.pc # "idle" => OwnRow(s, nameOf, conns),
           req[p].solo => \A n \in Node : \A c, b, H :
              During(req[p], c, b, nameOf, n, H) /\ H = Holds(req[p].name) =>
                 IF s.pc = "idle"
                 THEN Shows(c, b, nameOf, n, req[p].name, H)
                 ELSE During(s, c, b, nameOf, n, H)
    PROVE  Alone' /\ Own' /\ Agreed'
<1>1. PICK r \in WellFormed : r = req[p]
  BY DEF AInv, IInv, Typed
<1>2. Holds(r.name)' = Holds(r.name)
  BY HoldsKept
<1>3. r.solo => \A n \in Node : <<n, r.name>> \notin drift' =>
        IF s.pc = "idle"
        THEN Shows(panel'[n][r.name], birth'[n][r.name], nameOf',
                   n, r.name, Holds(r.name)')
        ELSE During(s, panel'[n][r.name], birth'[n][r.name], nameOf',
                    n, Holds(r.name)')
  BY <1>1, <1>2, AloneFacts
<1> QED
  BY <1>1, <1>3, AgreementKept

(* Reading the store and guarding change nothing a panel shows. *)
LEMMA ReadAgreed ==
    ASSUME AInv, NEW p \in Proc,
           GetUser(p) \/ GetConnections(p) \/ GuardPanel(p) \/ GuardPassed(p)
    PROVE  Alone' /\ Own' /\ Agreed'
<1>1. PICK r \in WellFormed : r = req[p]
  BY DEF AInv, IInv, Typed
<1>2. PICK s : s = req'[p]
  OBVIOUS
<1>3. /\ UNCHANGED <<nameOf, conns, panel, birth, drift>>
      /\ r.pc \in {"get", "conns", "guard"}
  BY <1>1 DEF GetUser, GetConnections, GuardPanel, GuardPassed, store, history
<1>4. Typed
  BY DEF AInv, IInv
<1>5. r.solo => OwnRow(r, nameOf, conns)
  BY <1>1, <1>3, AloneFacts
<1>6. ASSUME s = NoRequest PROVE s.pc = "idle"
  BY <1>6 DEF NoRequest
<1>7. \A n, c, b, H : During(r, c, b, nameOf, n, H) => Shows(c, b, nameOf, n, r.name, H)
  BY <1>3 DEF During, Shown, Reading
<1>8. ASSUME s = NoRequest, \A q \in Proc : q # p => req'[q] = req[q]
      PROVE  Alone' /\ Own' /\ Agreed'
  BY <1>1, <1>2, <1>3, <1>6, <1>7, <1>8, QuietKept
<1>9. ASSUME s.pc \in {"conns", "index", "guard", "store"},
             s.name = r.name, s.solo = r.solo,
             r.solo => OwnRow(s, nameOf, conns),
             \A q \in Proc : q # p => req'[q] = req[q]
      PROVE  Alone' /\ Own' /\ Agreed'
  <2>1. \A n, c, b, H : Shows(c, b, nameOf, n, r.name, H) => During(s, c, b, nameOf, n, H)
    BY <1>9 DEF During, Shown, Reading
  <2> QED
    BY <1>1, <1>2, <1>3, <1>7, <1>9, <2>1, QuietKept
<1>10. CASE GetUser(p)
  <2>1. CASE End(p)
    BY <1>2, <1>4, <1>8, <2>1, EndRequest
  <2>2. CASE Put(p, [r EXCEPT !.pc = "conns"])
    <3>1. s = [r EXCEPT !.pc = "conns"] /\ \A q \in Proc : q # p => req'[q] = req[q]
      BY <1>2, <1>4, <2>2, PutRequest
    <3>2. s.pc = "conns" /\ s.name = r.name /\ s.solo = r.solo
          /\ s.op = r.op /\ s.uid = r.uid
      BY <3>1 DEF WellFormed, Request
    <3>3. r.solo => OwnRow(s, nameOf, conns)
      BY <1>1, <1>5, <1>10, <3>2 DEF OwnRow, Unstored, Syncing, GetUser
    <3> QED
      BY <1>9, <3>1, <3>2, <3>3
  <2> QED
    BY <1>1, <1>10, <2>1, <2>2 DEF GetUser
<1>11. CASE GetConnections(p)
  <2>1. /\ s = [r EXCEPT !.pc = "index", !.old = conns[r.uid]]
        /\ \A q \in Proc : q # p => req'[q] = req[q]
    BY <1>1, <1>2, <1>4, <1>11, PutRequest DEF GetConnections
  <2>2. /\ s.pc = "index" /\ s.name = r.name /\ s.solo = r.solo
        /\ s.op = r.op /\ s.uid = r.uid /\ s.old = conns[r.uid]
    BY <2>1 DEF WellFormed, Request
  <2>3. r.op # "create" /\ r.pc = "conns"
    BY <1>1, <1>11 DEF WellFormed, GetConnections
  <2>4. r.solo => OwnRow(s, nameOf, conns)
    BY <1>5, <2>2, <2>3 DEF OwnRow, Unstored, Syncing
  <2> QED
    BY <1>9, <2>1, <2>2, <2>4
<1>12. CASE GuardPanel(p)
  <2>1. PICK n \in r.todo : Pass(p, n) \/ End(p)
    BY <1>1, <1>12 DEF GuardPanel
  <2>2. CASE Pass(p, n)
    <3>1. /\ s = [r EXCEPT !.todo = @ \ {n}]
          /\ \A q \in Proc : q # p => req'[q] = req[q]
      BY <1>1, <1>2, <1>4, <2>2, PutRequest DEF Pass
    <3>2. /\ s.pc = "guard" /\ s.name = r.name /\ s.solo = r.solo
          /\ s.op = r.op /\ s.uid = r.uid /\ s.old = r.old
          /\ s.want = r.want /\ s.byId = r.byId
      BY <1>1, <1>12, <3>1 DEF WellFormed, Request, GuardPanel
    <3>3. r.pc = "guard"
      BY <1>1, <1>12 DEF GuardPanel
    <3>4. r.solo => OwnRow(s, nameOf, conns)
      BY <1>5, <3>2, <3>3 DEF OwnRow, Unstored, Syncing
    <3> QED
      BY <1>9, <3>1, <3>2, <3>4
  <2> QED
    BY <1>2, <1>4, <1>8, <2>1, <2>2, EndRequest
<1>13. CASE GuardPassed(p)
  <2>1. /\ s = [r EXCEPT !.pc = "store"]
        /\ \A q \in Proc : q # p => req'[q] = req[q]
    BY <1>1, <1>2, <1>4, <1>13, PutRequest DEF GuardPassed
  <2>2. /\ s.pc = "store" /\ s.name = r.name /\ s.solo = r.solo
        /\ s.op = r.op /\ s.uid = r.uid /\ s.old = r.old
        /\ s.want = r.want /\ s.byId = r.byId
    BY <2>1 DEF WellFormed, Request
  <2>3. r.pc = "guard"
    BY <1>1, <1>13 DEF GuardPassed
  <2>4. r.solo => OwnRow(s, nameOf, conns)
    BY <1>5, <2>2, <2>3 DEF OwnRow, Unstored, Syncing
  <2> QED
    BY <1>9, <2>1, <2>2, <2>4
<1> QED
  BY <1>10, <1>11, <1>12, <1>13

(* The node index: the walk that follows covers every panel that is to change. *)
LEMMA IndexAgreed ==
    ASSUME AInv, NEW p \in Proc, Index(p)
    PROVE  Alone' /\ Own' /\ Agreed'
<1>1. PICK r \in WellFormed : r = req[p]
  BY DEF AInv, IInv, Typed
<1>2. PICK s : s = req'[p]
  OBVIOUS
<1>3. /\ UNCHANGED <<nameOf, conns, panel, birth, drift>>
      /\ r.pc = "index" /\ Typed
  BY <1>1 DEF Index, store, history, AInv, IInv
<1>4. /\ r.solo => OwnRow(r, nameOf, conns)
      /\ r.solo /\ r.op # "create" => Holds(r.name) = conns[r.uid]
  BY <1>1, <1>3, AloneFacts DEF Unstored
<1>5. r.solo => NodesOf(r.old) \subseteq nodes
  <2>1. CASE r.op = "create"
    BY <1>3, <1>4, <2>1, Placed DEF OwnRow, Unstored
  <2>2. CASE r.op # "create"
    <3>1. r.solo => r.uid \in UserId /\ r.old = conns[r.uid]
      BY <1>3, <1>4, <2>2 DEF OwnRow, Unstored
    <3>2. \A u \in UserId : conns[u] \subseteq Registered
      BY DEF AInv, IInv, StoreConsistent
    <3> QED
      BY <3>1, <3>2, Placed
  <2> QED
    BY <2>1, <2>2
<1>6. CASE End(p)
  <2>1. s = NoRequest /\ \A q \in Proc : q # p => req'[q] = req[q]
    BY <1>2, <1>3, <1>6, EndRequest
  <2>2. \A n, c, b, H : During(r, c, b, nameOf, n, H) => Shows(c, b, nameOf, n, r.name, H)
    BY <1>3 DEF During, Shown, Reading
  <2>3. s.pc = "idle"
    BY <2>1 DEF NoRequest
  <2> QED
    BY <1>1, <1>2, <1>3, <2>1, <2>2, <2>3, QuietKept
<1>7. CASE /\ r.op \in {"create", "edit"} /\ r.want \subseteq Registered
           /\ Put(p, [r EXCEPT !.pc = "guard", !.byId = nodes,
                               !.todo = AddedNodes(r.old, r.want)])
  <2>1. /\ s = [r EXCEPT !.pc = "guard", !.byId = nodes,
                         !.todo = AddedNodes(r.old, r.want)]
        /\ \A q \in Proc : q # p => req'[q] = req[q]
    BY <1>2, <1>3, <1>7, PutRequest
  <2>2. /\ s.pc = "guard" /\ s.name = r.name /\ s.solo = r.solo
        /\ s.op = r.op /\ s.uid = r.uid /\ s.old = r.old
        /\ s.want = r.want /\ s.byId = nodes
    BY <2>1 DEF WellFormed, Request
  <2>3. NodesOf(r.want) \subseteq nodes
    BY <1>7, Placed
  <2>4. r.solo => OwnRow(s, nameOf, conns)
    BY <1>3, <1>4, <1>5, <2>2, <2>3 DEF OwnRow, Unstored, Syncing
  <2>5. \A n, c, b, H : During(r, c, b, nameOf, n, H) => During(s, c, b, nameOf, n, H)
    BY <1>3, <2>2 DEF During, Shown, Reading
  <2> QED
    BY <1>1, <1>2, <1>3, <2>1, <2>2, <2>4, <2>5, QuietKept, ZenonT(60)
<1>8. CASE /\ r.op = "delete"
           /\ Put(p, [r EXCEPT !.pc = "remove", !.byId = nodes,
                               !.todo = NodesOf(r.old) \cap nodes])
  <2>1. /\ s = [r EXCEPT !.pc = "remove", !.byId = nodes,
                         !.todo = NodesOf(r.old) \cap nodes]
        /\ \A q \in Proc : q # p => req'[q] = req[q]
    BY <1>2, <1>3, <1>8, PutRequest
  <2>2. /\ s.pc = "remove" /\ s.name = r.name /\ s.solo = r.solo
        /\ s.op = r.op /\ s.uid = r.uid /\ s.old = r.old
        /\ s.todo = NodesOf(r.old) \cap nodes
    BY <2>1 DEF WellFormed, Request
  <2>3. r.solo => OwnRow(s, nameOf, conns)
    BY <1>3, <1>4, <1>8, <2>2 DEF OwnRow, Unstored, Syncing
  <2>4. ASSUME r.solo, NEW n \in Node, NEW c, NEW b, NEW H, H = Holds(r.name),
               During(r, c, b, nameOf, n, H)
        PROVE  During(s, c, b, nameOf, n, H)
    <3>1. Shows(c, b, nameOf, n, r.name, r.old)
      BY <1>3, <1>4, <1>8, <2>4 DEF During, Shown, Reading, OwnRow
    <3>2. CASE n \in s.todo
      BY <2>2, <3>1, <3>2 DEF During, Shown, Reading
    <3>3. CASE n \notin s.todo
      <4>1. At(Vless(r.old), n) = {} /\ At(Vless({}), n) = {}
        BY <1>5, <2>2, <2>4, <3>3, Placed
      <4>2. Shows(c, b, nameOf, n, r.name, {})
        BY <3>1, <4>1, ShowsKept
      <4> QED
        BY <2>2, <3>3, <4>2 DEF During, Shown, Reading
    <3> QED
      BY <3>2, <3>3
  <2> QED
    BY <1>1, <1>2, <1>3, <2>1, <2>2, <2>3, <2>4, QuietKept, ZenonT(60)
<1>9. CASE /\ r.op = "recreate"
           /\ Put(p, [r EXCEPT !.pc = "sync", !.byId = nodes, !.want = r.old,
                               !.todo = TouchedNodes(r.old, r.old)])
  <2>1. /\ s = [r EXCEPT !.pc = "sync", !.byId = nodes, !.want = r.old,
                         !.todo = TouchedNodes(r.old, r.old)]
        /\ \A q \in Proc : q # p => req'[q] = req[q]
    BY <1>2, <1>3, <1>9, PutRequest
  <2>2. /\ s.pc = "sync" /\ s.name = r.name /\ s.solo = r.solo
        /\ s.op = r.op /\ s.uid = r.uid /\ s.old = r.old
        /\ s.want = r.old /\ s.byId = nodes
        /\ s.todo = TouchedNodes(r.old, r.old)
    BY <2>1 DEF WellFormed, Request
  <2>3. r.solo => s.todo \subseteq nodes
    BY <1>5, <2>2, Placed DEF TouchedNodes
  <2>4. r.solo => OwnRow(s, nameOf, conns)
    BY <1>3, <1>4, <1>9, <2>2, <2>3 DEF OwnRow, Unstored, Syncing
  <2>5. ASSUME r.solo, NEW n \in Node, NEW c, NEW b, NEW H, H = Holds(r.name),
               During(r, c, b, nameOf, n, H)
        PROVE  During(s, c, b, nameOf, n, H)
    BY <1>3, <1>4, <1>9, <2>2, <2>5 DEF During, Shown, Reading, OwnRow
  <2> QED
    BY <1>1, <1>2, <1>3, <2>1, <2>2, <2>4, <2>5, QuietKept, ZenonT(60)
<1> QED
  BY <1>1, <1>6, <1>7, <1>8, <1>9 DEF Index

(* The steps that lead to the walk over the panels and out of it. *)
LEMMA WalkAgreed ==
    ASSUME AInv, NEW p \in Proc, SetDescription(p) \/ SyncDone(p)
    PROVE  Alone' /\ Own' /\ Agreed'
<1>1. PICK r \in WellFormed : r = req[p]
  BY DEF AInv, IInv, Typed
<1>2. PICK s : s = req'[p]
  OBVIOUS
<1>3. /\ UNCHANGED <<nameOf, conns, panel, birth, drift>>
      /\ r.pc \in {"describe", "sync"} /\ Typed
  BY <1>1 DEF SetDescription, SyncDone, store, history, AInv, IInv
<1>4. r.solo => OwnRow(r, nameOf, conns) /\ Holds(r.name) = conns[r.uid]
  BY <1>1, <1>3, AloneFacts DEF Unstored
<1>5. CASE SetDescription(p)
  <2>1. /\ s = [r EXCEPT !.pc = "sync", !.todo = TouchedNodes(r.old, r.want)]
        /\ \A q \in Proc : q # p => req'[q] = req[q]
        /\ r.pc = "describe"
    BY <1>1, <1>2, <1>3, <1>5, PutRequest DEF SetDescription
  <2>2. /\ s.pc = "sync" /\ s.name = r.name /\ s.solo = r.solo
        /\ s.op = r.op /\ s.uid = r.uid /\ s.old = r.old
        /\ s.want = r.want /\ s.byId = r.byId
        /\ s.todo = TouchedNodes(r.old, r.want)
    BY <2>1 DEF WellFormed, Request
  <2>3. r.solo => s.todo \subseteq r.byId
    BY <1>4, <2>1, <2>2, Placed DEF TouchedNodes, OwnRow
  <2>4. r.solo => OwnRow(s, nameOf, conns)
    BY <1>4, <2>1, <2>2, <2>3 DEF OwnRow, Unstored, Syncing
  <2>5. ASSUME NEW n \in Node, NEW c, NEW b, NEW H, During(r, c, b, nameOf, n, H)
        PROVE  During(s, c, b, nameOf, n, H)
    <3>1. Shows(c, b, nameOf, n, r.name, r.old)
      BY <2>1, <2>5 DEF During, Shown, Reading
    <3>2. CASE n \in s.todo
      BY <2>2, <3>1, <3>2 DEF During, Shown, Reading
    <3>3. CASE n \notin s.todo
      <4>1. At(Vless(r.old), n) = {} /\ At(Vless(r.want), n) = {}
        BY <2>2, <3>3, Placed DEF TouchedNodes
      <4>2. Shows(c, b, nameOf, n, r.name, r.want)
        BY <3>1, <4>1, ShowsKept
      <4> QED
        BY <2>2, <3>3, <4>2 DEF During, Shown, Reading
    <3> QED
      BY <3>2, <3>3
  <2> QED
    BY <1>1, <1>2, <1>3, <2>1, <2>2, <2>4, <2>5, QuietKept, ZenonT(60)
<1>6. CASE SyncDone(p)
  <2>1. /\ s = NoRequest /\ \A q \in Proc : q # p => req'[q] = req[q]
        /\ r.pc = "sync" /\ r.todo = {}
    BY <1>1, <1>2, <1>3, <1>6, EndRequest DEF SyncDone
  <2>2. ASSUME r.solo, NEW n \in Node, NEW c, NEW b, NEW H, H = Holds(r.name),
               During(r, c, b, nameOf, n, H)
        PROVE  Shows(c, b, nameOf, n, r.name, H)
    BY <1>4, <2>1, <2>2 DEF During, Shown, Reading, OwnRow, Syncing
  <2>3. s.pc = "idle"
    BY <2>1 DEF NoRequest
  <2> QED
    BY <1>1, <1>2, <1>3, <2>1, <2>2, <2>3, QuietKept
<1> QED
  BY <1>5, <1>6

(* A step of the request of p that writes rows of its nickname and goes on. *)
LEMMA RowKept ==
    ASSUME AInv, NEW p \in Proc, NEW r \in WellFormed, NEW s,
           r = req[p], s = req'[p], r.pc # "idle", s.pc # "idle",
           s.name = r.name, s.solo = r.solo,
           \A q \in Proc : q # p => req'[q] = req[q],
           UNCHANGED <<panel, birth, drift>>,
           \A u \in UserId :
              /\ nameOf[u] \notin {r.name, NoName} =>
                    nameOf'[u] = nameOf[u] /\ conns'[u] = conns[u]
              /\ nameOf[u] \in {r.name, NoName} => nameOf'[u] \in {r.name, NoName},
           r.solo => OwnRow(s, nameOf', conns'),
           r.solo => \A n \in Node : <<n, r.name>> \notin drift =>
              During(s, panel[n][r.name], birth[n][r.name], nameOf',
                     n, Holds(r.name)')
    PROVE  Alone' /\ Own' /\ Agreed'
<1>1. r.solo => \A n \in Node : <<n, r.name>> \notin drift' =>
        IF s.pc = "idle"
        THEN Shows(panel'[n][r.name], birth'[n][r.name], nameOf',
                   n, r.name, Holds(r.name)')
        ELSE During(s, panel'[n][r.name], birth'[n][r.name], nameOf',
                    n, Holds(r.name)')
  OBVIOUS
<1> QED
  BY <1>1, AgreementKept

(* Writing the store: the walk that follows starts from what the panels show. *)
LEMMA StoreUserAgreed ==
    ASSUME AInv, NEW p \in Proc, StoreUser(p)
    PROVE  Alone' /\ Own' /\ Agreed'
<1>1. PICK r \in WellFormed : r = req[p]
  BY DEF AInv, IInv, Typed
<1>2. PICK s : s = req'[p]
  OBVIOUS
<1>3. /\ UNCHANGED <<panel, birth, drift>>
      /\ r.pc = "store" /\ r.op = "create" /\ Typed
  BY <1>1 DEF StoreUser, history, AInv, IInv
<1>4. r.solo => OwnRow(r, nameOf, conns)
  BY <1>1, <1>3, AloneFacts
<1>5. CASE End(p) /\ UNCHANGED store
  <2>1. s = NoRequest /\ \A q \in Proc : q # p => req'[q] = req[q]
    BY <1>2, <1>3, <1>5, EndRequest
  <2>2. \A n, c, b, H : During(r, c, b, nameOf, n, H) => Shows(c, b, nameOf, n, r.name, H)
    BY <1>3 DEF During, Shown, Reading
  <2>3. s.pc = "idle"
    BY <2>1 DEF NoRequest
  <2> QED
    BY <1>1, <1>2, <1>3, <1>5, <2>1, <2>2, <2>3, QuietKept DEF store
<1>6. CASE /\ ~NameTaken(r.name)
           /\ nameOf' = [nameOf EXCEPT ![r.serial] = r.name]
           /\ conns' = [conns EXCEPT ![r.serial] = r.want]
           /\ Put(p, [r EXCEPT !.pc = "sync", !.uid = r.serial,
                               !.todo = TouchedNodes({}, r.want)])
  <2>1. /\ s = [r EXCEPT !.pc = "sync", !.uid = r.serial,
                         !.todo = TouchedNodes({}, r.want)]
        /\ \A q \in Proc : q # p => req'[q] = req[q]
    BY <1>2, <1>3, <1>6, PutRequest
  <2>2. /\ s.pc = "sync" /\ s.name = r.name /\ s.solo = r.solo
        /\ s.op = r.op /\ s.uid = r.serial /\ s.old = r.old
        /\ s.want = r.want /\ s.byId = r.byId
        /\ s.todo = TouchedNodes({}, r.want)
    BY <2>1 DEF WellFormed, Request
  <2>3. r.serial \in UserId /\ nameOf[r.serial] = NoName
    <3>1. Busy(p) /\ Unstored(r)
      BY <1>1, <1>3 DEF Busy, Unstored
    <3>2. r.serial \in 1 .. reqs /\ reqs \in 0 .. MaxReqs
      BY <1>1, <3>1 DEF AInv, IInv, Ids, Typed, TypeOK
    <3> QED
      BY <1>1, <3>1, <3>2, ConstantsAssumption DEF UserId, AInv, IInv, Ids
  <2>4. /\ \A u \in UserId : u # r.serial =>
              nameOf'[u] = nameOf[u] /\ conns'[u] = conns[u]
        /\ nameOf'[r.serial] = r.name /\ conns'[r.serial] = r.want
    BY <1>3, <1>6, <2>3 DEF Typed, TypeOK
  <2>5. r.solo => s.todo \subseteq r.byId
    BY <1>3, <1>4, <2>2, Placed DEF TouchedNodes, OwnRow, Vless
  <2>6. r.solo => OwnRow(s, nameOf', conns')
    BY <1>3, <1>4, <2>2, <2>3, <2>4, <2>5 DEF OwnRow, Unstored, Syncing
  <2>7. Holds(r.name) = {}
    BY <1>6, HoldsNothing DEF NameTaken
  <2>8. ASSUME r.solo, NEW n \in Node, <<n, r.name>> \notin drift
        PROVE  During(s, panel[n][r.name], birth[n][r.name], nameOf',
                      n, Holds(r.name)')
    <3>1. During(r, panel[n][r.name], birth[n][r.name], nameOf, n, Holds(r.name))
      BY <1>1, <1>3, <2>8, AloneFacts
    <3>2. PICK c : c = panel[n][r.name]
      OBVIOUS
    <3>3. PICK b : b = birth[n][r.name]
      OBVIOUS
    <3>4. Shows(c, b, nameOf, n, r.name, {}) /\ r.old = {}
      BY <1>3, <1>4, <2>7, <2>8, <3>1, <3>2, <3>3
         DEF During, Shown, Reading, OwnRow, Unstored
    <3>5. \A u \in UserId : nameOf[u] = r.name => nameOf'[u] = r.name
      BY <2>4
    <3>6. Shows(c, b, nameOf', n, r.name, r.old)
      BY <3>4, <3>5, ShowsKept
    <3>7. n \notin s.todo => Shows(c, b, nameOf', n, r.name, r.want)
      <4>1. n \notin s.todo => At(Vless(r.want), n) = {} /\ At(Vless({}), n) = {}
        BY <2>2, Placed DEF TouchedNodes
      <4> QED
        BY <3>4, <3>5, <4>1, ShowsKept
    <3>8. During(s, c, b, nameOf', n, Holds(r.name)')
      BY <2>2, <3>6, <3>7 DEF During, Shown, Reading
    <3> QED
      BY <1>3, <3>2, <3>3, <3>8
  <2>9. \A u \in UserId :
          /\ nameOf[u] \notin {r.name, NoName} =>
                nameOf'[u] = nameOf[u] /\ conns'[u] = conns[u]
          /\ nameOf[u] \in {r.name, NoName} => nameOf'[u] \in {r.name, NoName}
    BY <2>3, <2>4
  <2>10. r.pc # "idle" /\ s.pc # "idle"
    BY <1>3, <2>2
  <2> QED
    BY <1>1, <1>2, <1>3, <2>1, <2>2, <2>6, <2>8, <2>9, <2>10, RowKept, ZenonT(60)
<1> QED
  BY <1>1, <1>5, <1>6 DEF StoreUser

LEMMA ReplaceAgreed ==
    ASSUME AInv, NEW p \in Proc, ReplaceConnections(p)
    PROVE  Alone' /\ Own' /\ Agreed'
<1>1. PICK r \in WellFormed : r = req[p]
  BY DEF AInv, IInv, Typed
<1>2. PICK s : s = req'[p]
  OBVIOUS
<1>3. /\ UNCHANGED <<nameOf, panel, birth, drift>>
      /\ r.pc = "store" /\ r.op = "edit" /\ Typed
      /\ r.uid \in UserId
  BY <1>1 DEF ReplaceConnections, history, AInv, IInv, WellFormed
<1>4. r.solo => OwnRow(r, nameOf, conns) /\ Holds(r.name) = conns[r.uid]
  BY <1>1, <1>3, AloneFacts DEF Unstored
<1>5. CASE End(p) /\ UNCHANGED conns
  <2>1. s = NoRequest /\ \A q \in Proc : q # p => req'[q] = req[q]
    BY <1>2, <1>3, <1>5, EndRequest
  <2>2. \A n, c, b, H : During(r, c, b, nameOf, n, H) => Shows(c, b, nameOf, n, r.name, H)
    BY <1>3 DEF During, Shown, Reading
  <2>3. s.pc = "idle"
    BY <2>1 DEF NoRequest
  <2> QED
    BY <1>1, <1>2, <1>3, <1>5, <2>1, <2>2, <2>3, QuietKept
<1>6. CASE /\ conns' = [conns EXCEPT ![r.uid] = r.want]
           /\ Put(p, [r EXCEPT !.pc = "describe"])
  <2>1. /\ s = [r EXCEPT !.pc = "describe"]
        /\ \A q \in Proc : q # p => req'[q] = req[q]
    BY <1>2, <1>3, <1>6, PutRequest
  <2>2. /\ s.pc = "describe" /\ s.name = r.name /\ s.solo = r.solo
        /\ s.op = r.op /\ s.uid = r.uid /\ s.old = r.old
        /\ s.want = r.want /\ s.byId = r.byId
    BY <2>1 DEF WellFormed, Request
  <2>3. /\ \A u \in UserId : u # r.uid => conns'[u] = conns[u]
        /\ conns'[r.uid] = r.want
    BY <1>3, <1>6 DEF Typed, TypeOK
  <2>4. r.solo => OwnRow(s, nameOf', conns')
    BY <1>3, <1>4, <2>2, <2>3 DEF OwnRow, Unstored, Syncing
  <2>5. ASSUME r.solo, NEW n \in Node, <<n, r.name>> \notin drift
        PROVE  During(s, panel[n][r.name], birth[n][r.name], nameOf',
                      n, Holds(r.name)')
    <3>1. During(r, panel[n][r.name], birth[n][r.name], nameOf, n, r.old)
      BY <1>1, <1>3, <1>4, <2>5, AloneFacts DEF OwnRow
    <3> QED
      BY <1>3, <2>2, <3>1 DEF During, Shown, Reading
  <2>6. nameOf[r.uid] \in {r.name, NoName}
    <3>1. Busy(p) /\ r.uid # 0
      BY <1>1, <1>3, ConstantsAssumption DEF Busy, UserId
    <3> QED
      BY <1>1, <3>1 DEF AInv, IInv, Ids
  <2>7. \A u \in UserId :
          /\ nameOf[u] \notin {r.name, NoName} =>
                nameOf'[u] = nameOf[u] /\ conns'[u] = conns[u]
          /\ nameOf[u] \in {r.name, NoName} => nameOf'[u] \in {r.name, NoName}
    BY <1>3, <2>3, <2>6
  <2>8. r.pc # "idle" /\ s.pc # "idle"
    BY <1>3, <2>2
  <2> QED
    BY <1>1, <1>2, <1>3, <2>1, <2>2, <2>4, <2>5, <2>7, <2>8, RowKept
<1> QED
  BY <1>1, <1>5, <1>6 DEF ReplaceConnections

(* The row goes last: by then no panel shows the user any more. *)
LEMMA RemoveUserAgreed ==
    ASSUME AInv, NEW p \in Proc, RemoveUser(p)
    PROVE  Alone' /\ Own' /\ Agreed'
<1>1. PICK r \in WellFormed : r = req[p]
  BY DEF AInv, IInv, Typed
<1>2. PICK s : s = req'[p]
  OBVIOUS
<1>3. /\ UNCHANGED <<panel, birth, drift>>
      /\ nameOf' = [nameOf EXCEPT ![r.uid] = NoName]
      /\ conns' = [conns EXCEPT ![r.uid] = {}]
      /\ r.pc = "remove" /\ r.todo = {} /\ Typed
  BY <1>1 DEF RemoveUser, history, AInv, IInv
<1>4. s = NoRequest /\ \A q \in Proc : q # p => req'[q] = req[q]
  BY <1>2, <1>3, EndRequest DEF RemoveUser
<1>5. s.pc = "idle"
  BY <1>4 DEF NoRequest
<1>6. r.uid \in UserId => nameOf[r.uid] \in {r.name, NoName}
  <2>1. Busy(p) /\ (r.uid \in UserId => r.uid # 0)
    BY <1>1, <1>3, ConstantsAssumption DEF Busy, UserId
  <2> QED
    BY <1>1, <2>1 DEF AInv, IInv, Ids
<1>7. \A u \in UserId : /\ u # r.uid => nameOf'[u] = nameOf[u] /\ conns'[u] = conns[u]
                        /\ u = r.uid => nameOf'[u] = NoName
  BY <1>3 DEF Typed, TypeOK
<1>8. \A u \in UserId :
        /\ nameOf[u] \notin {r.name, NoName} =>
              nameOf'[u] = nameOf[u] /\ conns'[u] = conns[u]
        /\ nameOf[u] \in {r.name, NoName} => nameOf'[u] \in {r.name, NoName}
  BY <1>6, <1>7
<1>9. ASSUME r.solo, NEW n \in Node, <<n, r.name>> \notin drift'
      PROVE  Shows(panel'[n][r.name], birth'[n][r.name], nameOf',
                   n, r.name, Holds(r.name)')
  <2>1. Shows(panel[n][r.name], birth[n][r.name], nameOf, n, r.name, {})
    BY <1>1, <1>3, <1>9, AloneFacts DEF During, Shown, Reading
  <2>2. \A u \in UserId : nameOf'[u] # r.name
    <3>1. r.uid \in UserId /\ nameOf[r.uid] = r.name /\ r.name \in Name
      BY <1>1, <1>3, <1>9, AloneFacts DEF OwnRow, Unstored, WellFormed
    <3>2. \A u \in UserId : u # r.uid => nameOf[u] # r.name
      BY <3>1, ConstantsAssumption DEF AInv, IInv, StoreConsistent
    <3> QED
      BY <1>7, <3>1, <3>2, ConstantsAssumption
  <2>3. Holds(r.name)' = {}
    <3>1. {v \in UserId : nameOf'[v] = r.name} = {}
      BY <2>2
    <3> QED
      BY <3>1 DEF Holds
  <2>4. Shows(panel[n][r.name], birth[n][r.name], nameOf', n, r.name, {})
    BY <2>1, Placed DEF Shows
  <2> QED
    BY <1>3, <2>3, <2>4
<1> QED
  BY <1>1, <1>2, <1>3, <1>4, <1>5, <1>8, <1>9, AgreementKept, ZenonT(60)

(* A call of the request of p, which goes on: only the pair it hits matters. *)
LEMMA CallKept ==
    ASSUME AInv, NEW p \in Proc, NEW r \in WellFormed, NEW s, NEW m \in Node,
           r = req[p], s = req'[p], r.pc # "idle", s.pc # "idle",
           s.name = r.name, s.solo = r.solo,
           \A q \in Proc : q # p => req'[q] = req[q],
           UNCHANGED store,
           \A n \in Node, e \in Name : n # m \/ e # r.name =>
              /\ panel'[n][e] = panel[n][e] /\ birth'[n][e] = birth[n][e]
              /\ <<n, e>> \in drift' <=> <<n, e>> \in drift,
           ~r.solo => drift \subseteq drift',
           r.solo => OwnRow(s, nameOf, conns),
           r.solo => \A n \in Node : \A c, b, H :
              n # m /\ During(r, c, b, nameOf, n, H) =>
                 During(s, c, b, nameOf, n, H),
           r.solo /\ <<m, r.name>> \notin drift' =>
              During(s, panel'[m][r.name], birth'[m][r.name], nameOf,
                     m, Holds(r.name))
    PROVE  Alone' /\ Own' /\ Agreed'
<1>1. UNCHANGED <<nameOf, conns>> /\ Holds(r.name)' = Holds(r.name)
  BY HoldsKept DEF store
<1>2. r.name \in Name
  BY DEF WellFormed
<1>3. ASSUME r.solo, NEW n \in Node, <<n, r.name>> \notin drift'
      PROVE  During(s, panel'[n][r.name], birth'[n][r.name], nameOf',
                    n, Holds(r.name)')
  <2>1. CASE n = m
    BY <1>1, <1>3, <2>1
  <2>2. CASE n # m
    <3>1. /\ panel'[n][r.name] = panel[n][r.name]
          /\ birth'[n][r.name] = birth[n][r.name]
          /\ <<n, r.name>> \notin drift
      BY <1>2, <1>3, <2>2
    <3>2. During(r, panel[n][r.name], birth[n][r.name], nameOf, n, Holds(r.name))
      BY <1>3, <3>1, AloneFacts
    <3> QED
      BY <1>1, <1>3, <2>2, <3>1, <3>2
  <2> QED
    BY <2>1, <2>2
<1>4. r.solo => \A n \in Node : <<n, r.name>> \notin drift' =>
        IF s.pc = "idle"
        THEN Shows(panel'[n][r.name], birth'[n][r.name], nameOf',
                   n, r.name, Holds(r.name)')
        ELSE During(s, panel'[n][r.name], birth'[n][r.name], nameOf',
                    n, Holds(r.name)')
  BY <1>3
<1>5. r.solo => OwnRow(s, nameOf', conns')
  BY <1>1
<1> QED
  BY <1>1, <1>4, <1>5, AgreementKept

(* What a panel call and its account in the histories do to the pairs. *)
LEMMA SetPairHit ==
    ASSUME Typed, NEW m \in Node, NEW x \in Name, NEW c, SetPair(m, x, c)
    PROVE  /\ panel'[m][x] = c
           /\ \A n \in Node, e \in Name : n # m \/ e # x =>
                 panel'[n][e] = panel[n][e]
<1>1. panel \in [Node -> [Name -> Client \cup {NoClient}]]
  BY DEF Typed, TypeOK
<1> QED
  BY <1>1 DEF SetPair

LEMMA SetBirthHit ==
    ASSUME Typed, NEW m \in Node, NEW x \in Name, NEW k, SetBirth(m, x, k)
    PROVE  /\ birth'[m][x] = k
           /\ \A n \in Node, e \in Name : n # m \/ e # x =>
                 birth'[n][e] = birth[n][e]
<1>1. birth \in [Node -> [Name -> 0 .. MaxReqs]]
  BY DEF Typed, TypeOK
<1> QED
  BY <1>1 DEF SetBirth

LEMMA TaintHit ==
    ASSUME NEW m, NEW x, Taint({<<m, x>>})
    PROVE  /\ drift \subseteq drift' /\ <<m, x>> \in drift'
           /\ \A n \in Node, e \in Name : n # m \/ e # x =>
                 (<<n, e>> \in drift' <=> <<n, e>> \in drift)
BY DEF Taint

LEMMA RepairHit ==
    ASSUME NEW p \in Proc, NEW m, Repair(p, m)
    PROVE  /\ ~req[p].solo => drift' = drift
           /\ \A n \in Node, e \in Name : n # m \/ e # req[p].name =>
                 (<<n, e>> \in drift' <=> <<n, e>> \in drift)
BY DEF Repair

(* DelClient: the pair is left with no client, or it is excused. *)
LEMMA DeleteClientHit ==
    ASSUME Typed, NEW p \in Proc, NEW m \in Node, req[p].name \in Name,
           DeleteClient(p, m)
    PROVE  /\ \A n \in Node, e \in Name : n # m \/ e # req[p].name =>
                 /\ panel'[n][e] = panel[n][e] /\ birth'[n][e] = birth[n][e]
                 /\ <<n, e>> \in drift' <=> <<n, e>> \in drift
           /\ ~req[p].solo => drift \subseteq drift'
           /\ <<m, req[p].name>> \notin drift' =>
                 /\ panel'[m][req[p].name] = NoClient
                 /\ birth'[m][req[p].name] = 0
<1>1. PICK x \in Name : x = req[p].name
  OBVIOUS
<1>2. CASE SetPair(m, x, NoClient) /\ SetBirth(m, x, 0) /\ Repair(p, m)
  BY <1>1, <1>2, SetPairHit, SetBirthHit, RepairHit
<1>3. CASE /\ Taint({<<m, x>>}) /\ UNCHANGED birth
           /\ SetPair(m, x, NoClient) \/ UNCHANGED panel
  <2>1. \A n \in Node, e \in Name : n # m \/ e # x => panel'[n][e] = panel[n][e]
    BY <1>3, SetPairHit
  <2> QED
    BY <1>1, <1>3, <2>1, TaintHit
<1> QED
  BY <1>1, <1>2, <1>3 DEF DeleteClient

(* The walks over the panels: a panel comes off the list as it is served. *)
LEMMA DropAgreed ==
    ASSUME AInv, NEW p \in Proc, NEW m \in req[p].todo,
           Pass(p, m), DeleteClient(p, m), UNCHANGED store,
           \/ req[p].pc = "remove"
           \/ req[p].pc = "sync" /\ At(Vless(req[p].want), m) = {}
    PROVE  Alone' /\ Own' /\ Agreed'
<1>1. PICK r \in WellFormed : r = req[p]
  BY DEF AInv, IInv, Typed
<1>2. PICK s : s = req'[p]
  OBVIOUS
<1>3. r.pc \in {"sync", "remove"} /\ Typed
  BY <1>1 DEF AInv, IInv
<1>4. /\ s = [r EXCEPT !.todo = @ \ {m}]
      /\ \A q \in Proc : q # p => req'[q] = req[q]
  BY <1>1, <1>2, <1>3, PutRequest DEF Pass
<1>5. /\ s.pc = r.pc /\ s.name = r.name /\ s.solo = r.solo
      /\ s.op = r.op /\ s.uid = r.uid /\ s.old = r.old
      /\ s.want = r.want /\ s.byId = r.byId /\ s.todo = r.todo \ {m}
  BY <1>4 DEF WellFormed, Request
<1>6. m \in Node /\ r.name \in Name
  BY <1>1, <1>3 DEF WellFormed, Request
<1>7. r.solo => OwnRow(s, nameOf, conns)
  <2>1. r.solo => OwnRow(r, nameOf, conns)
    BY <1>1, <1>3, AloneFacts
  <2> QED
    BY <1>3, <1>5, <2>1 DEF OwnRow, Unstored, Syncing
<1>8. \A n, c, b, H : n # m /\ During(r, c, b, nameOf, n, H) =>
         During(s, c, b, nameOf, n, H)
  BY <1>3, <1>5 DEF During, Shown, Reading
<1>9. ASSUME <<m, r.name>> \notin drift'
      PROVE  During(s, panel'[m][r.name], birth'[m][r.name], nameOf,
                    m, Holds(r.name))
  <2>1. panel'[m][r.name] = NoClient /\ birth'[m][r.name] = 0
    BY <1>1, <1>3, <1>6, <1>9, DeleteClientHit
  <2>2. PICK S : S = Shown(s, m, Holds(r.name))
    OBVIOUS
  <2>3. At(Vless(S), m) = {}
    <3>1. CASE r.pc = "remove"
      BY <1>5, <2>2, <3>1, Placed DEF Shown, Reading
    <3>2. CASE r.pc = "sync"
      BY <1>1, <1>5, <2>2, <3>2 DEF Shown, Reading
    <3> QED
      BY <1>3, <3>1, <3>2
  <2>4. Shows(NoClient, 0, nameOf, m, r.name, S)
    BY <2>3 DEF Shows
  <2> QED
    BY <1>3, <1>5, <2>1, <2>2, <2>4 DEF During
<1>10. /\ \A n \in Node, e \in Name : n # m \/ e # r.name =>
             /\ panel'[n][e] = panel[n][e] /\ birth'[n][e] = birth[n][e]
             /\ <<n, e>> \in drift' <=> <<n, e>> \in drift
       /\ ~r.solo => drift \subseteq drift'
  BY <1>1, <1>3, <1>6, DeleteClientHit
<1>11. r.pc # "idle" /\ s.pc # "idle"
  BY <1>3, <1>5
<1>12. s.name = r.name /\ s.solo = r.solo /\ \A q \in Proc : q # p => req'[q] = req[q]
  BY <1>4, <1>5
<1> QED
  BY <1>1, <1>2, <1>6, <1>7, <1>8, <1>9, <1>10, <1>11, <1>12, CallKept

LEMMA UnchangedAgreed ==
    ASSUME AInv, NEW p \in Proc, NEW m \in req[p].todo, req[p].pc = "sync",
           UNCHANGED store,
           \/ Unchanged(p, m)
           \/ NodeMissing(p, m) /\ m \notin req[p].byId
    PROVE  Alone' /\ Own' /\ Agreed'
<1>1. PICK r \in WellFormed : r = req[p]
  BY DEF AInv, IInv, Typed
<1>2. PICK s : s = req'[p]
  OBVIOUS
<1>3. r.pc = "sync" /\ Typed
  BY <1>1 DEF AInv, IInv
<1>4. /\ s = [r EXCEPT !.todo = @ \ {m}]
      /\ \A q \in Proc : q # p => req'[q] = req[q]
  BY <1>1, <1>2, <1>3, PutRequest DEF Unchanged, NodeMissing, Pass
<1>5. /\ s.pc = r.pc /\ s.name = r.name /\ s.solo = r.solo
      /\ s.op = r.op /\ s.uid = r.uid /\ s.old = r.old
      /\ s.want = r.want /\ s.byId = r.byId /\ s.todo = r.todo \ {m}
  BY <1>4 DEF WellFormed, Request
<1>6. r.solo => OwnRow(r, nameOf, conns)
  BY <1>1, <1>3, AloneFacts
<1>7. r.solo => OwnRow(s, nameOf, conns)
  BY <1>3, <1>5, <1>6 DEF OwnRow, Unstored, Syncing
<1>8. r.solo => At(Vless(r.old), m) = At(Vless(r.want), m)
  BY <1>1, <1>3, <1>6 DEF OwnRow, Syncing, Unchanged
<1>9. ASSUME r.solo, NEW n \in Node, NEW c, NEW b, NEW H, During(r, c, b, nameOf, n, H)
      PROVE  During(s, c, b, nameOf, n, H)
  <2>1. CASE n = m
    <3>1. Shows(c, b, nameOf, n, r.name, r.old)
      BY <1>1, <1>3, <1>9, <2>1 DEF During, Shown, Reading
    <3>2. Shows(c, b, nameOf, n, r.name, r.want)
      BY <1>8, <1>9, <2>1, <3>1, ShowsKept
    <3> QED
      BY <1>3, <1>5, <2>1, <3>2 DEF During, Shown, Reading
  <2>2. CASE n # m
    BY <1>3, <1>5, <1>9, <2>2 DEF During, Shown, Reading
  <2> QED
    BY <2>1, <2>2
<1>10. UNCHANGED <<nameOf, conns, panel, birth, drift>>
  BY DEF store, Unchanged, NodeMissing
<1>11. r.pc # "idle" /\ s.pc # "idle"
  BY <1>3, <1>5
<1> QED
  BY <1>1, <1>2, <1>4, <1>5, <1>7, <1>9, <1>10, <1>11, QuietKept, ZenonT(60)

(* panelLookup: the uuid to carry is the one the panel shows, when the user *)
(* is known to be there.                                                   *)
LEMMA LookupAgreed ==
    ASSUME AInv, NEW p \in Proc, NEW m \in req[p].todo, req[p].pc = "sync",
           UNCHANGED store, Lookup(p, m)
    PROVE  Alone' /\ Own' /\ Agreed'
<1>1. PICK r \in WellFormed : r = req[p]
  BY DEF AInv, IInv, Typed
<1>2. PICK s : s = req'[p]
  OBVIOUS
<1>3. PICK c0 : c0 = panel[m][r.name]
  OBVIOUS
<1>4. PICK b0 : b0 = birth[m][r.name]
  OBVIOUS
<1>5. /\ r.pc = "sync" /\ Typed /\ m \in Node /\ r.name \in Name /\ m \in r.todo
      /\ At(Vless(r.want), m) # {} /\ UNCHANGED <<panel, birth>>
  BY <1>1 DEF AInv, IInv, WellFormed, Request, Lookup
<1>6. r.solo => OwnRow(r, nameOf, conns)
  BY <1>1, <1>5, AloneFacts
<1>7. CASE Taint({<<m, r.name>>}) /\ Pass(p, m)
  <2>1. /\ s = [r EXCEPT !.todo = @ \ {m}]
        /\ \A q \in Proc : q # p => req'[q] = req[q]
    BY <1>1, <1>2, <1>5, <1>7, PutRequest DEF Pass
  <2>2. /\ s.pc = "sync" /\ s.name = r.name /\ s.solo = r.solo
        /\ s.op = r.op /\ s.uid = r.uid /\ s.old = r.old
        /\ s.want = r.want /\ s.byId = r.byId /\ s.todo = r.todo \ {m}
    BY <1>5, <2>1 DEF WellFormed, Request
  <2>3. r.solo => OwnRow(s, nameOf, conns)
    BY <1>5, <1>6, <2>2 DEF OwnRow, Unstored, Syncing
  <2>4. \A n, c, b, H : n # m /\ During(r, c, b, nameOf, n, H) =>
           During(s, c, b, nameOf, n, H)
    BY <1>5, <2>2 DEF During, Shown, Reading
  <2>5. /\ drift \subseteq drift' /\ <<m, r.name>> \in drift'
        /\ \A n \in Node, e \in Name : n # m \/ e # r.name =>
              (<<n, e>> \in drift' <=> <<n, e>> \in drift)
    BY <1>7, TaintHit
  <2>6. r.pc # "idle" /\ s.pc # "idle"
    BY <1>5, <2>2
  <2>7. s.name = r.name /\ s.solo = r.solo /\ \A q \in Proc : q # p => req'[q] = req[q]
    BY <2>1, <2>2
  <2> QED
    BY <1>1, <1>2, <1>5, <2>3, <2>4, <2>5, <2>6, <2>7, CallKept
<1>8. CASE /\ Put(p, [r EXCEPT
                        !.todo = @ \ {m}, !.at = m,
                        !.pc = IF Owns(p, m) THEN "unbind" ELSE "bind",
                        !.cid = IF Owns(p, m) /\ c0 # NoClient
                                THEN c0.uuid ELSE r.serial])
           /\ UNCHANGED drift
  <2>1. PICK k : k = IF Owns(p, m) /\ c0 # NoClient THEN c0.uuid ELSE r.serial
    OBVIOUS
  <2>2. PICK pc \in {"unbind", "bind"} : pc = IF Owns(p, m) THEN "unbind" ELSE "bind"
    OBVIOUS
  <2>3. /\ s = [r EXCEPT !.todo = @ \ {m}, !.at = m, !.pc = pc, !.cid = k]
        /\ \A q \in Proc : q # p => req'[q] = req[q]
    BY <1>2, <1>5, <1>8, <2>1, <2>2, PutRequest
  <2>4. /\ s.pc = pc /\ s.name = r.name /\ s.solo = r.solo
        /\ s.op = r.op /\ s.uid = r.uid /\ s.old = r.old
        /\ s.want = r.want /\ s.byId = r.byId /\ s.todo = r.todo \ {m}
        /\ s.at = m /\ s.cid = k
    BY <2>3 DEF WellFormed, Request
  <2>5. r.solo => OwnRow(s, nameOf, conns)
    BY <1>5, <1>6, <2>2, <2>4 DEF OwnRow, Unstored, Syncing
  <2>6. \A n, c, b, H : n # m /\ During(r, c, b, nameOf, n, H) =>
           During(s, c, b, nameOf, n, H)
    BY <1>5, <2>2, <2>4 DEF During, Shown, Reading
  <2>7. ASSUME r.solo, <<m, r.name>> \notin drift'
        PROVE  During(s, c0, b0, nameOf, m, Holds(r.name))
    <3>1. Shows(c0, b0, nameOf, m, r.name, r.old)
      <4>1. During(r, c0, b0, nameOf, m, Holds(r.name))
        BY <1>1, <1>3, <1>4, <1>5, <1>8, <2>7, AloneFacts
      <4> QED
        BY <1>5, <4>1 DEF During, Shown, Reading
    <3>2. CASE Owns(p, m)
      <4>1. At(Vless(r.old), m) # {}
        BY <1>1, <1>5, <1>6, <2>7, <3>2 DEF Owns, Forced, OwnRow, Syncing
      <4>2. k = c0.uuid
        BY <2>1, <3>1, <3>2, <4>1, ConstantsAssumption DEF Shows
      <4>3. s.pc = "unbind"
        BY <2>2, <2>4, <3>2
      <4> QED
        BY <2>4, <3>1, <4>1, <4>2, <4>3 DEF During, Shown, Reading
    <3>3. CASE ~Owns(p, m)
      <4>1. At(Vless(r.old), m) = {}
        BY <1>1, <3>3 DEF Owns
      <4>2. c0 \in {NoClient, ForeignClient} /\ b0 = 0
        BY <3>1, <4>1 DEF Shows
      <4>3. s.pc = "bind"
        BY <2>2, <2>4, <3>3
      <4> QED
        BY <2>4, <4>2, <4>3 DEF During, ForeignClient
    <3> QED
      BY <3>2, <3>3
  <2>8. r.pc # "idle" /\ s.pc # "idle"
    BY <1>5, <2>2, <2>4
  <2>9. s.name = r.name /\ s.solo = r.solo /\ \A q \in Proc : q # p => req'[q] = req[q]
    BY <2>3, <2>4
  <2>10. r.solo /\ <<m, r.name>> \notin drift' =>
            During(s, panel'[m][r.name], birth'[m][r.name], nameOf,
                   m, Holds(r.name))
    BY <1>3, <1>4, <1>5, <2>7
  <2> QED
    BY <1>1, <1>2, <1>5, <1>8, <2>5, <2>6, <2>8, <2>9, <2>10, CallKept
<1> QED
  BY <1>1, <1>3, <1>7, <1>8 DEF Lookup

(* The DelClient before the re-bind. *)
LEMMA UnbindAgreed ==
    ASSUME AInv, NEW p \in Proc, Unbind(p)
    PROVE  Alone' /\ Own' /\ Agreed'
<1>1. PICK r \in WellFormed : r = req[p]
  BY DEF AInv, IInv, Typed
<1>2. PICK s : s = req'[p]
  OBVIOUS
<1>3. PICK m : m = r.at
  OBVIOUS
<1>4. /\ r.pc = "unbind" /\ Typed /\ m \in Node /\ r.name \in Name
      /\ UNCHANGED birth /\ UNCHANGED store
  BY <1>1, <1>3 DEF AInv, IInv, WellFormed, Request, Unbind
<1>5. /\ s = [r EXCEPT !.pc = "bind"]
      /\ \A q \in Proc : q # p => req'[q] = req[q]
  BY <1>1, <1>2, <1>4, PutRequest DEF Unbind
<1>6. /\ s.pc = "bind" /\ s.name = r.name /\ s.solo = r.solo
      /\ s.op = r.op /\ s.uid = r.uid /\ s.old = r.old
      /\ s.want = r.want /\ s.byId = r.byId /\ s.todo = r.todo
      /\ s.at = m /\ s.cid = r.cid
  BY <1>3, <1>5 DEF WellFormed, Request
<1>7. r.solo => OwnRow(r, nameOf, conns)
  BY <1>1, <1>4, AloneFacts
<1>8. r.solo => OwnRow(s, nameOf, conns)
  BY <1>3, <1>4, <1>6, <1>7 DEF OwnRow, Unstored, Syncing
<1>9. \A n, c, b, H : n # m /\ During(r, c, b, nameOf, n, H) =>
         During(s, c, b, nameOf, n, H)
  BY <1>3, <1>4, <1>6 DEF During, Shown, Reading
<1>10. \/ SetPair(m, r.name, NoClient) /\ UNCHANGED drift
       \/ /\ Taint({<<m, r.name>>})
          /\ SetPair(m, r.name, NoClient) \/ UNCHANGED panel
  BY <1>1, <1>3 DEF Unbind
<1>11. /\ \A n \in Node, e \in Name : n # m \/ e # r.name =>
             panel'[n][e] = panel[n][e]
       /\ panel'[m][r.name] = NoClient \/ <<m, r.name>> \in drift'
  BY <1>4, <1>10, SetPairHit, TaintHit
<1>12. /\ \A n \in Node, e \in Name : n # m \/ e # r.name =>
             (<<n, e>> \in drift' <=> <<n, e>> \in drift)
       /\ drift \subseteq drift'
  BY <1>10, TaintHit
<1>13. ASSUME r.solo, <<m, r.name>> \notin drift'
       PROVE  During(s, panel'[m][r.name], birth'[m][r.name], nameOf,
                     m, Holds(r.name))
  <2>1. During(r, panel[m][r.name], birth[m][r.name], nameOf, m, Holds(r.name))
    BY <1>1, <1>4, <1>12, <1>13, AloneFacts
  <2>2. birth[m][r.name] = r.cid
    BY <1>3, <1>4, <2>1 DEF During, Shown, Reading, Shows
  <2>3. panel'[m][r.name] = NoClient /\ birth'[m][r.name] = r.cid
    BY <1>4, <1>11, <1>13, <2>2
  <2> QED
    BY <1>6, <2>3 DEF During
<1>14. r.pc # "idle" /\ s.pc # "idle"
  BY <1>4, <1>6
<1>15. s.name = r.name /\ s.solo = r.solo /\ \A q \in Proc : q # p => req'[q] = req[q]
  BY <1>5, <1>6
<1> QED
  BY <1>1, <1>2, <1>4, <1>8, <1>9, <1>11, <1>12, <1>13, <1>14, <1>15, CallKept

(* AddClient: the client the panel now has is the one the row calls for. *)
LEMMA BindAgreed ==
    ASSUME AInv, NEW p \in Proc, Bind(p)
    PROVE  Alone' /\ Own' /\ Agreed'
<1>1. PICK r \in WellFormed : r = req[p]
  BY DEF AInv, IInv, Typed
<1>2. PICK s : s = req'[p]
  OBVIOUS
<1>3. PICK m : m = r.at
  OBVIOUS
<1>4. /\ r.pc = "bind" /\ Typed /\ m \in Node /\ r.name \in Name
      /\ UNCHANGED store
  BY <1>1, <1>3 DEF AInv, IInv, WellFormed, Request, Bind
<1>5. /\ s = [r EXCEPT !.pc = "sync", !.at = NoNode, !.cid = 0]
      /\ \A q \in Proc : q # p => req'[q] = req[q]
  BY <1>1, <1>2, <1>4, PutRequest DEF Bind
<1>6. /\ s.pc = "sync" /\ s.name = r.name /\ s.solo = r.solo
      /\ s.op = r.op /\ s.uid = r.uid /\ s.old = r.old
      /\ s.want = r.want /\ s.byId = r.byId /\ s.todo = r.todo
  BY <1>5 DEF WellFormed, Request
<1>7. r.solo => OwnRow(r, nameOf, conns)
  BY <1>1, <1>4, AloneFacts
<1>8. r.solo => OwnRow(s, nameOf, conns)
  BY <1>4, <1>6, <1>7 DEF OwnRow, Unstored, Syncing
<1>9. \A n, c, b, H : n # m /\ During(r, c, b, nameOf, n, H) =>
         During(s, c, b, nameOf, n, H)
  BY <1>3, <1>4, <1>6 DEF During, Shown, Reading
<1>10. PICK client : client = [sub |-> r.uid, uuid |-> r.cid,
                               inbs |-> At(Vless(r.want), m)]
  OBVIOUS
<1>11. PICK afresh \in BOOLEAN :
         afresh = (birth[m][r.name] = 0 \/ <<m, r.name>> \in drift)
  OBVIOUS
<1>12. \/ /\ Taint({<<m, r.name>>}) /\ UNCHANGED birth
          /\ SetPair(m, r.name, client) \/ UNCHANGED panel
       \/ /\ SetPair(m, r.name, client) /\ Repair(p, m)
          /\ IF afresh THEN SetBirth(m, r.name, r.cid) ELSE UNCHANGED birth
  BY <1>1, <1>3, <1>10, <1>11 DEF Bind
<1>13. CASE /\ Taint({<<m, r.name>>}) /\ UNCHANGED birth
            /\ SetPair(m, r.name, client) \/ UNCHANGED panel
  <2>1. \A n \in Node, e \in Name : n # m \/ e # r.name =>
           panel'[n][e] = panel[n][e]
    BY <1>4, <1>13, SetPairHit
  <2>2. /\ drift \subseteq drift' /\ <<m, r.name>> \in drift'
        /\ \A n \in Node, e \in Name : n # m \/ e # r.name =>
              (<<n, e>> \in drift' <=> <<n, e>> \in drift)
    BY <1>13, TaintHit
  <2>3. r.pc # "idle" /\ s.pc # "idle"
    BY <1>4, <1>6
  <2>4. s.name = r.name /\ s.solo = r.solo /\ \A q \in Proc : q # p => req'[q] = req[q]
    BY <1>5, <1>6
  <2> QED
    BY <1>1, <1>2, <1>4, <1>8, <1>9, <1>13, <2>1, <2>2, <2>3, <2>4, CallKept
<1>14. CASE /\ SetPair(m, r.name, client) /\ Repair(p, m)
            /\ IF afresh THEN SetBirth(m, r.name, r.cid) ELSE UNCHANGED birth
  <2>1. /\ panel'[m][r.name] = client
        /\ \A n \in Node, e \in Name : n # m \/ e # r.name =>
              panel'[n][e] = panel[n][e]
    BY <1>4, <1>14, SetPairHit
  <2>2. /\ afresh => birth'[m][r.name] = r.cid
        /\ \A n \in Node, e \in Name : n # m \/ e # r.name =>
              birth'[n][e] = birth[n][e]
    BY <1>4, <1>14, SetBirthHit
  <2>3. /\ ~r.solo => drift' = drift
        /\ \A n \in Node, e \in Name : n # m \/ e # r.name =>
              (<<n, e>> \in drift' <=> <<n, e>> \in drift)
    BY <1>1, <1>14, RepairHit
  <2>4. ASSUME r.solo
        PROVE  During(s, panel'[m][r.name], birth'[m][r.name], nameOf,
                      m, Holds(r.name))
    <3>1. birth'[m][r.name] = r.cid
      <4>1. CASE afresh
        BY <2>2, <4>1
      <4>2. CASE ~afresh
        <5>1. birth[m][r.name] # 0 /\ <<m, r.name>> \notin drift
          BY <1>11, <4>2
        <5>2. During(r, panel[m][r.name], birth[m][r.name], nameOf, m, Holds(r.name))
          BY <1>1, <1>4, <2>4, <5>1, AloneFacts
        <5>3. birth[m][r.name] = r.cid
          BY <1>3, <1>4, <5>1, <5>2 DEF During
        <5> QED
          BY <1>14, <4>2, <5>3
      <4> QED
        BY <4>1, <4>2
    <3>2. /\ r.uid \in UserId /\ nameOf[r.uid] = r.name
          /\ At(Vless(r.want), m) # {} /\ m \notin r.todo
      BY <1>3, <1>4, <1>7, <2>4 DEF OwnRow, Unstored
    <3>3. client \in Client
      <4>1. /\ r.uid \in 0 .. MaxReqs /\ r.cid \in 0 .. MaxReqs
            /\ At(Vless(r.want), m) \in SUBSET Inbound
        BY DEF WellFormed, Request, At, Vless
      <4> QED
        BY <1>10, <4>1 DEF Client
    <3>4. client.sub = r.uid /\ client.uuid = r.cid /\ client.inbs = At(Vless(r.want), m)
      BY <1>10
    <3>5. Shows(client, r.cid, nameOf, m, r.name, r.want)
      BY <3>2, <3>3, <3>4 DEF Shows
    <3>6. Shown(s, m, Holds(r.name)) = r.want
      BY <1>6, <3>2 DEF Shown, Reading
    <3> QED
      BY <1>6, <2>1, <3>1, <3>5, <3>6 DEF During
  <2>5. r.pc # "idle" /\ s.pc # "idle"
    BY <1>4, <1>6
  <2>6. s.name = r.name /\ s.solo = r.solo /\ \A q \in Proc : q # p => req'[q] = req[q]
    BY <1>5, <1>6
  <2>7. /\ ~r.solo => drift \subseteq drift'
        /\ \A n \in Node, e \in Name : n # m \/ e # r.name =>
              /\ panel'[n][e] = panel[n][e] /\ birth'[n][e] = birth[n][e]
              /\ <<n, e>> \in drift' <=> <<n, e>> \in drift
    BY <2>1, <2>2, <2>3
  <2>8. r.solo /\ <<m, r.name>> \notin drift' =>
           During(s, panel'[m][r.name], birth'[m][r.name], nameOf,
                  m, Holds(r.name))
    BY <2>4
  <2> QED
    BY <1>1, <1>2, <1>4, <1>8, <1>9, <2>5, <2>6, <2>7, <2>8, CallKept
<1> QED
  BY <1>12, <1>13, <1>14

(* Cutting a request short, and what others do to nodes and panels. *)
LEMMA CutAgreed ==
    ASSUME AInv, NEW p \in Proc, CutShort(p)
    PROVE  Alone' /\ Own' /\ Agreed'
<1>1. PICK r \in WellFormed : r = req[p]
  BY DEF AInv, IInv, Typed
<1>2. PICK s : s = req'[p]
  OBVIOUS
<1>3. /\ r.pc # "idle" /\ Typed /\ r.name \in Name
      /\ UNCHANGED <<nameOf, conns, panel, birth>>
  BY <1>1 DEF CutShort, Busy, store, AInv, IInv, WellFormed
<1>4. s = NoRequest /\ \A q \in Proc : q # p => req'[q] = req[q]
  BY <1>2, <1>3, EndRequest DEF CutShort
<1>5. s.pc = "idle"
  BY <1>4 DEF NoRequest
<1>6. /\ drift \subseteq drift'
      /\ \A n \in Node, e \in Name : e # r.name =>
            (<<n, e>> \in drift' <=> <<n, e>> \in drift)
      /\ \/ \A n \in Node : <<n, r.name>> \in drift'
         \/ r.pc \in Reading
  BY <1>1, <1>3 DEF CutShort, Taint, PairsOf, WellFormed, Request, Places, Reading
<1>7. Holds(r.name)' = Holds(r.name)
  BY <1>3, HoldsKept
<1>8. ASSUME r.solo, NEW n \in Node, <<n, r.name>> \notin drift'
      PROVE  Shows(panel'[n][r.name], birth'[n][r.name], nameOf',
                   n, r.name, Holds(r.name)')
  <2>1. /\ During(r, panel[n][r.name], birth[n][r.name], nameOf, n, Holds(r.name))
        /\ r.pc \in Reading
    BY <1>1, <1>3, <1>6, <1>8, AloneFacts
  <2> QED
    BY <1>3, <1>7, <2>1 DEF During, Shown, Reading
<1>9. r.solo => \A n \in Node : <<n, r.name>> \notin drift' =>
        IF s.pc = "idle"
        THEN Shows(panel'[n][r.name], birth'[n][r.name], nameOf',
                   n, r.name, Holds(r.name)')
        ELSE During(s, panel'[n][r.name], birth'[n][r.name], nameOf',
                    n, Holds(r.name)')
  BY <1>5, <1>8
<1> QED
  BY <1>1, <1>2, <1>3, <1>4, <1>5, <1>6, <1>9, AgreementKept, ZenonT(60)

LEMMA AroundAgreed ==
    ASSUME AInv, DeleteNode \/ OperatorChange \/ UNCHANGED vars
    PROVE  Alone' /\ Own' /\ Agreed'
<1>1. UNCHANGED <<nameOf, conns, req, birth>> /\ drift \subseteq drift'
  BY DEF DeleteNode, OperatorChange, vars, store, history, Taint
<1>2. \A n \in Node, e \in Name : <<n, e>> \notin drift' => panel'[n][e] = panel[n][e]
  <2>1. CASE OperatorChange
    <3>1. PICK m \in Node, x \in Name, c \in {NoClient, ForeignClient} :
            SetPair(m, x, c) /\ Taint({<<m, x>>})
      BY <2>1 DEF OperatorChange
    <3>2. \A n \in Node, e \in Name : n # m \/ e # x => panel'[n][e] = panel[n][e]
      BY <3>1, SetPairHit DEF AInv, IInv
    <3>3. <<m, x>> \in drift'
      BY <3>1, TaintHit
    <3> QED
      BY <3>2, <3>3
  <2>2. CASE DeleteNode \/ UNCHANGED vars
    BY <2>2 DEF DeleteNode, vars
  <2> QED
    BY <2>1, <2>2
<1>3. Alone'
  BY <1>1 DEF AInv, Alone, Busy, PairsOf
<1>4. Own'
  BY <1>1 DEF AInv, Own, Busy
<1>5. Agreed'
  <2>1. \A e : Holds(e)' = Holds(e)
    BY <1>1, HoldsKept
  <2> SUFFICES ASSUME NEW n \in Node, NEW e \in Name, <<n, e>> \notin drift'
               PROVE  /\ (\A q \in Proc : req[q].name # e) =>
                            Shows(panel[n][e], birth[n][e], nameOf, n, e, Holds(e))
                      /\ \A q \in Proc : req[q].name = e =>
                            During(req[q], panel[n][e], birth[n][e], nameOf,
                                   n, Holds(e))
    BY <1>1, <1>2, <2>1 DEF Agreed
  <2> QED
    BY <1>1 DEF AInv, Agreed
<1> QED
  BY <1>3, <1>4, <1>5

(* The strengthened invariant is inductive. *)
LEMMA AgreementStep ==
    ASSUME AInv, [Next]_vars
    PROVE  AInv'
<1>1. IInv'
  BY StepInv DEF AInv
<1>2. ASSUME NEW p \in Proc, SyncPanel(p) \/ RemoveClient(p)
      PROVE  Alone' /\ Own' /\ Agreed'
  <2>1. CASE SyncPanel(p)
    <3>1. PICK m \in req[p].todo :
            IF m \in req[p].byId
            THEN DropClient(p, m) \/ Unchanged(p, m) \/ Lookup(p, m)
            ELSE NodeMissing(p, m)
      BY <2>1 DEF SyncPanel
    <3>2. req[p].pc = "sync" /\ UNCHANGED store
      BY <2>1 DEF SyncPanel
    <3>3. CASE DropClient(p, m)
      BY <3>2, <3>3, DropAgreed DEF DropClient
    <3>4. CASE Lookup(p, m)
      BY <3>2, <3>4, LookupAgreed
    <3> QED
      BY <3>1, <3>2, <3>3, <3>4, UnchangedAgreed
  <2>2. CASE RemoveClient(p)
    BY <2>2, DropAgreed DEF RemoveClient
  <2> QED
    BY <1>2, <2>1, <2>2
<1>3. ASSUME NEW p \in Proc, Serve(p)
      PROVE  Alone' /\ Own' /\ Agreed'
  BY <1>2, <1>3, ReadAgreed, IndexAgreed, WalkAgreed, StoreUserAgreed,
     ReplaceAgreed, RemoveUserAgreed, UnbindAgreed, BindAgreed DEF Serve
<1>4. Alone' /\ Own' /\ Agreed'
  <2>1. CASE Next
    BY <1>3, <2>1, ArriveAgreed, CutAgreed, AroundAgreed DEF Next, Quiet
  <2>2. CASE UNCHANGED vars
    BY <2>2, AroundAgreed
  <2> QED
    BY <2>1, <2>2
<1> QED
  BY <1>1, <1>4 DEF AInv

(* It holds at the start: only foreign clients are on the panels. *)
LEMMA AgreementInit == Init => AInv
<1> SUFFICES ASSUME Init PROVE AInv
  OBVIOUS
<1>1. IInv
  BY InitInv
<1>2. \A p \in Proc : req[p] = NoRequest /\ ~Busy(p) /\ req[p].name = NoName
  BY DEF Init, Busy, NoRequest
<1>3. Alone /\ Own
  BY <1>2 DEF Alone, Own
<1>4. ASSUME NEW n \in Node, NEW e \in Name
      PROVE  /\ \A p \in Proc : req[p].name # e
             /\ Shows(panel[n][e], birth[n][e], nameOf, n, e, Holds(e))
  <2>1. \A u \in UserId : nameOf[u] # e
    BY ConstantsAssumption DEF Init
  <2>2. Holds(e) = {} /\ At(Vless({}), n) = {}
    BY <2>1, HoldsNothing, Placed
  <2>3. panel[n][e] \in {NoClient, ForeignClient} /\ birth[n][e] = 0
    BY DEF Init
  <2> QED
    BY <1>2, <2>2, <2>3, ConstantsAssumption DEF Shows
<1>5. Agreed
  BY <1>4 DEF Agreed
<1> QED
  BY <1>1, <1>3, <1>5 DEF AInv

-----------------------------------------------------------------------------
(* The clients subgen binds.                                               *)

(* A client carries the id of a user of its own nickname, or of one that   *)
(* is gone, and is bound to inbounds the panel serves.                     *)
ClientsOwn ==
    \A n \in Node, e \in Name : panel[n][e] # NoClient =>
        LET c == panel[n][e]
        IN  /\ c.inbs \subseteq OnPanel
            /\ c.sub \in 0 .. reqs
            /\ c.sub # 0 => nameOf[c.sub] \in {e, NoName}
            /\ \A p \in Proc : Unstored(req[p]) => req[p].serial # c.sub

(* The rows and serials a step makes were not in use before. *)
LEMMA FreshIds ==
    ASSUME IInv, [Next]_vars
    PROVE  /\ reqs' \in {reqs, reqs + 1}
           /\ \A u \in UserId :
                 \/ nameOf'[u] \in {nameOf[u], NoName}
                 \/ \E p \in Proc : Unstored(req[p]) /\ req[p].serial = u
           /\ \A p \in Proc : Unstored(req'[p]) =>
                 \/ Unstored(req[p]) /\ req'[p].serial = req[p].serial
                 \/ req'[p].serial = reqs + 1
<1> DEFINE Claim ==
             /\ reqs' \in {reqs, reqs + 1}
             /\ \A u \in UserId :
                   \/ nameOf'[u] \in {nameOf[u], NoName}
                   \/ \E p \in Proc : Unstored(req[p]) /\ req[p].serial = u
             /\ \A p \in Proc : Unstored(req'[p]) =>
                   \/ Unstored(req[p]) /\ req'[p].serial = req[p].serial
                   \/ req'[p].serial = reqs + 1
<1>1. Typed /\ req \in [Proc -> WellFormed]
  BY DEF IInv, Typed
<1>2. ASSUME NEW p \in Proc, NEW s,
             Put(p, s), UNCHANGED reqs,
             Unstored(s) => Unstored(req[p]) /\ s.serial = req[p].serial,
             \A u \in UserId :
                \/ nameOf'[u] \in {nameOf[u], NoName}
                \/ Unstored(req[p]) /\ req[p].serial = u
      PROVE  Claim
  BY <1>1, <1>2, PutRequest
<1>3. ~Unstored(NoRequest)
  BY DEF Unstored, NoRequest
<1>4. ASSUME NEW p \in Proc, End(p), UNCHANGED <<reqs, nameOf>>
      PROVE  Claim
  BY <1>2, <1>3, <1>4 DEF End
<1>5. ASSUME UNCHANGED <<reqs, nameOf, req>> PROVE Claim
  BY <1>5
<1>6. ASSUME NEW p \in Proc, Arrive(p) PROVE Claim
  <2>1. PICK r \in WellFormed : Begin(p, r)
    BY <1>1, <1>6, ArriveRequest
  <2>2. /\ reqs' = reqs + 1 /\ UNCHANGED nameOf
        /\ \E b \in BOOLEAN :
              req'[p] = [r EXCEPT !.serial = reqs + 1, !.solo = b]
        /\ \A q \in Proc : q # p => \E b \in BOOLEAN :
              req'[q] = [req[q] EXCEPT !.solo = b]
    BY <1>1, <2>1, BeginType DEF Begin, store
  <2>3. req'[p].serial = reqs + 1
    BY <2>2 DEF WellFormed, Request
  <2>4. ASSUME NEW q \in Proc, q # p, Unstored(req'[q])
        PROVE  Unstored(req[q]) /\ req'[q].serial = req[q].serial
    <3>1. PICK b \in BOOLEAN : req'[q] = [req[q] EXCEPT !.solo = b]
      BY <2>2, <2>4
    <3>2. req[q] \in Request
      BY <1>1 DEF WellFormed
    <3> QED
      BY <2>4, <3>1, <3>2 DEF Unstored, Request
  <2> QED
    BY <2>2, <2>3, <2>4
<1>7. ASSUME NEW p \in Proc, Serve(p) PROVE Claim
  <2> DEFINE r == req[p]
  <2>0. r \in WellFormed
    BY <1>1
  <2> SUFFICES ASSUME ~(End(p) /\ UNCHANGED <<reqs, nameOf>>)
               PROVE  Claim
    BY <1>4
  <2>1. ASSUME NEW s, Put(p, s), UNCHANGED <<reqs, nameOf>>,
               s.pc \notin {"index", "guard", "store"}
        PROVE  Claim
    BY <1>2, <2>1 DEF Unstored
  <2>2. ASSUME NEW s, Put(p, s), UNCHANGED <<reqs, nameOf>>,
               s.op = r.op, s.serial = r.serial,
               r.op # "create" \/ r.pc \in {"index", "guard", "store"}
        PROVE  Claim
    BY <1>2, <2>2 DEF Unstored
  <2>3. CASE GetUser(p)
    <3>1. [r EXCEPT !.pc = "conns"].pc = "conns"
      BY <2>0 DEF WellFormed, Request
    <3> QED
      BY <2>1, <2>3, <3>1 DEF GetUser, store, counts
  <2>4. CASE GetConnections(p)
    <3>1. PICK s : s = [r EXCEPT !.pc = "index", !.old = conns[r.uid]]
      OBVIOUS
    <3>2. s.op = r.op /\ s.serial = r.serial
      BY <2>0, <3>1 DEF WellFormed, Request
    <3> QED
      BY <2>0, <2>2, <2>4, <3>1, <3>2 DEF GetConnections, store, counts, WellFormed
  <2>5. CASE Index(p)
    <3>1. /\ [r EXCEPT !.pc = "guard", !.byId = nodes,
                       !.todo = AddedNodes(r.old, r.want)].op = r.op
          /\ [r EXCEPT !.pc = "guard", !.byId = nodes,
                       !.todo = AddedNodes(r.old, r.want)].serial = r.serial
          /\ [r EXCEPT !.pc = "remove", !.byId = nodes,
                       !.todo = NodesOf(r.old) \cap nodes].pc = "remove"
          /\ [r EXCEPT !.pc = "sync", !.byId = nodes, !.want = r.old,
                       !.todo = TouchedNodes(r.old, r.old)].pc = "sync"
      BY <2>0 DEF WellFormed, Request
    <3> QED
      BY <2>1, <2>2, <2>5, <3>1 DEF Index, store, counts
  <2>6. CASE GuardPanel(p)
    <3>1. PICK n \in r.todo : Pass(p, n) \/ End(p)
      BY <2>6 DEF GuardPanel
    <3>2. PICK s : s = [r EXCEPT !.todo = @ \ {n}]
      OBVIOUS
    <3>3. s.op = r.op /\ s.serial = r.serial
      BY <2>0, <3>2 DEF WellFormed, Request
    <3> QED
      BY <2>2, <2>6, <3>1, <3>2, <3>3 DEF GuardPanel, Pass, store
  <2>7. CASE GuardPassed(p)
    <3>1. [r EXCEPT !.pc = "store"].op = r.op /\ [r EXCEPT !.pc = "store"].serial = r.serial
      BY <2>0 DEF WellFormed, Request
    <3> QED
      BY <2>2, <2>7, <3>1 DEF GuardPassed, store, counts
  <2>8. CASE StoreUser(p)
    <3>1. PICK s : s = [r EXCEPT !.pc = "sync", !.uid = r.serial,
                                 !.todo = TouchedNodes({}, r.want)]
      OBVIOUS
    <3>2. s.pc = "sync"
      BY <2>0, <3>1 DEF WellFormed, Request
    <3>3. /\ Unstored(r) /\ UNCHANGED reqs
          /\ Put(p, s) /\ nameOf' = [nameOf EXCEPT ![r.serial] = r.name]
      BY <2>8, <3>1 DEF StoreUser, Unstored, counts, store
    <3>4. \A u \in UserId : nameOf'[u] \in {nameOf[u], NoName} \/ r.serial = u
      BY <1>1, <3>3 DEF Typed, TypeOK
    <3> QED
      BY <1>2, <3>2, <3>3, <3>4 DEF Unstored
  <2>9. CASE ReplaceConnections(p)
    <3>1. [r EXCEPT !.pc = "describe"].pc = "describe"
      BY <2>0 DEF WellFormed, Request
    <3> QED
      BY <2>1, <2>9, <3>1 DEF ReplaceConnections, counts
  <2>10. CASE SetDescription(p)
    <3>1. [r EXCEPT !.pc = "sync", !.todo = TouchedNodes(r.old, r.want)].pc = "sync"
      BY <2>0 DEF WellFormed, Request
    <3> QED
      BY <2>1, <2>10, <3>1 DEF SetDescription, store, counts
  <2>11. CASE SyncPanel(p) \/ RemoveClient(p)
    <3>1. PICK n : Pass(p, n) \/ Lookup(p, n)
      BY <2>11 DEF SyncPanel, RemoveClient, DropClient, Unchanged, NodeMissing
    <3>2. r.pc \in {"sync", "remove"} /\ UNCHANGED <<reqs, nameOf>>
      BY <2>11 DEF SyncPanel, RemoveClient, store
    <3>3. CASE Pass(p, n)
      <4>1. [r EXCEPT !.todo = @ \ {n}].pc = r.pc
        BY <2>0 DEF WellFormed, Request
      <4> QED
        BY <2>1, <3>2, <3>3, <4>1 DEF Pass
    <3>4. CASE Lookup(p, n) /\ ~Pass(p, n)
      <4>1. PICK pc \in {"unbind", "bind"} : \E k :
              Put(p, [r EXCEPT !.todo = @ \ {n}, !.at = n, !.pc = pc, !.cid = k])
        BY <3>4 DEF Lookup
      <4>2. \A k : [r EXCEPT !.todo = @ \ {n}, !.at = n, !.pc = pc, !.cid = k].pc = pc
        BY <2>0 DEF WellFormed, Request
      <4> QED
        BY <2>1, <3>2, <4>1, <4>2
    <3> QED
      BY <3>1, <3>3, <3>4
  <2>12. CASE Unbind(p)
    <3>1. [r EXCEPT !.pc = "bind"].pc = "bind"
      BY <2>0 DEF WellFormed, Request
    <3> QED
      BY <2>1, <2>12, <3>1 DEF Unbind, store
  <2>13. CASE Bind(p)
    <3>1. [r EXCEPT !.pc = "sync", !.at = NoNode, !.cid = 0].pc = "sync"
      BY <2>0 DEF WellFormed, Request
    <3> QED
      BY <2>1, <2>13, <3>1 DEF Bind, store
  <2>14. CASE SyncDone(p)
    BY <2>14 DEF SyncDone, store, counts
  <2>15. CASE RemoveUser(p)
    <3>1. /\ UNCHANGED reqs /\ Put(p, NoRequest)
          /\ nameOf' = [nameOf EXCEPT ![r.uid] = NoName]
      BY <2>15 DEF RemoveUser, End, counts
    <3>2. \A u \in UserId : nameOf'[u] \in {nameOf[u], NoName}
      BY <1>1, <3>1 DEF Typed, TypeOK
    <3> QED
      BY <1>2, <1>3, <3>1, <3>2
  <2> HIDE DEF Claim
  <2> QED
    BY <1>7, <2>3, <2>4, <2>5, <2>6, <2>7, <2>8, <2>9, <2>10, <2>11, <2>12,
       <2>13, <2>14, <2>15 DEF Serve
<1>8. ASSUME NEW p \in Proc, CutShort(p) PROVE Claim
  BY <1>4, <1>8 DEF CutShort, store
<1>9. CASE DeleteNode \/ OperatorChange \/ UNCHANGED vars
  BY <1>5, <1>9 DEF DeleteNode, OperatorChange, vars, store, counts
<1> QED
  <2>1. CASE \E p \in Proc : Arrive(p) \/ Serve(p) \/ CutShort(p)
    BY <1>6, <1>7, <1>8, <2>1
  <2>2. CASE DeleteNode \/ OperatorChange \/ UNCHANGED vars
    BY <1>9, <2>2
  <2> QED
    BY <2>1, <2>2 DEF Next, Quiet

(* What a step may put on a panel. *)
LEMMA PanelChange ==
    ASSUME IInv, [Next]_vars, NEW n \in Node, NEW e \in Name
    PROVE  \/ panel'[n][e] \in {panel[n][e], NoClient, ForeignClient}
           \/ \E p \in Proc :
                 /\ Busy(p) /\ ~Unstored(req[p])
                 /\ req[p].name = e /\ req[p].uid \in 0 .. reqs
                 /\ panel'[n][e].sub = req[p].uid
                 /\ panel'[n][e].inbs \subseteq OnPanel
<1>1. Typed
  BY DEF IInv
<1>2. ASSUME NEW m \in Node, NEW x \in Name, NEW c, SetPair(m, x, c) \/ UNCHANGED panel
      PROVE  panel'[n][e] = panel[n][e] \/ (panel'[n][e] = c /\ x = e)
  BY <1>1, <1>2, SetPairHit
<1>3. ASSUME NEW p \in Proc, SyncPanel(p) \/ RemoveClient(p) \/ Unbind(p)
      PROVE  panel'[n][e] \in {panel[n][e], NoClient}
  <2>1. PICK m : /\ m \in Node /\ req[p].name \in Name
                 /\ SetPair(m, req[p].name, NoClient) \/ UNCHANGED panel
    <3>1. CASE Unbind(p)
      BY <1>1, <3>1 DEF Unbind, Typed, WellFormed
    <3>2. CASE SyncPanel(p) \/ RemoveClient(p)
      <4>1. PICK m \in req[p].todo :
              SetPair(m, req[p].name, NoClient) \/ UNCHANGED panel
        BY <3>2 DEF SyncPanel, RemoveClient, DropClient, DeleteClient,
                    Unchanged, Lookup, NodeMissing
      <4>2. req[p].pc # "idle" /\ req[p] \in WellFormed
        BY <1>1, <3>2 DEF SyncPanel, RemoveClient, Typed
      <4> QED
        BY <4>1, <4>2 DEF WellFormed, Request
    <3> QED
      BY <1>3, <3>1, <3>2
  <2> QED
    BY <1>2, <2>1
<1>4. ASSUME NEW p \in Proc, Bind(p)
      PROVE  \/ panel'[n][e] = panel[n][e]
             \/ /\ Busy(p) /\ ~Unstored(req[p])
                /\ req[p].name = e /\ req[p].uid \in 0 .. reqs
                /\ panel'[n][e].sub = req[p].uid
                /\ panel'[n][e].inbs \subseteq OnPanel
  <2>1. PICK c : c = [sub |-> req[p].uid, uuid |-> req[p].cid,
                      inbs |-> At(Vless(req[p].want), req[p].at)]
    OBVIOUS
  <2>2. /\ req[p].pc = "bind" /\ req[p].at \in Node /\ req[p].name \in Name
        /\ \/ UNCHANGED panel
           \/ c.inbs \subseteq OnPanel /\ SetPair(req[p].at, req[p].name, c)
    BY <1>1, <1>4, <2>1 DEF Bind, Typed, WellFormed
  <2>3. /\ Busy(p) /\ ~Unstored(req[p]) /\ req[p].uid \in 0 .. reqs
        /\ c.sub = req[p].uid
    BY <2>1, <2>2 DEF Busy, Unstored, IInv, Ids
  <2>4. CASE UNCHANGED panel
    BY <2>4
  <2>5. CASE c.inbs \subseteq OnPanel /\ SetPair(req[p].at, req[p].name, c)
    <3>1. panel'[n][e] = panel[n][e] \/ (panel'[n][e] = c /\ req[p].name = e)
      BY <1>2, <2>2, <2>5
    <3> QED
      BY <2>3, <2>5, <3>1
  <2> QED
    BY <2>2, <2>4, <2>5
<1>5. ASSUME NEW p \in Proc, Serve(p), ~SyncPanel(p), ~RemoveClient(p),
             ~Unbind(p), ~Bind(p)
      PROVE  UNCHANGED panel
  BY <1>5 DEF Serve, GetUser, GetConnections, Index, GuardPanel, GuardPassed,
              StoreUser, ReplaceConnections, SetDescription, SyncDone, RemoveUser
<1>6. ASSUME NEW p \in Proc, Arrive(p) \/ CutShort(p) PROVE UNCHANGED panel
  BY <1>6 DEF Arrive, BeginCreate, BeginEdit, BeginOther, Begin, CutShort
<1>7. CASE OperatorChange
  <2>1. PICK m \in Node, x \in Name, c \in {NoClient, ForeignClient} : SetPair(m, x, c)
    BY <1>7 DEF OperatorChange
  <2> QED
    BY <1>2, <2>1
<1>8. CASE DeleteNode \/ UNCHANGED vars
  BY <1>8 DEF DeleteNode, vars
<1>9. CASE \E p \in Proc : Arrive(p) \/ Serve(p) \/ CutShort(p)
  BY <1>3, <1>4, <1>5, <1>6, <1>9
<1> QED
  <2>1. CASE Next
    BY <1>7, <1>8, <1>9, <2>1 DEF Next, Quiet
  <2> QED
    BY <1>8, <2>1

(* The clients stay those of their own nicknames. *)
LEMMA ClientsStep ==
    ASSUME IInv, ClientsOwn, [Next]_vars
    PROVE  ClientsOwn'
<1> SUFFICES ASSUME NEW n \in Node, NEW e \in Name, panel'[n][e] # NoClient
             PROVE  /\ panel'[n][e].inbs \subseteq OnPanel
                    /\ panel'[n][e].sub \in 0 .. reqs'
                    /\ panel'[n][e].sub # 0 =>
                          nameOf'[panel'[n][e].sub] \in {e, NoName}
                    /\ \A p \in Proc : Unstored(req'[p]) =>
                          req'[p].serial # panel'[n][e].sub
  BY DEF ClientsOwn
<1>1. reqs \in 0 .. MaxReqs /\ reqs' \in 0 .. MaxReqs /\ MaxReqs \in Nat
  BY StepTyped, ConstantsAssumption DEF IInv, Typed, TypeOK
<1>2. PICK u : u = panel'[n][e].sub
  OBVIOUS
<1>3. /\ panel'[n][e].inbs \subseteq OnPanel
      /\ u \in 0 .. reqs
      /\ u # 0 => nameOf[u] \in {e, NoName}
      /\ \A p \in Proc : Unstored(req[p]) => req[p].serial # u
  <2>1. CASE panel'[n][e] = panel[n][e]
    BY <1>2, <2>1 DEF ClientsOwn
  <2>2. CASE panel'[n][e] = ForeignClient
    <3>1. u = 0 /\ panel'[n][e].inbs = {}
      BY <1>2, <2>2 DEF ForeignClient
    <3>2. \A p \in Proc : Unstored(req[p]) => req[p].serial \in 1 .. reqs
      BY DEF Unstored, IInv, Ids, Busy
    <3> QED
      BY <1>1, <3>1, <3>2
  <2>3. ASSUME NEW p \in Proc, Busy(p), ~Unstored(req[p]),
               req[p].name = e, req[p].uid \in 0 .. reqs,
               u = req[p].uid, panel'[n][e].inbs \subseteq OnPanel
        PROVE  /\ panel'[n][e].inbs \subseteq OnPanel
               /\ u \in 0 .. reqs
               /\ u # 0 => nameOf[u] \in {e, NoName}
               /\ \A q \in Proc : Unstored(req[q]) => req[q].serial # u
    BY <2>3 DEF IInv, Ids
  <2> QED
    BY <1>2, <2>1, <2>2, <2>3, PanelChange
<1>4. u \in 0 .. reqs'
  BY <1>1, <1>3, FreshIds
<1>5. u # 0 => nameOf'[u] \in {e, NoName}
  <2>1. u # 0 => u \in UserId
    BY <1>1, <1>3 DEF UserId
  <2> QED
    BY <1>3, <2>1, FreshIds
<1>6. ASSUME NEW p \in Proc, Unstored(req'[p]) PROVE req'[p].serial # u
  BY <1>1, <1>3, <1>6, FreshIds
<1> QED
  BY <1>2, <1>3, <1>4, <1>5, <1>6

LEMMA ClientsInit == Init => ClientsOwn
<1> SUFFICES ASSUME Init PROVE ClientsOwn
  OBVIOUS
<1>1. \A p \in Proc : ~Unstored(req[p])
  BY DEF Init, Unstored, NoRequest
<1>2. reqs = 0
  BY DEF Init
<1>3. \A n \in Node, e \in Name : panel[n][e] \in {NoClient, ForeignClient}
  BY DEF Init
<1>4. ForeignClient.sub = 0 /\ ForeignClient.inbs = {}
  BY DEF ForeignClient
<1> QED
  BY <1>1, <1>2, <1>3, <1>4 DEF ClientsOwn

-----------------------------------------------------------------------------
(* The theorems of the agreement.                                          *)

LEMMA AgreementInvariant == Spec => [](AInv /\ ClientsOwn)
<1>1. Init => AInv /\ ClientsOwn
  BY AgreementInit, ClientsInit
<1>2. AInv /\ ClientsOwn /\ [Next]_vars => (AInv /\ ClientsOwn)'
  BY AgreementStep, ClientsStep DEF AInv
<1> QED
  BY <1>1, <1>2, PTL DEF Spec

(* Where no request is at work a pair that is not excused shows the store. *)
LEMMA QuietShows ==
    ASSUME AInv, NEW n \in Node, NEW e \in Name, <<n, e>> \notin drift,
           \A p \in Proc : req[p].name # e
    PROVE  Shows(panel[n][e], birth[n][e], nameOf, n, e, Holds(e))
BY DEF AInv, Agreed

(* Whatever the interleaving, the failures and the operators did before:   *)
(* once the requests on a nickname are over, every panel has exactly the   *)
(* client the store calls for, but for the pairs the statement excuses.    *)
THEOREM Agreement == Spec => []PanelsAgree
<1>1. AInv => PanelsAgree
  <2> SUFFICES ASSUME AInv, NEW e \in Name, NEW n \in Node,
                      \A p \in Proc : req[p].name # e, <<n, e>> \notin drift
               PROVE  IF At(Vless(Holds(e)), n) = {}
                      THEN panel[n][e] = NoClient \/ panel[n][e] = ForeignClient
                      ELSE /\ panel[n][e] # NoClient
                           /\ panel[n][e].inbs = At(Vless(Holds(e)), n)
                           /\ nameOf[panel[n][e].sub] = e
    BY DEF PanelsAgree
  <2>1. Shows(panel[n][e], birth[n][e], nameOf, n, e, Holds(e))
    BY QuietShows
  <2> QED
    BY <2>1, ConstantsAssumption DEF Shows
<1> QED
  BY <1>1, AgreementInvariant, PTL

(* The uuid of a client that is not excused is the one it was first bound  *)
(* with, also while the client is away between a DelClient and the         *)
(* AddClient of a re-bind, and while requests on other users come between. *)
THEOREM UuidKept == Spec => []UuidStable
<1>1. AInv => UuidStable
  <2> SUFFICES ASSUME AInv, NEW e \in Name, NEW n \in Node,
                      panel[n][e] # NoClient, <<n, e>> \notin drift
               PROVE  panel[n][e].uuid = birth[n][e]
    BY DEF UuidStable
  <2>1. ASSUME NEW S, Shows(panel[n][e], birth[n][e], nameOf, n, e, S)
        PROVE  panel[n][e].uuid = birth[n][e]
    BY <2>1 DEF Shows, ForeignClient
  <2>2. CASE \A p \in Proc : req[p].name # e
    BY <2>1, <2>2, QuietShows
  <2>3. ASSUME NEW p \in Proc, req[p].name = e
        PROVE  panel[n][e].uuid = birth[n][e]
    <3>1. During(req[p], panel[n][e], birth[n][e], nameOf, n, Holds(e))
      BY <2>3 DEF AInv, Agreed
    <3> QED
      BY <2>1, <2>3, <3>1 DEF During
  <2> QED
    BY <2>2, <2>3
<1> QED
  BY <1>1, AgreementInvariant, PTL

(* What the fleet reads off panels and store for a user is what the store  *)
(* connects him to: nobody else's client carries his id.                   *)
LEMMA Served ==
    ASSUME AInv, ClientsOwn, NEW u \in Live, NEW up \in SUBSET nodes,
           \A p \in Proc : req[p].name # nameOf[u],
           NEW i \in Registered, <<NodeOf[i], nameOf[u]>> \notin drift
    PROVE  /\ <<u, i>> \in Subs(up) <=>
                 i \in conns[u] /\ (i \in Hysteria \/ NodeOf[i] \in up)
           /\ i \in conns[u] \ Hysteria => ~ClientMissing(up, i, nameOf[u])
<1>1. PICK n \in Node, e \in Name : n = NodeOf[i] /\ e = nameOf[u]
  BY ConstantsAssumption DEF Registered, Live, AInv, IInv, Typed, TypeOK
<1>2. PICK c : c = panel[n][e]
  OBVIOUS
<1>3. u \in UserId /\ nameOf[u] = e /\ e # NoName /\ i \in Inbound /\ NodeOf[i] = n
  BY <1>1 DEF Live, Registered
<1>4. Holds(e) = conns[u]
  BY <1>3, HoldsRow DEF AInv, IInv
<1>5. Shows(c, birth[n][e], nameOf, n, e, conns[u])
  BY <1>1, <1>2, <1>4, QuietShows
<1>6. i \in At(Vless(conns[u]), n) <=> i \in conns[u] \ Hysteria
  BY <1>3 DEF At, Vless
<1>7. i \in conns[u] \ Hysteria =>
         c # NoClient /\ i \in c.inbs /\ c.sub = u /\ i \in OnPanel
  <2> SUFFICES ASSUME i \in conns[u] \ Hysteria
               PROVE  c # NoClient /\ i \in c.inbs /\ c.sub = u /\ i \in OnPanel
    OBVIOUS
  <2>1. c \in Client /\ i \in c.inbs /\ c.sub \in UserId /\ nameOf[c.sub] = e
    BY <1>5, <1>6 DEF Shows
  <2>2. c # NoClient
    BY <2>1, ConstantsAssumption
  <2>3. c.sub = u
    BY <1>3, <2>1 DEF AInv, IInv, StoreConsistent
  <2>4. i \in OnPanel
    BY <1>2, <2>1, <2>2 DEF ClientsOwn
  <2> QED
    BY <2>1, <2>2, <2>3, <2>4
<1>8. c # NoClient /\ i \in c.inbs => i \in conns[u] \ Hysteria
  BY <1>5, <1>6 DEF Shows, ForeignClient
<1>9. \A x \in Name : panel[n][x] # NoClient /\ panel[n][x].sub = u => x = e
  <2>1. u # 0
    BY <1>3, ConstantsAssumption DEF UserId
  <2> QED
    BY <1>3, <2>1 DEF ClientsOwn
<1>10. <<u, i>> \in buildFleet(up) <=> NodeOf[i] \in up /\ i \in conns[u] \ Hysteria
  <2>1. <<u, i>> \in buildFleet(up) <=>
           /\ i \in Observed(up)
           /\ \E x \in ListedClients(n, i) : panel[n][x].sub = u
    BY <1>3 DEF buildFleet
  <2>2. i \in Observed(up) <=> NodeOf[i] \in up
    BY DEF Observed
  <2>3. \A x : x \in ListedClients(n, i) <=>
           x \in Name /\ i \in OnPanel /\ panel[n][x] # NoClient /\ i \in panel[n][x].inbs
    BY <1>3 DEF ListedClients, findByPort
  <2>4. (\E x \in ListedClients(n, i) : panel[n][x].sub = u) <=>
           i \in conns[u] \ Hysteria
    BY <1>2, <1>7, <1>8, <1>9, <2>3
  <2> QED
    BY <2>1, <2>2, <2>4
<1>11. <<u, i>> \in addHysteria2Inbounds(up) <=> i \in conns[u] \cap Hysteria
  BY <1>3 DEF addHysteria2Inbounds
<1>12. i \in conns[u] \ Hysteria => ~ClientMissing(up, i, e)
  <2>1. i \in conns[u] \ Hysteria => e \in ListedClients(n, i)
    BY <1>2, <1>3, <1>7 DEF ListedClients, findByPort
  <2>2. i \in DOMAIN ClientsByInbound(up) =>
           ClientsByInbound(up)[i] = ListedClients(n, i)
    BY <1>3 DEF ClientsByInbound
  <2> QED
    BY <2>1, <2>2 DEF ClientMissing
<1> QED
  BY <1>1, <1>10, <1>11, <1>12 DEF Subs

(* A user gets the inbounds he is connected to and no others, whatever the *)
(* other users' clients look like.                                         *)
THEOREM FleetRight == Spec => []FleetServes
<1>1. AInv /\ ClientsOwn => FleetServes
  BY Served DEF FleetServes
<1> QED
  BY <1>1, AgreementInvariant, PTL
=============================================================================
