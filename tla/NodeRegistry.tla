----------------------------- MODULE NodeRegistry -----------------------------
(***************************************************************************)
(* The node registry: service/nodes over repository/nodes, driven by admin *)
(* pages that load a node, edit it and submit the whole form later.        *)
(*                                                                         *)
(* Save and Delete are one transaction or statement each on the store's    *)
(* only connection, hence one step.  What interleaves are the pages: the   *)
(* form of one is stale once another has saved or deleted the node, and    *)
(* the inbounds in it are told by their ids.                               *)
(*                                                                         *)
(* Abstracted: an inbound's port stands for its name as well (both unique  *)
(* per node, validated and written by the same statements); the other      *)
(* columns are well formed and written along with these.                   *)
(***************************************************************************)
EXTENDS Integers, Sequences, FiniteSets

CONSTANTS
    Page,         \* admin pages open at once
    Name,         \* node names
    Port,         \* inbound ports, all within 1..65535
    NoName,
    MaxNodes,     \* bound: nodes ever created
    MaxInbounds,  \* bound: inbounds ever created
    MaxRows,      \* bound: rows of a form
    MaxEdits      \* bound: edits of forms in a behaviour

ASSUME RegistryAssumption ==
    /\ NoName \notin Name
    /\ Port \subseteq Nat \ {0}
    /\ {MaxNodes, MaxInbounds, MaxRows, MaxEdits} \subseteq Nat

NodeId == 1 .. MaxNodes
InboundId == 1 .. MaxInbounds

VARIABLES
    nameOf,    \* nodes.name by id; NoName: no such row
    rows,      \* node_inbounds by id
    refs,      \* inbounds a connection, a group member or a rule references
    lastNode, lastInbound,  \* AUTOINCREMENT
    form,      \* the form each page holds
    answer,    \* what the page was told about its last submission
    fresh,     \* history: nobody else changed the node since it was read
    edits

vars == <<nameOf, rows, refs, lastNode, lastInbound, form, answer, fresh, edits>>
store == <<nameOf, rows, lastNode, lastInbound>>

Row == [node : NodeId, port : Port]
NoRow == [node |-> 0, port |-> 0]

(* A row of a form: the id is 0 until the store has given it one. *)
FormRow == [id : 0 .. MaxInbounds, port : Port]
Form == [id : 0 .. MaxNodes, name : Name, rows : Seq(FormRow), read : BOOLEAN]
NoForm == [id |-> 0, name |-> NoName, rows |-> <<>>, read |-> FALSE]
Answers == {"none", "saved", "refused"}

TypeOK ==
    /\ nameOf \in [NodeId -> Name \cup {NoName}]
    /\ rows \in [InboundId -> Row \cup {NoRow}]
    /\ refs \subseteq InboundId
    /\ lastNode \in 0 .. MaxNodes
    /\ lastInbound \in 0 .. MaxInbounds
    /\ form \in [Page -> Form \cup {NoForm}]
    /\ answer \in [Page -> Answers]
    /\ fresh \in [Page -> BOOLEAN]
    /\ edits \in 0 .. MaxEdits

Init ==
    /\ nameOf = [n \in NodeId |-> NoName]
    /\ rows = [i \in InboundId |-> NoRow]
    /\ refs = {}
    /\ lastNode = 0
    /\ lastInbound = 0
    /\ form = [p \in Page |-> NoForm]
    /\ answer = [p \in Page |-> "none"]
    /\ fresh = [p \in Page |-> TRUE]
    /\ edits = 0

-----------------------------------------------------------------------------
(* The pages.                                                              *)

InboundsOf(n) == {i \in InboundId : rows[i].node = n}
Live == {n \in NodeId : nameOf[n] # NoName}

(* Every order: the SELECT has no ORDER BY. *)
Enumerations(S) ==
    {s \in [1 .. Cardinality(S) -> S] : \A j, k \in DOMAIN s : s[j] = s[k] => j = k}

SetForm(p, f) == form' = [form EXCEPT ![p] = f]

NewNode(p) ==
    /\ form[p] = NoForm
    /\ \E e \in Name, m \in 1 .. MaxRows : \E ports \in [1 .. m -> Port] :
        SetForm(p, [id |-> 0, name |-> e, read |-> TRUE,
                    rows |-> [k \in 1 .. m |-> [id |-> 0, port |-> ports[k]]]])
    /\ fresh' = [fresh EXCEPT ![p] = TRUE]
    /\ UNCHANGED <<store, refs, answer, edits>>

(* nodes.List: one query for the nodes, a second one for all the inbounds. *)
ReadNode(p) ==
    /\ form[p] = NoForm
    /\ \E n \in Live :
        SetForm(p, [id |-> n, name |-> nameOf[n], read |-> FALSE, rows |-> <<>>])
    /\ fresh' = [fresh EXCEPT ![p] = TRUE]
    /\ UNCHANGED <<store, refs, answer, edits>>

ReadInbounds(p) ==
    /\ form[p] # NoForm /\ ~form[p].read
    /\ \E s \in Enumerations(InboundsOf(form[p].id)) :
        SetForm(p, [form[p] EXCEPT !.read = TRUE,
                      !.rows = [k \in DOMAIN s |->
                                  [id |-> s[k], port |-> rows[s[k]].port]]])
    /\ UNCHANGED <<store, refs, answer, fresh, edits>>

(* Slip: a blanked row is kept with its port 0. *)
Without_blanked(s, k) == [s EXCEPT ![k].port = 0]
(* The page blanks a row; the handler skips it. *)
Without(s, k) == SubSeq(s, 1, k - 1) \o SubSeq(s, k + 1, Len(s))

EditForm(p) ==
    LET f == form[p]
    IN  /\ f.read /\ answer[p] = "none"
        /\ edits < MaxEdits
        /\ edits' = edits + 1
        /\ \/ \E e \in Name \ {f.name} : SetForm(p, [f EXCEPT !.name = e])
           \/ \E k \in DOMAIN f.rows : SetForm(p, [f EXCEPT !.rows = Without(@, k)])
           \* any of the ports, two that change places included
           \/ \E ports \in [DOMAIN f.rows -> Port] :
                SetForm(p, [f EXCEPT !.rows =
                              [k \in DOMAIN f.rows |-> [id |-> f.rows[k].id, port |-> ports[k]]]])
           \/ /\ Len(f.rows) < MaxRows
              /\ \E q \in Port :
                   SetForm(p, [f EXCEPT !.rows = Append(@, [id |-> 0, port |-> q])])
        /\ UNCHANGED <<store, refs, answer, fresh>>

(* A page may keep its form for a second submission. *)
Resume(p) ==
    /\ answer[p] # "none"
    /\ answer' = [answer EXCEPT ![p] = "none"]
    /\ UNCHANGED <<store, refs, form, fresh, edits>>

Close(p) ==
    /\ form[p] # NoForm
    /\ SetForm(p, NoForm)
    /\ answer' = [answer EXCEPT ![p] = "none"]
    /\ UNCHANGED <<store, refs, fresh, edits>>

-----------------------------------------------------------------------------
(* Save.                                                                   *)

(* validateNode. *)
Valid(f) ==
    /\ f.rows # <<>>
    /\ \A j, k \in DOMAIN f.rows : f.rows[j].port = f.rows[k].port => j = k

NameTaken(f) == \E n \in NodeId \ {f.id} : nameOf[n] = f.name

(* Slip: the DELETE and the UPDATEs are not confined to the node. *)
Own_anyNode(f) == {i \in InboundId : rows[i] # NoRow}
(* The inbounds the statements of an Update reach: WHERE node_id = id. *)
Own(f) == IF f.id = 0 THEN {} ELSE InboundsOf(f.id)

Ids(f) == {f.rows[k].id : k \in DOMAIN f.rows} \ {0}
(* Slip: every inbound is replaced by a new one. *)
Kept_none(f) == {}
Kept(f) == Own(f) \cap Ids(f)
(* Slip: a referenced inbound is silently left in place. *)
Dropped_unreferenced(f) == (Own(f) \ Kept(f)) \ refs
Dropped(f) == Own(f) \ Kept(f)

(* The foreign keys onto node_inbounds have no cascade. *)
Held(S) == S \cap refs # {}

(* Row k of the form meets, in UNIQUE(node_id, inbound_port), a kept row   *)
(* that a later row of the form would have moved out of its way.           *)
Clash(f, k) ==
    \E i \in Kept(f) :
        /\ i # f.rows[k].id
        /\ \A j \in 1 .. k : f.rows[j].id # i
        /\ rows[i].port = f.rows[k].port

(* Row k reaches the store: an INSERT, or an UPDATE that finds its row. *)
Inserts(f, k) == f.id = 0 \/ f.rows[k].id = 0
Reaches(f, k) == Inserts(f, k) \/ f.rows[k].id \in Kept(f)

(* Slip: the highest id in use plus one, as without AUTOINCREMENT. *)
NextInbound_reused ==
    IF \A i \in InboundId : rows[i] = NoRow THEN 0
    ELSE CHOOSE i \in InboundId : /\ rows[i] # NoRow
                                  /\ \A j \in InboundId : rows[j] # NoRow => j <= i
NextInbound == lastInbound

(* The id row k is inserted with. *)
NewId(f, k) == NextInbound + Cardinality({j \in 1 .. k : Inserts(f, j)})

(* The node's own inbounds after the statements of a Save, under id n. *)
Stored(f, n) ==
    [i \in InboundId |->
        IF \E k \in DOMAIN f.rows : Inserts(f, k) /\ NewId(f, k) = i
        THEN [node |-> n,
              port |-> f.rows[CHOOSE k \in DOMAIN f.rows :
                                Inserts(f, k) /\ NewId(f, k) = i].port]
        ELSE IF i \in Kept(f)
        THEN [node |-> rows[i].node,
              port |-> f.rows[CHOOSE k \in DOMAIN f.rows : f.rows[k].id = i].port]
        ELSE IF i \in Dropped(f) THEN NoRow ELSE rows[i]]

(* Every page whose form shows node n holds a stale form from now on. *)
Outdate(n, p) == fresh' = [q \in Page |-> fresh[q] /\ (form[q].id # n \/ q = p)]

Answer(p, a) == answer' = [answer EXCEPT ![p] = a]

(* A failed validation, a taken name, a port in use, an inbound still      *)
(* referenced, or an INSERT under a node that is gone: nothing is written. *)
Refused(f) ==
    \/ ~Valid(f)
    \/ NameTaken(f) /\ (f.id = 0 \/ f.id \in Live)
    \/ Held(Dropped(f))
    \/ \E k \in DOMAIN f.rows : Reaches(f, k) /\ Clash(f, k)
    \/ f.id # 0 /\ f.id \notin Live /\ \E k \in DOMAIN f.rows : Inserts(f, k)

Save(p) ==
    LET f == form[p]
        n == IF f.id = 0 THEN lastNode + 1 ELSE f.id
        inserted == {k \in DOMAIN f.rows : Inserts(f, k)}
    IN  /\ f.read /\ answer[p] = "none"
        /\ n \in NodeId
        /\ lastInbound + Cardinality(inserted) <= MaxInbounds
        /\ IF Refused(f)
           THEN /\ Answer(p, "refused")
                /\ UNCHANGED <<store, fresh>>
           ELSE /\ Answer(p, "saved")
                /\ nameOf' = IF f.id = 0 \/ f.id \in Live
                             THEN [nameOf EXCEPT ![n] = f.name] ELSE nameOf
                /\ rows' = Stored(f, n)
                /\ lastNode' = IF f.id = 0 THEN n ELSE lastNode
                /\ lastInbound' = lastInbound + Cardinality(inserted)
                /\ Outdate(n, p)
        /\ UNCHANGED <<refs, form, edits>>

-----------------------------------------------------------------------------
(* The rest of the system.                                                 *)

(* node_delete: the cascade stops at a referenced inbound. *)
Delete ==
    /\ \E n \in Live :
        /\ ~Held(InboundsOf(n))
        /\ nameOf' = [nameOf EXCEPT ![n] = NoName]
        /\ rows' = [i \in InboundId |-> IF rows[i].node = n THEN NoRow ELSE rows[i]]
        /\ fresh' = [q \in Page |-> fresh[q] /\ form[q].id # n]
    /\ UNCHANGED <<refs, lastNode, lastInbound, form, answer, edits>>

(* Users and configs come to reference an inbound and let go of it; the    *)
(* foreign key refuses an id without a row.                                *)
Refer ==
    \E i \in InboundId :
        /\ \/ i \notin refs /\ rows[i] # NoRow /\ refs' = refs \cup {i}
           \/ i \in refs /\ refs' = refs \ {i}
        /\ UNCHANGED <<store, form, answer, fresh, edits>>

Next ==
    \/ \E p \in Page : \/ NewNode(p) \/ ReadNode(p) \/ ReadInbounds(p)
                       \/ EditForm(p) \/ Save(p) \/ Resume(p) \/ Close(p)
    \/ Delete
    \/ Refer

Spec == Init /\ [][Next]_vars

-----------------------------------------------------------------------------
(* What the registry promises.                                             *)

(* Names are unique, an inbound belongs to a node that exists and shares   *)
(* its port with no other inbound of it, and whatever references an        *)
(* inbound references a row: no Save or Delete, from a stale page or not,  *)
(* takes an inbound away from a user or a rule.                            *)
RegistrySound ==
    /\ \A m, n \in Live : nameOf[m] = nameOf[n] => m = n
    /\ \A i \in InboundId : rows[i] # NoRow => rows[i].node \in Live
    /\ \A i, j \in InboundId : rows[i] = rows[j] /\ rows[i] # NoRow => i = j
    /\ \A i \in refs : rows[i] # NoRow

(* A Save concerns one node: the inbounds of every other node stay as they *)
(* are, whatever ids a form has gathered.                                  *)
SaveStaysHome ==
    [][\A p \in Page : Save(p) =>
         \A i \in InboundId :
            rows[i] # NoRow /\ rows[i].node # form[p].id => rows'[i] = rows[i]]_vars

(* An inbound's id means one inbound for good: the row stays at its node,  *)
(* and an id whose row is gone never comes back.  Stale forms and requests *)
(* in flight rely on it: they name inbounds by id.                         *)
IdsStable ==
    [][\A i \in InboundId :
         /\ rows[i] # NoRow => rows'[i] \in {NoRow} \cup [node : {rows[i].node}, port : Port]
         /\ rows[i] = NoRow /\ i <= lastInbound => rows'[i] = NoRow]_vars

(* The answer "saved" to a form nobody overtook means that the node has    *)
(* exactly the inbounds of the form, the old ones under their old ids.     *)
StoredAs(f) ==
    /\ {rows'[i].port : i \in {j \in InboundId : rows'[j].node = f.id}}
         = {f.rows[k].port : k \in DOMAIN f.rows}
    /\ \A k \in DOMAIN f.rows :
         f.rows[k].id # 0 => rows'[f.rows[k].id]
                               = [node |-> f.id, port |-> f.rows[k].port]

FreshSaveStores ==
    [][\A p \in Page :
         Save(p) /\ answer'[p] = "saved" /\ form[p].id # 0 /\ fresh[p] =>
            nameOf'[form[p].id] = form[p].name /\ StoredAs(form[p])]_vars

=============================================================================
