-------------------------- MODULE NodeRegistryProofs --------------------------
(***************************************************************************)
(* Theorems about NodeRegistry: the types, what a Save may reach, what an  *)
(* id stands for, what "saved" means and the registry's soundness, for any *)
(* number of pages, nodes, inbounds and rows.                              *)
(***************************************************************************)
EXTENDS NodeRegistry, FiniteSetTheorems, SequenceTheorems, TLAPS

(* AUTOINCREMENT: an id in use was handed out. *)
Issued ==
    /\ \A i \in InboundId : rows[i] # NoRow => i <= lastInbound
    /\ \A n \in NodeId : nameOf[n] # NoName => n <= lastNode

(* The inbounds of a form are read for a node, never for a new one. *)
Reading == \A p \in Page : form[p].read \/ form[p] = NoForm \/ form[p].id # 0

IInv == TypeOK /\ RegistrySound /\ Issued /\ Reading

Inserted(f) == {k \in DOMAIN f.rows : Inserts(f, k)}

-----------------------------------------------------------------------------
(* A form of a page that has been read is a Form. *)
LEMMA FormTyped ==
    ASSUME TypeOK, NEW p \in Page, form[p].read
    PROVE  form[p] \in Form
BY DEF TypeOK, NoForm

LEMMA FormRows ==
    ASSUME NEW f \in Form
    PROVE  /\ f.id \in 0 .. MaxNodes /\ f.name \in Name
           /\ f.rows \in Seq(FormRow) /\ DOMAIN f.rows = 1 .. Len(f.rows) /\ Len(f.rows) \in Nat
           /\ \A k \in DOMAIN f.rows : f.rows[k].id \in 0 .. MaxInbounds
                                       /\ f.rows[k].port \in Port
<1>1. f.id \in 0 .. MaxNodes /\ f.name \in Name /\ f.rows \in Seq(FormRow)
  BY DEF Form
<1>2. DOMAIN f.rows = 1 .. Len(f.rows) /\ Len(f.rows) \in Nat
  BY <1>1
<1>3. \A k \in DOMAIN f.rows : f.rows[k] \in FormRow
  BY <1>1, <1>2
<1> QED BY <1>1, <1>2, <1>3 DEF FormRow

LEMMA Bounds == MaxNodes \in Nat /\ MaxInbounds \in Nat /\ MaxRows \in Nat /\ MaxEdits \in Nat
BY RegistryAssumption DEF RegistryAssumption

LEMMA InsertedFinite ==
    ASSUME NEW f \in Form
    PROVE  IsFiniteSet(Inserted(f)) /\ Cardinality(Inserted(f)) \in Nat
<1>1. IsFiniteSet(1 .. Len(f.rows))
  BY FormRows, FS_Interval
<1>2. Inserted(f) \subseteq 1 .. Len(f.rows)
  BY FormRows DEF Inserted
<1> QED BY <1>1, <1>2, FS_Subset, FS_CardinalityType

(* Rows are inserted under ids above every one handed out so far. *)
LEMMA NewIdFresh ==
    ASSUME TypeOK, NEW f \in Form, NEW k \in Inserted(f)
    PROVE  /\ NewId(f, k) \in Nat
           /\ lastInbound < NewId(f, k)
           /\ NewId(f, k) <= lastInbound + Cardinality(Inserted(f))
<1> DEFINE J == {j \in 1 .. k : Inserts(f, j)}
<1>1. k \in DOMAIN f.rows /\ k \in 1 .. Len(f.rows) /\ Len(f.rows) \in Nat
  BY FormRows DEF Inserted
<1>2. J \subseteq Inserted(f)
  BY <1>1, FormRows DEF Inserted
<1>3. /\ IsFiniteSet(J) /\ Cardinality(J) \in Nat
      /\ Cardinality(J) <= Cardinality(Inserted(f))
  BY <1>2, InsertedFinite, FS_Subset, FS_CardinalityType
<1>4. k \in J
  BY <1>1 DEF Inserted
<1>5. Cardinality(J) # 0
  BY <1>3, <1>4, FS_EmptySet
<1>6. lastInbound \in Nat
  BY Bounds DEF TypeOK
<1> HIDE DEF J
<1>7. NewId(f, k) = lastInbound + Cardinality(J)
  BY DEF NewId, NextInbound, J
<1> QED BY <1>3, <1>5, <1>6, <1>7, InsertedFinite

-----------------------------------------------------------------------------
(* What a Save makes of one row: inserted, kept, dropped, or left alone. *)
IsNew(f, n, i) ==
    /\ rows[i] = NoRow
    /\ lastInbound < i /\ i <= lastInbound + Cardinality(Inserted(f))
    /\ \E k \in Inserted(f) :
         NewId(f, k) = i /\ Stored(f, n)[i] = [node |-> n, port |-> f.rows[k].port]
IsKept(f, n, i) ==
    /\ f.id # 0 /\ rows[i].node = f.id /\ rows[i] # NoRow
    /\ \E k \in DOMAIN f.rows :
         f.rows[k].id = i /\ Stored(f, n)[i] = [node |-> f.id, port |-> f.rows[k].port]
IsDropped(f, n, i) == i \in Dropped(f) /\ rows[i].node = f.id /\ f.id # 0 /\ Stored(f, n)[i] = NoRow
IsAlone(f, n, i) == (f.id # 0 => rows[i].node # f.id) /\ Stored(f, n)[i] = rows[i]

LEMMA StoredCases ==
    ASSUME TypeOK, Issued, NEW f \in Form, NEW n \in NodeId, NEW i \in InboundId
    PROVE  IsNew(f, n, i) \/ IsKept(f, n, i) \/ IsDropped(f, n, i) \/ IsAlone(f, n, i)
<1> DEFINE new == \E k \in DOMAIN f.rows : Inserts(f, k) /\ NewId(f, k) = i
           Row_(k) == [node |-> n, port |-> f.rows[k].port]
<1>0. i \in Nat /\ i # 0 /\ lastInbound \in Nat /\ f.id \in Nat
  BY Bounds, FormRows DEF TypeOK, InboundId
<1>1. CASE new
  <2> DEFINE k == CHOOSE j \in DOMAIN f.rows : Inserts(f, j) /\ NewId(f, j) = i
  <2>1. k \in Inserted(f) /\ NewId(f, k) = i
    BY <1>1 DEF Inserted
  <2>2. Stored(f, n)[i] = [node |-> n, port |-> f.rows[k].port]
    BY <1>1 DEF Stored
  <2> HIDE DEF k
  <2>3. lastInbound < i /\ i <= lastInbound + Cardinality(Inserted(f))
    BY <2>1, NewIdFresh
  <2>4. rows[i] = NoRow
    BY <2>3, <1>0 DEF Issued
  <2> QED BY <2>1, <2>2, <2>3, <2>4 DEF IsNew
<1>2. CASE ~new /\ i \in Kept(f)
  <2> DEFINE k == CHOOSE j \in DOMAIN f.rows : f.rows[j].id = i
  <2>1. \E j \in DOMAIN f.rows : f.rows[j].id = i
    BY <1>2 DEF Kept, Ids
  <2>2. k \in DOMAIN f.rows /\ f.rows[k].id = i
    BY <2>1
  <2>3. Stored(f, n)[i] = [node |-> rows[i].node, port |-> f.rows[k].port]
    BY <1>2 DEF Stored
  <2> HIDE DEF k
  <2>4. f.id # 0 /\ rows[i].node = f.id
    BY <1>2 DEF Kept, Own, InboundsOf
  <2>5. rows[i] # NoRow
    BY <2>4 DEF NoRow
  <2> QED BY <2>2, <2>3, <2>4, <2>5 DEF IsKept
<1>3. CASE ~new /\ i \notin Kept(f) /\ i \in Dropped(f)
  <2>1. Stored(f, n)[i] = NoRow
    BY <1>3 DEF Stored
  <2>2. f.id # 0 /\ rows[i].node = f.id
    BY <1>3 DEF Dropped, Own, InboundsOf
  <2> QED BY <1>3, <2>1, <2>2 DEF IsDropped
<1>4. CASE ~new /\ i \notin Kept(f) /\ i \notin Dropped(f)
  <2>1. Stored(f, n)[i] = rows[i]
    BY <1>4 DEF Stored
  <2>2. f.id # 0 => rows[i].node # f.id
    BY <1>4 DEF Dropped, Own, InboundsOf
  <2> QED BY <2>1, <2>2 DEF IsAlone
<1> QED BY <1>1, <1>2, <1>3, <1>4

LEMMA Rows ==
    ASSUME TypeOK, NEW i \in InboundId
    PROVE  /\ rows[i] = NoRow <=> rows[i].node = 0
           /\ rows[i] # NoRow => rows[i] \in Row
BY DEF TypeOK, NoRow, Row, NodeId

-----------------------------------------------------------------------------
(* Types. *)

LEMMA TypeInit == Init => IInv
<1> SUFFICES ASSUME Init PROVE IInv
  OBVIOUS
<1>1. TypeOK
  BY Bounds DEF Init, TypeOK, Answers
<1>2. RegistrySound
  BY DEF Init, RegistrySound, Live
<1>3. Issued
  BY DEF Init, Issued
<1>4. Reading
  BY DEF Init, Reading
<1> QED BY <1>1, <1>2, <1>3, <1>4 DEF IInv

LEMMA RowsWithout ==
    ASSUME NEW s \in Seq(FormRow), NEW k \in DOMAIN s
    PROVE  Without(s, k) \in Seq(FormRow)
<1>1. k \in 1 .. Len(s) /\ Len(s) \in Nat
  OBVIOUS
<1>2. SubSeq(s, 1, k - 1) \in Seq(FormRow)
  BY <1>1
<1>3. SubSeq(s, k + 1, Len(s)) \in Seq(FormRow)
  BY <1>1
<1> QED BY <1>2, <1>3 DEF Without

LEMMA Retyped ==
    ASSUME NEW s \in Seq(FormRow), NEW ports \in [DOMAIN s -> Port]
    PROVE  [k \in DOMAIN s |-> [id |-> s[k].id, port |-> ports[k]]] \in Seq(FormRow)
<1> DEFINE t == [k \in DOMAIN s |-> [id |-> s[k].id, port |-> ports[k]]]
<1>1. DOMAIN s = 1 .. Len(s) /\ Len(s) \in Nat
  OBVIOUS
<1>2. ASSUME NEW k \in DOMAIN s PROVE [id |-> s[k].id, port |-> ports[k]] \in FormRow
  <2>1. s[k] \in FormRow /\ ports[k] \in Port
    OBVIOUS
  <2>2. s[k].id \in 0 .. MaxInbounds
    BY <2>1 DEF FormRow
  <2> QED BY <2>1, <2>2 DEF FormRow
<1>3. t \in [1 .. Len(s) -> FormRow]
  BY <1>1, <1>2
<1> HIDE DEF t
<1>4. t \in Seq(FormRow)
  BY <1>1, <1>3
<1> USE DEF t
<1> QED BY <1>4

LEMMA EditTakes ==
    ASSUME IInv, NEW p \in Page, EditForm(p)
    PROVE  \E g \in Form : g.read /\ SetForm(p, g)
<1> DEFINE f == form[p]
<1>1. f \in Form /\ f.read /\ f.rows \in Seq(FormRow) /\ f.id \in 0 .. MaxNodes
  BY FormTyped DEF IInv, EditForm, Form
<1>2. CASE \E e \in Name \ {f.name} : SetForm(p, [f EXCEPT !.name = e])
  <2>1. PICK e \in Name : SetForm(p, [f EXCEPT !.name = e])
    BY <1>2
  <2>2. [f EXCEPT !.name = e] \in Form /\ [f EXCEPT !.name = e].read
    BY <1>1 DEF Form
  <2> QED BY <2>1, <2>2
<1>3. CASE \E k \in DOMAIN f.rows : SetForm(p, [f EXCEPT !.rows = Without(@, k)])
  <2>1. PICK k \in DOMAIN f.rows : SetForm(p, [f EXCEPT !.rows = Without(f.rows, k)])
    BY <1>3
  <2>2. Without(f.rows, k) \in Seq(FormRow)
    BY <1>1, RowsWithout
  <2>3. /\ [f EXCEPT !.rows = Without(f.rows, k)] \in Form
        /\ [f EXCEPT !.rows = Without(f.rows, k)].read
    BY <1>1, <2>2 DEF Form
  <2> QED BY <2>1, <2>3
<1>4. CASE \E ports \in [DOMAIN f.rows -> Port] :
             SetForm(p, [f EXCEPT !.rows =
                           [k \in DOMAIN f.rows |-> [id |-> f.rows[k].id, port |-> ports[k]]]])
  <2>1. PICK ports \in [DOMAIN f.rows -> Port] :
          SetForm(p, [f EXCEPT !.rows =
                        [k \in DOMAIN f.rows |-> [id |-> f.rows[k].id, port |-> ports[k]]]])
    BY <1>4
  <2> DEFINE t == [k \in DOMAIN f.rows |-> [id |-> f.rows[k].id, port |-> ports[k]]]
  <2>2. t \in Seq(FormRow)
    BY <1>1, Retyped
  <2>3. [f EXCEPT !.rows = t] \in Form /\ [f EXCEPT !.rows = t].read
    BY <1>1, <2>2 DEF Form
  <2> QED BY <2>1, <2>3
<1>5. CASE \E q \in Port :
             SetForm(p, [f EXCEPT !.rows = Append(@, [id |-> 0, port |-> q])])
  <2>1. PICK q \in Port :
          SetForm(p, [f EXCEPT !.rows = Append(f.rows, [id |-> 0, port |-> q])])
    BY <1>5
  <2>2. [id |-> 0, port |-> q] \in FormRow
    BY Bounds DEF FormRow
  <2>3. Append(f.rows, [id |-> 0, port |-> q]) \in Seq(FormRow)
    BY <1>1, <2>2
  <2>4. /\ [f EXCEPT !.rows = Append(f.rows, [id |-> 0, port |-> q])] \in Form
        /\ [f EXCEPT !.rows = Append(f.rows, [id |-> 0, port |-> q])].read
    BY <1>1, <2>3 DEF Form
  <2> QED BY <2>1, <2>4
<1> QED BY <1>2, <1>3, <1>4, <1>5 DEF EditForm

LEMMA TypeEdit ==
    ASSUME IInv, NEW p \in Page, EditForm(p)
    PROVE  TypeOK'
<1>1. form' \in [Page -> Form \cup {NoForm}]
  BY EditTakes DEF SetForm, IInv, TypeOK
<1>2. edits' \in 0 .. MaxEdits
  BY Bounds DEF IInv, TypeOK, EditForm
<1> QED BY <1>1, <1>2 DEF IInv, TypeOK, EditForm, store

LEMMA TypeRead ==
    ASSUME IInv, NEW p \in Page, ReadInbounds(p)
    PROVE  TypeOK'
<1> DEFINE f == form[p]
           S == InboundsOf(f.id)
           R(s) == [k \in DOMAIN s |-> [id |-> s[k], port |-> rows[s[k]].port]]
<1>1. f \in Form /\ f.id # 0
  BY DEF IInv, TypeOK, Reading, ReadInbounds
<1>2. PICK s \in Enumerations(S) : SetForm(p, [f EXCEPT !.read = TRUE, !.rows = R(s)])
  BY DEF ReadInbounds
<1>3. Cardinality(S) \in Nat
  <2>1. S \subseteq 1 .. MaxInbounds /\ IsFiniteSet(1 .. MaxInbounds)
    BY Bounds, FS_Interval DEF InboundsOf, InboundId
  <2> QED BY <2>1, FS_Subset, FS_CardinalityType
<1>4. \A i \in S : [id |-> i, port |-> rows[i].port] \in FormRow
  BY <1>1, Rows, Bounds DEF IInv, InboundsOf, InboundId, FormRow, Row, NoRow
<1>5. s \in [1 .. Cardinality(S) -> S]
  BY DEF Enumerations
<1>6. R(s) \in [1 .. Cardinality(S) -> FormRow]
  BY <1>4, <1>5
<1>7. R(s) \in Seq(FormRow)
  BY <1>3, <1>6
<1> HIDE DEF R
<1>8. [f EXCEPT !.read = TRUE, !.rows = R(s)] \in Form
  BY <1>1, <1>7 DEF Form
<1>9. form' \in [Page -> Form \cup {NoForm}]
  BY <1>2, <1>8 DEF IInv, TypeOK, SetForm
<1> QED BY <1>9 DEF IInv, TypeOK, ReadInbounds, store

LEMMA TypeOpen ==
    ASSUME IInv, NEW p \in Page, NewNode(p) \/ ReadNode(p) \/ Close(p) \/ Resume(p)
    PROVE  TypeOK'
<1>1. CASE NewNode(p)
  <2>0. PICK e \in Name, m \in 1 .. MaxRows :
          \E ports \in [1 .. m -> Port] :
            SetForm(p, [id |-> 0, name |-> e, read |-> TRUE,
                        rows |-> [k \in 1 .. m |-> [id |-> 0, port |-> ports[k]]]])
    BY <1>1 DEF NewNode
  <2>1. PICK ports \in [1 .. m -> Port] :
          SetForm(p, [id |-> 0, name |-> e, read |-> TRUE,
                      rows |-> [k \in 1 .. m |-> [id |-> 0, port |-> ports[k]]]])
    BY <2>0
  <2>2. [k \in 1 .. m |-> [id |-> 0, port |-> ports[k]]] \in Seq(FormRow)
    <3>1. \A k \in 1 .. m : [id |-> 0, port |-> ports[k]] \in FormRow
      BY Bounds DEF FormRow
    <3>2. m \in Nat
      BY Bounds
    <3> QED BY <3>1, <3>2
  <2>3. form' \in [Page -> Form \cup {NoForm}]
    BY <2>1, <2>2, Bounds DEF IInv, TypeOK, SetForm, Form
  <2> QED BY <1>1, <2>3 DEF IInv, TypeOK, NewNode, store
<1>2. CASE ReadNode(p)
  <2>1. PICK n \in Live :
          SetForm(p, [id |-> n, name |-> nameOf[n], read |-> FALSE, rows |-> <<>>])
    BY <1>2 DEF ReadNode
  <2>2. n \in 0 .. MaxNodes /\ nameOf[n] \in Name
    BY Bounds DEF Live, NodeId, IInv, TypeOK
  <2>3. form' \in [Page -> Form \cup {NoForm}]
    BY <2>1, <2>2 DEF IInv, TypeOK, SetForm, Form
  <2> QED BY <1>2, <2>3 DEF IInv, TypeOK, ReadNode, store
<1>3. CASE Close(p)
  BY <1>3 DEF IInv, TypeOK, Close, SetForm, store, Answers
<1>4. CASE Resume(p)
  BY <1>4 DEF IInv, TypeOK, Resume, store, Answers
<1> QED BY <1>1, <1>2, <1>3, <1>4

-----------------------------------------------------------------------------
(* A Save that is not refused. *)

Written(f, n) ==
    /\ f \in Form /\ n \in NodeId /\ ~Refused(f)
    /\ n = (IF f.id = 0 THEN lastNode + 1 ELSE f.id)
    /\ nameOf' = IF f.id = 0 \/ f.id \in Live THEN [nameOf EXCEPT ![n] = f.name] ELSE nameOf
    /\ rows' = Stored(f, n)
    /\ lastNode' = IF f.id = 0 THEN n ELSE lastNode
    /\ lastInbound' = lastInbound + Cardinality(Inserted(f))
    /\ lastInbound' <= MaxInbounds

LEMMA SaveWrites ==
    ASSUME IInv, NEW p \in Page, Save(p)
    PROVE  /\ UNCHANGED <<refs, form, edits>>
           /\ \/ UNCHANGED <<store, fresh>> /\ Answer(p, "refused")
              \/ \E n \in NodeId : Written(form[p], n) /\ Outdate(n, p) /\ Answer(p, "saved")
<1> DEFINE f == form[p]
           n == IF f.id = 0 THEN lastNode + 1 ELSE f.id
<1>1. f \in Form
  BY FormTyped DEF IInv, Save
<1>2. CASE Refused(f)
  BY <1>2 DEF Save
<1>3. CASE ~Refused(f)
  <2>1. n \in NodeId /\ lastInbound + Cardinality(Inserted(f)) <= MaxInbounds
    BY DEF Save, Inserted
  <2>2. Written(f, n)
    BY <1>1, <1>3, <2>1 DEF Save, Written, Inserted
  <2>3. Outdate(n, p) /\ Answer(p, "saved")
    BY <1>3 DEF Save
  <2> QED BY <2>1, <2>2, <2>3 DEF Save
<1> QED BY <1>2, <1>3 DEF Save

(* The four cases, as what becomes of a row. *)
LEMMA WrittenRow ==
    ASSUME IInv, NEW f, NEW n, Written(f, n), NEW i \in InboundId
    PROVE  IsNew(f, n, i) \/ IsKept(f, n, i) \/ IsDropped(f, n, i) \/ IsAlone(f, n, i)
BY StoredCases DEF IInv, Written

LEMMA WrittenType ==
    ASSUME IInv, NEW f, NEW n, Written(f, n)
    PROVE  /\ nameOf' \in [NodeId -> Name \cup {NoName}]
           /\ rows' \in [InboundId -> Row \cup {NoRow}]
           /\ lastNode' \in 0 .. MaxNodes
           /\ lastInbound' \in 0 .. MaxInbounds
<1>1. f \in Form /\ n \in NodeId /\ f.name \in Name
  BY FormRows DEF Written
<1>2. nameOf' \in [NodeId -> Name \cup {NoName}]
  BY <1>1 DEF Written, IInv, TypeOK
<1>3. ASSUME NEW i \in InboundId PROVE rows'[i] \in Row \cup {NoRow}
  <2>1. rows'[i] = Stored(f, n)[i]
    BY DEF Written
  <2>2. CASE IsNew(f, n, i)
    BY <1>1, <2>1, <2>2, FormRows DEF IsNew, Inserted, Row
  <2>3. CASE IsKept(f, n, i)
    <3>1. f.id \in NodeId
      BY <1>1, <2>3, FormRows, Bounds DEF IsKept, NodeId
    <3> QED BY <1>1, <2>1, <2>3, <3>1, FormRows DEF IsKept, Row
  <2>4. CASE IsDropped(f, n, i)
    BY <2>1, <2>4 DEF IsDropped
  <2>5. CASE IsAlone(f, n, i)
    BY <2>1, <2>5, Rows DEF IsAlone, IInv
  <2> QED BY <2>2, <2>3, <2>4, <2>5, WrittenRow
<1>4. rows' \in [InboundId -> Row \cup {NoRow}]
  <2>1. DOMAIN rows' = InboundId /\ rows' = [i \in InboundId |-> rows'[i]]
    BY DEF Written, Stored
  <2> QED BY <1>3, <2>1
<1>5. lastNode' \in 0 .. MaxNodes
  BY <1>1, Bounds DEF Written, IInv, TypeOK, NodeId
<1>6. lastInbound' \in 0 .. MaxInbounds
  BY <1>1, Bounds, InsertedFinite DEF Written, IInv, TypeOK
<1> QED BY <1>2, <1>4, <1>5, <1>6

LEMMA WrittenIssued ==
    ASSUME IInv, NEW f, NEW n, Written(f, n)
    PROVE  Issued'
<1>1. f \in Form /\ n \in NodeId /\ Cardinality(Inserted(f)) \in Nat /\ lastInbound \in Nat
      /\ lastInbound' = lastInbound + Cardinality(Inserted(f))
  BY InsertedFinite, Bounds DEF Written, IInv, TypeOK
<1>2. ASSUME NEW i \in InboundId, rows'[i] # NoRow PROVE i <= lastInbound'
  <2>0. i \in Nat /\ rows'[i] = Stored(f, n)[i]
    BY Bounds DEF InboundId, Written
  <2>1. CASE IsNew(f, n, i)
    BY <1>1, <2>1 DEF IsNew
  <2>2. CASE rows[i] # NoRow
    BY <1>1, <2>0, <2>2 DEF IInv, Issued
  <2> QED BY <1>2, <2>0, <2>1, <2>2, WrittenRow DEF IsKept, IsDropped, IsAlone
<1>3. ASSUME NEW m \in NodeId, nameOf'[m] # NoName PROVE m <= lastNode'
  <2>0. m \in Nat /\ n \in Nat /\ lastNode \in Nat /\ f.id \in Nat
    BY <1>1, Bounds, FormRows DEF NodeId, IInv, TypeOK
  <2>1. CASE f.id = 0
    BY <1>3, <2>0, <2>1 DEF Written, IInv, Issued, TypeOK
  <2>2. CASE f.id # 0
    <3>1. nameOf[m] # NoName
      BY <1>3, <2>2 DEF Written, Live, IInv, TypeOK
    <3> QED BY <2>0, <2>2, <3>1 DEF Written, IInv, Issued
  <2> QED BY <2>1, <2>2
<1> QED BY <1>2, <1>3 DEF Issued

LEMMA WrittenSound ==
    ASSUME IInv, NEW f, NEW n, Written(f, n), UNCHANGED refs
    PROVE  RegistrySound'
<1>1. /\ f \in Form /\ n \in NodeId /\ n # 0 /\ f.name \in Name /\ f.name # NoName
      /\ f.id \in 0 .. MaxNodes /\ lastNode \in Nat
      /\ \A i \in InboundId : rows'[i] = Stored(f, n)[i]
  BY FormRows, Bounds, RegistryAssumption DEF Written, RegistryAssumption, NodeId, IInv, TypeOK
<1>2. f.id = 0 => n \notin Live
  BY <1>1, Bounds DEF Written, IInv, Issued, Live, NodeId
<1>3. f.id # 0 => n = f.id
  BY DEF Written
<1>4. \A m \in NodeId : m \in Live => m \in Live'
  BY <1>1 DEF Written, Live, IInv, TypeOK
<1>5. ASSUME NEW m \in Live', NEW l \in Live', nameOf'[m] = nameOf'[l] PROVE m = l
  <2>1. CASE f.id = 0 \/ f.id \in Live
    <3>1. \A k \in NodeId \ {f.id} : nameOf[k] # f.name
      BY <2>1 DEF Written, Refused, NameTaken
    <3>2. \A k \in NodeId : nameOf'[k] = IF k = n THEN f.name ELSE nameOf[k]
      BY <2>1 DEF Written, IInv, TypeOK
    <3>3. \A k \in NodeId \ {n} : nameOf[k] # f.name
      BY <1>3, <3>1, Bounds DEF NodeId
    <3> QED BY <1>5, <3>2, <3>3 DEF Live, IInv, RegistrySound
  <2>2. CASE ~(f.id = 0 \/ f.id \in Live)
    BY <1>5, <2>2 DEF Written, Live, IInv, RegistrySound
  <2> QED BY <2>1, <2>2
<1>6. ASSUME NEW i \in InboundId, rows'[i] # NoRow PROVE rows'[i].node \in Live'
  <2>1. CASE IsNew(f, n, i)
    <3>1. \E k \in DOMAIN f.rows : Inserts(f, k)
      BY <2>1 DEF IsNew, Inserted
    <3>2. f.id = 0 \/ f.id \in Live
      BY <3>1 DEF Written, Refused
    <3>3. n \in Live'
      BY <1>1, <3>2 DEF Written, Live, IInv, TypeOK
    <3> QED BY <1>1, <2>1, <3>3 DEF IsNew
  <2>2. CASE IsKept(f, n, i)
    BY <1>1, <1>4, <2>2 DEF IsKept, IInv, RegistrySound, Live
  <2>3. CASE IsAlone(f, n, i)
    BY <1>1, <1>4, <1>6, <2>3 DEF IsAlone, IInv, RegistrySound, Live
  <2> QED BY <1>1, <1>6, <2>1, <2>2, <2>3, WrittenRow DEF IsDropped
<1>7. ASSUME NEW i \in InboundId, NEW j \in InboundId, rows'[i] = rows'[j], rows'[i] # NoRow
      PROVE  i = j
  <2>0. \A k, l \in DOMAIN f.rows : f.rows[k].port = f.rows[l].port => k = l
    BY DEF Written, Refused, Valid
  <2>1. ASSUME NEW x \in InboundId, NEW y \in InboundId, rows'[x] = rows'[y],
               IsNew(f, n, x), IsKept(f, n, y)
        PROVE  FALSE
    <3>1. PICK k \in Inserted(f) : rows'[x] = [node |-> n, port |-> f.rows[k].port]
      BY <1>1, <2>1 DEF IsNew
    <3>2. PICK l \in DOMAIN f.rows :
            f.rows[l].id = y /\ rows'[y] = [node |-> f.id, port |-> f.rows[l].port]
      BY <1>1, <2>1 DEF IsKept
    <3>3. k = l
      <4>1. rows'[x].port = f.rows[k].port
        BY <3>1
      <4>2. rows'[y].port = f.rows[l].port
        BY <3>2
      <4> QED BY <2>0, <2>1, <4>1, <4>2 DEF Inserted
    <3>4. f.id # 0 /\ y # 0
      BY <2>1, Bounds DEF IsKept, InboundId
    <3> QED BY <3>1, <3>2, <3>3, <3>4 DEF Inserted, Inserts
  <2>2. ASSUME NEW x \in InboundId, NEW y \in InboundId, rows'[x] = rows'[y],
               IsNew(f, n, x) \/ IsKept(f, n, x), IsAlone(f, n, y), rows'[y] # NoRow
        PROVE  FALSE
    <3>0. rows'[y] = rows[y]
      BY <1>1, <2>2 DEF IsAlone
    <3>1. rows'[x].node = n
      <4>1. CASE IsNew(f, n, x)
        <5>1. PICK k \in Inserted(f) : Stored(f, n)[x] = [node |-> n, port |-> f.rows[k].port]
          BY <4>1 DEF IsNew
        <5> QED BY <1>1, <5>1
      <4>2. CASE IsKept(f, n, x)
        <5>1. PICK k \in DOMAIN f.rows :
                Stored(f, n)[x] = [node |-> f.id, port |-> f.rows[k].port]
          BY <4>2 DEF IsKept
        <5> QED BY <1>1, <1>3, <4>2, <5>1 DEF IsKept
      <4> QED BY <2>2, <4>1, <4>2
    <3>2. rows[y].node \in Live
      BY <2>2, <3>0 DEF IInv, RegistrySound
    <3> QED BY <1>2, <1>3, <2>2, <3>0, <3>1, <3>2 DEF IsAlone
  <2>3. CASE IsNew(f, n, i) /\ IsNew(f, n, j)
    BY <1>1, <1>7, <2>0, <2>3 DEF IsNew, Inserted
  <2>4. CASE IsKept(f, n, i) /\ IsKept(f, n, j)
    BY <1>1, <1>7, <2>0, <2>4 DEF IsKept
  <2>5. CASE IsAlone(f, n, i) /\ IsAlone(f, n, j)
    BY <1>1, <1>7, <2>5 DEF IsAlone, IInv, RegistrySound
  <2>6. ~IsDropped(f, n, i) /\ ~IsDropped(f, n, j)
    BY <1>1, <1>7 DEF IsDropped
  <2> QED BY <1>7, <2>1, <2>2, <2>3, <2>4, <2>5, <2>6, WrittenRow
<1>8. ASSUME NEW i \in refs' PROVE rows'[i] # NoRow
  <2>1. i \in InboundId /\ i \in refs /\ rows[i] # NoRow
    BY <1>8 DEF IInv, TypeOK, RegistrySound
  <2>2. ~IsDropped(f, n, i)
    BY <2>1 DEF IsDropped, Written, Refused, Held
  <2>3. CASE IsNew(f, n, i)
    BY <2>1, <2>3 DEF IsNew
  <2>4. CASE IsKept(f, n, i)
    BY <1>1, <2>1, <2>4 DEF IsKept, NoRow
  <2>5. CASE IsAlone(f, n, i)
    BY <1>1, <2>1, <2>5 DEF IsAlone
  <2> QED BY <2>1, <2>2, <2>3, <2>4, <2>5, WrittenRow
<1> QED BY <1>5, <1>6, <1>7, <1>8 DEF RegistrySound

-----------------------------------------------------------------------------
(* Every step. *)

LEMMA DeleteKeeps ==
    ASSUME IInv, Delete
    PROVE  IInv'
<1>1. PICK n \in Live :
        /\ ~Held(InboundsOf(n))
        /\ nameOf' = [nameOf EXCEPT ![n] = NoName]
        /\ rows' = [i \in InboundId |-> IF rows[i].node = n THEN NoRow ELSE rows[i]]
        /\ fresh' = [q \in Page |-> fresh[q] /\ form[q].id # n]
  BY DEF Delete
<1>2. n \in NodeId /\ UNCHANGED <<refs, lastNode, lastInbound, form, answer, edits>>
  BY DEF Delete, Live
<1>3. TypeOK'
  BY <1>1, <1>2 DEF IInv, TypeOK
<1>4. \A m \in NodeId : nameOf'[m] = IF m = n THEN NoName ELSE nameOf[m]
  BY <1>1 DEF IInv, TypeOK
<1>5. \A i \in InboundId : rows'[i] = IF rows[i].node = n THEN NoRow ELSE rows[i]
  BY <1>1
<1>6. RegistrySound'
  <2>1. Live' = Live \ {n}
    BY <1>4 DEF Live
  <2>2. ASSUME NEW i \in InboundId, rows'[i] # NoRow PROVE rows'[i].node \in Live'
    BY <1>5, <2>1, <2>2 DEF IInv, RegistrySound
  <2>3. \A i, j \in InboundId : rows'[i] = rows'[j] /\ rows'[i] # NoRow => i = j
    BY <1>5 DEF IInv, RegistrySound
  <2>4. ASSUME NEW i \in refs PROVE rows'[i] # NoRow
    BY <1>1, <1>5 DEF IInv, TypeOK, RegistrySound, Held, InboundsOf
  <2>5. \A m, l \in Live' : nameOf'[m] = nameOf'[l] => m = l
    BY <1>4, <2>1 DEF Live, IInv, RegistrySound
  <2> QED BY <1>2, <2>2, <2>3, <2>4, <2>5 DEF RegistrySound
<1>7. Issued'
  BY <1>2, <1>4, <1>5 DEF IInv, Issued
<1>8. Reading'
  BY <1>2 DEF IInv, Reading
<1> QED BY <1>3, <1>6, <1>7, <1>8 DEF IInv

LEMMA ReferKeeps ==
    ASSUME IInv, Refer
    PROVE  IInv'
<1>1. TypeOK' /\ Issued' /\ Reading'
  BY DEF Refer, IInv, TypeOK, Issued, Reading, store
<1>2. RegistrySound'
  BY DEF Refer, IInv, RegistrySound, Live, store
<1> QED BY <1>1, <1>2 DEF IInv

(* Steps of a page that only turn to its form. *)
LEMMA PageKeeps ==
    ASSUME IInv, NEW p \in Page,
           \/ NewNode(p) \/ ReadNode(p) \/ ReadInbounds(p)
           \/ EditForm(p) \/ Resume(p) \/ Close(p)
    PROVE  IInv' /\ UNCHANGED <<store, refs>>
<1>1. UNCHANGED <<store, refs>>
  BY DEF NewNode, ReadNode, ReadInbounds, EditForm, Resume, Close
<1>2. TypeOK'
  BY TypeOpen, TypeRead, TypeEdit
<1>3. RegistrySound' /\ Issued'
  BY <1>1 DEF IInv, RegistrySound, Issued, Live, store
<1>4. Reading'
  <2>0. \A q \in Page : form[q].read \/ form[q] = NoForm \/ form[q].id # 0
    BY DEF IInv, Reading
  <2>1. CASE NewNode(p)
    <3>1. form'[p].read /\ \A q \in Page \ {p} : form'[q] = form[q]
      BY <2>1 DEF NewNode, SetForm, IInv, TypeOK
    <3> QED BY <2>0, <3>1 DEF Reading
  <2>2. CASE ReadNode(p)
    <3>1. form'[p].id # 0 /\ \A q \in Page \ {p} : form'[q] = form[q]
      BY <2>2, Bounds DEF ReadNode, SetForm, Live, NodeId, IInv, TypeOK
    <3> QED BY <2>0, <3>1 DEF Reading
  <2>3. CASE ReadInbounds(p)
    <3>1. PICK s \in Enumerations(InboundsOf(form[p].id)) :
            SetForm(p, [form[p] EXCEPT !.read = TRUE,
                          !.rows = [k \in DOMAIN s |->
                                      [id |-> s[k], port |-> rows[s[k]].port]]])
      BY <2>3 DEF ReadInbounds
    <3>2. form[p] \in Form
      BY <2>3 DEF ReadInbounds, IInv, TypeOK
    <3>3. form'[p].read /\ \A q \in Page \ {p} : form'[q] = form[q]
      BY <3>1, <3>2 DEF SetForm, IInv, TypeOK, Form
    <3> QED BY <2>0, <3>3 DEF Reading
  <2>4. CASE EditForm(p)
    <3>1. form'[p].read /\ \A q \in Page \ {p} : form'[q] = form[q]
      BY <2>4, EditTakes DEF SetForm, IInv, TypeOK
    <3> QED BY <2>0, <3>1 DEF Reading
  <2>5. CASE Resume(p)
    BY <2>0, <2>5 DEF Resume, Reading
  <2>6. CASE Close(p)
    BY <2>0, <2>6 DEF Close, SetForm, Reading, IInv, TypeOK
  <2> QED BY <2>1, <2>2, <2>3, <2>4, <2>5, <2>6
<1> QED BY <1>1, <1>2, <1>3, <1>4 DEF IInv

LEMMA SaveKeeps ==
    ASSUME IInv, NEW p \in Page, Save(p)
    PROVE  IInv'
<1>1. UNCHANGED <<refs, form, edits>>
  BY SaveWrites
<1>2. Reading'
  BY <1>1 DEF IInv, Reading
<1>3. CASE UNCHANGED <<store, fresh>> /\ Answer(p, "refused")
  <2>1. TypeOK'
    BY <1>1, <1>3 DEF IInv, TypeOK, store, Answer, Answers
  <2>2. RegistrySound' /\ Issued'
    BY <1>1, <1>3 DEF IInv, RegistrySound, Issued, Live, store
  <2> QED BY <1>2, <2>1, <2>2 DEF IInv
<1>4. CASE \E n \in NodeId : Written(form[p], n) /\ Outdate(n, p) /\ Answer(p, "saved")
  <2>1. PICK n \in NodeId : Written(form[p], n) /\ Outdate(n, p) /\ Answer(p, "saved")
    BY <1>4
  <2>2. answer' \in [Page -> Answers]
    BY <2>1 DEF Answer, Answers, IInv, TypeOK
  <2>3. fresh' \in [Page -> BOOLEAN]
    <3>1. fresh' = [q \in Page |-> fresh[q] /\ (form[q].id # n \/ q = p)]
      BY <2>1 DEF Outdate
    <3> QED BY <3>1, Zenon
  <2>4. TypeOK'
    BY <1>1, <2>1, <2>2, <2>3, WrittenType DEF IInv, TypeOK
  <2>5. RegistrySound' /\ Issued'
    BY <1>1, <2>1, WrittenSound, WrittenIssued
  <2> QED BY <1>2, <2>4, <2>5 DEF IInv
<1> QED BY <1>3, <1>4, SaveWrites

LEMMA Stutter ==
    ASSUME IInv, UNCHANGED vars
    PROVE  IInv'
<1>1. TypeOK'
  BY DEF IInv, TypeOK, vars
<1>2. RegistrySound' /\ Issued' /\ Reading'
  BY DEF IInv, RegistrySound, Issued, Reading, Live, vars
<1> QED BY <1>1, <1>2 DEF IInv

LEMMA Inductive == IInv /\ [Next]_vars => IInv'
BY DeleteKeeps, ReferKeeps, PageKeeps, SaveKeeps, Stutter DEF Next

(* What a step makes of a row, for the action properties. *)
LEMMA SaveHome ==
    ASSUME IInv, NEW p \in Page, Save(p), NEW i \in InboundId,
           rows[i] # NoRow, rows[i].node # form[p].id
    PROVE  rows'[i] = rows[i]
<1>1. CASE UNCHANGED store
  BY <1>1 DEF store
<1>2. CASE \E n \in NodeId : Written(form[p], n)
  <2>1. PICK n \in NodeId : Written(form[p], n)
    BY <1>2
  <2>2. rows'[i] = Stored(form[p], n)[i]
    BY <2>1 DEF Written
  <2> QED BY <2>1, <2>2, WrittenRow DEF IsNew, IsKept, IsDropped, IsAlone
<1> QED BY <1>1, <1>2, SaveWrites

RowStable(i) ==
    /\ rows[i] # NoRow => rows'[i] \in {NoRow} \cup [node : {rows[i].node}, port : Port]
    /\ rows[i] = NoRow /\ i <= lastInbound => rows'[i] = NoRow

LEMMA RowUnchanged ==
    ASSUME IInv, NEW i \in InboundId, rows'[i] = rows[i]
    PROVE  RowStable(i)
BY Rows DEF RowStable, IInv, Row

LEMMA StepStable ==
    ASSUME IInv, Next, NEW i \in InboundId
    PROVE  RowStable(i)
<1>1. CASE UNCHANGED rows
  BY <1>1, RowUnchanged
<1>2. CASE Delete
  <2>1. rows'[i] = NoRow \/ rows'[i] = rows[i]
    BY <1>2 DEF Delete
  <2> QED BY <2>1, RowUnchanged DEF RowStable
<1>3. ASSUME NEW f, NEW n, Written(f, n)
      PROVE  RowStable(i)
  <2>1. f \in Form /\ rows'[i] = Stored(f, n)[i] /\ i \in Nat /\ lastInbound \in Nat
    BY <1>3, Bounds DEF Written, InboundId, IInv, TypeOK
  <2>2. CASE IsNew(f, n, i)
    BY <2>1, <2>2 DEF IsNew, RowStable
  <2>3. CASE IsKept(f, n, i)
    BY <2>1, <2>3, FormRows DEF IsKept, RowStable
  <2>4. CASE IsDropped(f, n, i)
    BY <2>1, <2>4 DEF IsDropped, RowStable
  <2>5. CASE IsAlone(f, n, i)
    BY <2>1, <2>5, RowUnchanged DEF IsAlone
  <2> QED BY <1>3, <2>2, <2>3, <2>4, <2>5, WrittenRow
<1>4. ASSUME NEW p \in Page, Save(p)
      PROVE  RowStable(i)
  BY <1>1, <1>3, <1>4, SaveWrites DEF store
<1>5. ASSUME NEW p \in Page,
             \/ NewNode(p) \/ ReadNode(p) \/ ReadInbounds(p)
             \/ EditForm(p) \/ Resume(p) \/ Close(p)
      PROVE  UNCHANGED rows
  BY <1>5, PageKeeps DEF store
<1>6. Refer => UNCHANGED rows
  BY DEF Refer, store
<1> QED BY <1>1, <1>2, <1>4, <1>5, <1>6 DEF Next

-----------------------------------------------------------------------------
(* Forms nobody overtook. *)

(* The rows of s that carry an id carry one of node n's, and each once. *)
Lists(s, n) ==
    /\ \A k \in DOMAIN s : s[k].id # 0 => rows[s[k].id].node = n
    /\ \A j, k \in DOMAIN s : s[j].id = s[k].id /\ s[j].id # 0 => j = k

Current(p) ==
    fresh[p] /\ form[p].id # 0 =>
        form[p].id \in Live /\ (form[p].read => Lists(form[p].rows, form[p].id))

AllCurrent == \A p \in Page : Current(p)

LEMMA ListsWithout ==
    ASSUME NEW s \in Seq(FormRow), NEW k \in DOMAIN s, NEW n, Lists(s, n)
    PROVE  Lists(Without(s, k), n)
<1> DEFINE t == Without(s, k)
<1>1. k \in 1 .. Len(s) /\ Len(s) \in Nat /\ DOMAIN s = 1 .. Len(s)
  OBVIOUS
<1>2. /\ DOMAIN t = 1 .. Len(s) - 1
      /\ \A j \in DOMAIN t : t[j] = s[IF j < k THEN j ELSE j + 1]
  <2> DEFINE a == SubSeq(s, 1, k - 1)
             b == SubSeq(s, k + 1, Len(s))
  <2>1. a \in Seq(FormRow) /\ Len(a) = k - 1 /\ \A j \in 1 .. k - 1 : a[j] = s[j]
    BY <1>1
  <2>2. /\ b \in Seq(FormRow) /\ Len(b) = Len(s) - k
        /\ \A j \in 1 .. Len(s) - k : b[j] = s[k + j]
    BY <1>1
  <2>3. t = a \o b
    BY DEF Without
  <2> HIDE DEF a, b, t
  <2>0. /\ t \in Seq(FormRow) /\ Len(t) = Len(a) + Len(b)
        /\ \A j \in 1 .. Len(a) + Len(b) : t[j] = IF j <= Len(a) THEN a[j] ELSE b[j - Len(a)]
    BY <2>1, <2>2, <2>3, ConcatProperties
  <2>4. DOMAIN t = 1 .. Len(s) - 1
    BY <1>1, <2>0, <2>1, <2>2
  <2>5. \A j \in 1 .. Len(s) - 1 : t[j] = IF j <= Len(a) THEN a[j] ELSE b[j - Len(a)]
    BY <1>1, <2>0, <2>1, <2>2
  <2>6. ASSUME NEW j \in 1 .. Len(s) - 1
        PROVE  t[j] = s[IF j < k THEN j ELSE j + 1]
    <3>1. CASE j < k
      BY <1>1, <2>1, <2>5, <3>1
    <3>2. CASE ~(j < k)
      <4>1. j - (k - 1) \in 1 .. Len(s) - k /\ k + (j - (k - 1)) = j + 1
        BY <1>1, <3>2
      <4> QED BY <1>1, <2>1, <2>2, <2>5, <3>2, <4>1
    <3> QED BY <3>1, <3>2
  <2> QED BY <2>4, <2>6
<1>3. \A j \in DOMAIN t : (IF j < k THEN j ELSE j + 1) \in DOMAIN s
  BY <1>1, <1>2
<1> HIDE DEF t
<1>4. \A j \in DOMAIN t : t[j].id # 0 => rows[t[j].id].node = n
  BY <1>2, <1>3 DEF Lists
<1>5. \A i, j \in DOMAIN t : t[i].id = t[j].id /\ t[i].id # 0 => i = j
  <2> TAKE i, j \in DOMAIN t
  <2> DEFINE a == IF i < k THEN i ELSE i + 1
             b == IF j < k THEN j ELSE j + 1
  <2> HAVE t[i].id = t[j].id /\ t[i].id # 0
  <2>1. t[i] = s[a] /\ t[j] = s[b] /\ a \in DOMAIN s /\ b \in DOMAIN s
    BY <1>2, <1>3
  <2>2. a = b
    <3> HIDE DEF a, b
    <3> QED BY <2>1 DEF Lists
  <2> QED BY <1>1, <1>2, <2>2
<1> QED BY <1>4, <1>5 DEF Lists, t

LEMMA EditCurrent ==
    ASSUME IInv, AllCurrent, NEW p \in Page, EditForm(p)
    PROVE  Current(p)'
<1> DEFINE f == form[p]
<1>1. /\ f \in Form /\ f.read /\ f.rows \in Seq(FormRow)
      /\ DOMAIN f.rows = 1 .. Len(f.rows) /\ Len(f.rows) \in Nat
  BY FormTyped, FormRows DEF IInv, EditForm
<1>2. UNCHANGED <<fresh, rows, nameOf>>
  BY DEF EditForm, store
<1> SUFFICES ASSUME fresh[p], form'[p].id # 0
             PROVE  form'[p].id \in Live /\ Lists(form'[p].rows, form'[p].id)
  BY <1>2 DEF Current, Live, Lists
<1>3. \A g : SetForm(p, g) => form'[p] = g
  BY DEF SetForm, IInv, TypeOK
<1>4. f.id # 0 => f.id \in Live /\ Lists(f.rows, f.id)
  BY <1>1 DEF AllCurrent, Current
<1>5. CASE \E e \in Name \ {f.name} : SetForm(p, [f EXCEPT !.name = e])
  <2>1. PICK e \in Name : form'[p] = [f EXCEPT !.name = e]
    BY <1>3, <1>5
  <2>2. form'[p].id = f.id /\ form'[p].rows = f.rows
    BY <1>1, <2>1 DEF Form
  <2> QED BY <1>4, <2>2
<1>6. CASE \E k \in DOMAIN f.rows : SetForm(p, [f EXCEPT !.rows = Without(@, k)])
  <2>1. PICK k \in DOMAIN f.rows : form'[p] = [f EXCEPT !.rows = Without(f.rows, k)]
    BY <1>3, <1>6
  <2>2. form'[p].id = f.id /\ form'[p].rows = Without(f.rows, k)
    BY <1>1, <2>1 DEF Form
  <2> QED BY <1>1, <1>4, <2>2, ListsWithout
<1>7. CASE \E ports \in [DOMAIN f.rows -> Port] :
             SetForm(p, [f EXCEPT !.rows =
                           [k \in DOMAIN f.rows |-> [id |-> f.rows[k].id, port |-> ports[k]]]])
  <2>1. PICK ports \in [DOMAIN f.rows -> Port] :
          form'[p] = [f EXCEPT !.rows =
                        [k \in DOMAIN f.rows |-> [id |-> f.rows[k].id, port |-> ports[k]]]]
    BY <1>3, <1>7
  <2> DEFINE t == [k \in DOMAIN f.rows |-> [id |-> f.rows[k].id, port |-> ports[k]]]
  <2>2. form'[p].id = f.id /\ form'[p].rows = t
    BY <1>1, <2>1 DEF Form
  <2>3. DOMAIN t = DOMAIN f.rows /\ \A j \in DOMAIN t : t[j].id = f.rows[j].id
    OBVIOUS
  <2> HIDE DEF t
  <2>4. Lists(f.rows, f.id) => Lists(t, f.id)
    BY <2>3 DEF Lists
  <2> QED BY <1>4, <2>2, <2>4
<1>8. CASE \E q \in Port :
             SetForm(p, [f EXCEPT !.rows = Append(@, [id |-> 0, port |-> q])])
  <2>1. PICK q \in Port :
          form'[p] = [f EXCEPT !.rows = Append(f.rows, [id |-> 0, port |-> q])]
    BY <1>3, <1>8
  <2> DEFINE t == Append(f.rows, [id |-> 0, port |-> q])
  <2>2. form'[p].id = f.id /\ form'[p].rows = t
    BY <1>1, <2>1 DEF Form
  <2>3. /\ DOMAIN t = 1 .. Len(f.rows) + 1
        /\ \A j \in DOMAIN f.rows : t[j] = f.rows[j]
        /\ t[Len(f.rows) + 1].id = 0
    BY <1>1
  <2> HIDE DEF t
  <2>4. \A j \in DOMAIN t : t[j].id # 0 => j \in DOMAIN f.rows
    BY <1>1, <2>3
  <2>5. Lists(f.rows, f.id) => Lists(t, f.id)
    BY <2>3, <2>4 DEF Lists
  <2> QED BY <1>4, <2>2, <2>5
<1> QED BY <1>5, <1>6, <1>7, <1>8 DEF EditForm

LEMMA PageCurrent ==
    ASSUME IInv, AllCurrent, NEW p \in Page,
           NewNode(p) \/ ReadNode(p) \/ ReadInbounds(p) \/ Resume(p) \/ Close(p)
    PROVE  Current(p)'
<1>1. CASE NewNode(p)
  <2>1. form'[p].id = 0
    BY <1>1 DEF NewNode, SetForm, IInv, TypeOK
  <2> QED BY <2>1 DEF Current
<1>2. CASE ReadNode(p)
  <2>1. form'[p].id \in Live /\ form'[p].read = FALSE /\ nameOf' = nameOf
    BY <1>2 DEF ReadNode, SetForm, IInv, TypeOK, store
  <2> QED BY <2>1 DEF Current, Live
<1>3. CASE ReadInbounds(p)
  <2> DEFINE f == form[p]
  <2>1. f \in Form /\ f.id # 0 /\ UNCHANGED <<fresh, nameOf, rows>>
    BY <1>3 DEF IInv, TypeOK, Reading, ReadInbounds, store
  <2>2. PICK s \in Enumerations(InboundsOf(f.id)) :
          SetForm(p, [f EXCEPT !.read = TRUE,
                        !.rows = [k \in DOMAIN s |->
                                    [id |-> s[k], port |-> rows[s[k]].port]]])
    BY <1>3 DEF ReadInbounds
  <2>3. /\ form'[p].id = f.id
        /\ form'[p].rows = [k \in DOMAIN s |-> [id |-> s[k], port |-> rows[s[k]].port]]
    BY <2>1, <2>2 DEF SetForm, IInv, TypeOK, Form
  <2>4. /\ \A k \in DOMAIN s : rows[s[k]].node = f.id
        /\ \A j, k \in DOMAIN s : s[j] = s[k] => j = k
    BY DEF Enumerations, InboundsOf
  <2>5. Lists(form'[p].rows, f.id)
    BY <2>3, <2>4 DEF Lists
  <2>6. fresh[p] => f.id \in Live
    BY <2>1 DEF AllCurrent, Current
  <2> QED BY <2>1, <2>3, <2>5, <2>6 DEF Current, Live, Lists
<1>4. CASE Resume(p)
  BY <1>4 DEF Resume, AllCurrent, Current, Live, Lists, store
<1>5. CASE Close(p)
  <2>1. form'[p].id = 0
    BY <1>5 DEF Close, SetForm, NoForm, IInv, TypeOK
  <2> QED BY <2>1 DEF Current
<1> QED BY <1>1, <1>2, <1>3, <1>4, <1>5

(* The other pages: what they show is as current as before. *)
LEMMA OthersCurrent ==
    ASSUME AllCurrent, NEW q \in Page, UNCHANGED <<store, form[q], fresh[q]>>
    PROVE  Current(q)'
<1>1. nameOf' = nameOf /\ rows' = rows /\ form'[q] = form[q] /\ fresh'[q] = fresh[q]
  BY DEF store
<1>2. Live' = Live
  BY <1>1 DEF Live
<1>3. Lists(form[q].rows, form[q].id)' <=> Lists(form[q].rows, form[q].id)
  BY <1>1 DEF Lists
<1>4. Current(q)
  BY DEF AllCurrent
<1> QED BY <1>1, <1>2, <1>3, <1>4, Zenon DEF Current

LEMMA KeptAsListed ==
    ASSUME IInv, NEW f, NEW n, Written(f, n), f.id # 0, Lists(f.rows, f.id),
           NEW k \in DOMAIN f.rows, f.rows[k].id # 0
    PROVE  rows'[f.rows[k].id] = [node |-> f.id, port |-> f.rows[k].port]
<1> DEFINE i == f.rows[k].id
<1>1. f \in Form /\ i \in InboundId
  BY FormRows, Bounds DEF Written, InboundId
<1>2. rows[i].node = f.id /\ rows[i] # NoRow
  BY DEF Lists, NoRow
<1>3. i \in Kept(f)
  BY <1>1, <1>2 DEF Kept, Own, InboundsOf, Ids
<1>4. IsKept(f, n, i)
  BY <1>1, <1>2, <1>3, WrittenRow DEF IsNew, IsDropped, IsAlone, Dropped
<1>5. rows'[i] = Stored(f, n)[i]
  BY <1>1 DEF Written
<1> QED BY <1>4, <1>5 DEF IsKept, Lists

LEMMA SaveCurrent ==
    ASSUME IInv, AllCurrent, NEW p \in Page, Save(p), NEW q \in Page
    PROVE  Current(q)'
<1>1. UNCHANGED form
  BY SaveWrites
<1>2. CASE UNCHANGED <<store, fresh>>
  BY <1>1, <1>2, OthersCurrent
<1>3. ASSUME NEW n \in NodeId, Written(form[p], n), Outdate(n, p)
      PROVE  Current(q)'
  <2> DEFINE f == form[q]
  <2> SUFFICES ASSUME fresh'[q], f.id # 0
               PROVE  f.id \in Live' /\ (f.read => Lists(f.rows, f.id)')
    BY <1>1 DEF Current, Lists
  <2>1. fresh[q] /\ (f.id # n \/ q = p)
    BY <1>3 DEF Outdate
  <2>2. f.id \in Live /\ (f.read => Lists(f.rows, f.id))
    BY <2>1 DEF AllCurrent, Current
  <2>3. f.id \in Live'
    <3>1. form[p].name # NoName
      BY <1>3, FormRows, RegistryAssumption DEF Written, RegistryAssumption
    <3> QED BY <1>3, <2>2, <3>1 DEF Written, Live, IInv, TypeOK
  <2>4. ASSUME f.read, NEW k \in DOMAIN f.rows, f.rows[k].id # 0
        PROVE  rows'[f.rows[k].id].node = f.id
    <3>1. f \in Form /\ rows[f.rows[k].id].node = f.id
      BY <2>2, <2>4, FormTyped DEF Lists, IInv
    <3>2. f.rows[k].id \in InboundId /\ rows[f.rows[k].id] # NoRow
      BY <2>4, <3>1, FormRows, Bounds DEF InboundId, NoRow
    <3>3. CASE q = p
      <4>1. Written(f, n) /\ Lists(f.rows, f.id)
        BY <1>3, <2>2, <2>4, <3>3
      <4>2. rows'[f.rows[k].id] = [node |-> f.id, port |-> f.rows[k].port]
        <5> HIDE DEF f
        <5> QED BY <2>4, <4>1, KeptAsListed
      <4> QED BY <4>2
    <3>4. CASE q # p
      <4>1. form[p].id # f.id
        BY <1>3, <2>1, <3>4 DEF Written
      <4> QED BY <3>1, <3>2, <4>1, SaveHome
    <3> QED BY <3>3, <3>4
  <2>5. f.read => Lists(f.rows, f.id)'
    BY <1>1, <2>2, <2>4 DEF Lists
  <2> QED BY <2>3, <2>5
<1> QED BY <1>2, <1>3, SaveWrites

LEMMA DeleteCurrent ==
    ASSUME IInv, AllCurrent, Delete, NEW q \in Page
    PROVE  Current(q)'
<1>1. PICK n \in Live :
        /\ nameOf' = [nameOf EXCEPT ![n] = NoName]
        /\ rows' = [i \in InboundId |-> IF rows[i].node = n THEN NoRow ELSE rows[i]]
        /\ fresh' = [x \in Page |-> fresh[x] /\ form[x].id # n]
  BY DEF Delete
<1>2. UNCHANGED form
  BY DEF Delete
<1> DEFINE f == form[q]
<1> SUFFICES ASSUME fresh'[q], f.id # 0
             PROVE  f.id \in Live' /\ (f.read => Lists(f.rows, f.id)')
  BY <1>2 DEF Current, Lists
<1>3. fresh[q] /\ f.id # n
  BY <1>1
<1>4. f.id \in Live /\ (f.read => Lists(f.rows, f.id))
  BY <1>3 DEF AllCurrent, Current
<1>5. f.id \in Live'
  BY <1>1, <1>3, <1>4 DEF Live, IInv, TypeOK
<1>6. ASSUME f.read, NEW k \in DOMAIN f.rows, f.rows[k].id # 0
      PROVE  rows'[f.rows[k].id].node = f.id
  <2>1. f \in Form /\ rows[f.rows[k].id].node = f.id
    BY <1>4, <1>6, FormTyped DEF Lists, IInv
  <2>2. f.rows[k].id \in InboundId
    BY <1>6, <2>1, FormRows, Bounds DEF InboundId
  <2> QED BY <1>1, <1>3, <2>1, <2>2
<1>7. f.read => Lists(f.rows, f.id)'
  BY <1>2, <1>4, <1>6 DEF Lists
<1> QED BY <1>5, <1>7

LEMMA CurrentStep ==
    ASSUME IInv, AllCurrent, [Next]_vars
    PROVE  AllCurrent'
<1> SUFFICES ASSUME NEW q \in Page PROVE Current(q)'
  BY DEF AllCurrent
<1>1. ASSUME NEW p \in Page,
             \/ NewNode(p) \/ ReadNode(p) \/ ReadInbounds(p)
             \/ EditForm(p) \/ Resume(p) \/ Close(p)
      PROVE  Current(q)'
  <2>1. CASE q = p
    BY <1>1, <2>1, PageCurrent, EditCurrent
  <2>2. CASE q # p
    <3>1. UNCHANGED store
      BY <1>1, PageKeeps
    <3>2. UNCHANGED <<form[q], fresh[q]>>
      BY <1>1, <2>2 DEF NewNode, ReadNode, ReadInbounds, EditForm, Resume, Close, SetForm,
                        IInv, TypeOK
    <3> QED BY <3>1, <3>2, OthersCurrent
  <2> QED BY <2>1, <2>2
<1>2. ASSUME Refer \/ UNCHANGED vars PROVE Current(q)'
  BY <1>2, OthersCurrent DEF Refer, vars, store
<1> QED BY <1>1, <1>2, SaveCurrent, DeleteCurrent DEF Next

LEMMA NewIdApart ==
    ASSUME TypeOK, NEW f \in Form, NEW j \in Inserted(f), NEW k \in Inserted(f),
           NewId(f, j) = NewId(f, k)
    PROVE  j = k
<1> DEFINE J(l) == {i \in 1 .. l : Inserts(f, i)}
<1>1. ASSUME NEW x \in Inserted(f), NEW y \in Inserted(f), x < y
      PROVE  NewId(f, x) # NewId(f, y)
  <2>1. x \in Nat /\ y \in Nat /\ y \in 1 .. Len(f.rows) /\ Len(f.rows) \in Nat
    BY FormRows DEF Inserted
  <2>2. J(x) \subseteq J(y) /\ y \in J(y) /\ y \notin J(x)
    BY <1>1, <2>1 DEF Inserted
  <2>3. J(y) \subseteq Inserted(f)
    BY <2>1, FormRows DEF Inserted
  <2>4. /\ IsFiniteSet(J(x)) /\ IsFiniteSet(J(y))
        /\ Cardinality(J(x)) \in Nat /\ Cardinality(J(y)) \in Nat
    BY <2>2, <2>3, InsertedFinite, FS_Subset, FS_CardinalityType
  <2>5. Cardinality(J(x)) # Cardinality(J(y))
    BY <2>2, <2>4, FS_Subset
  <2>6. lastInbound \in Nat
    BY Bounds DEF TypeOK
  <2>7. /\ NewId(f, x) = lastInbound + Cardinality(J(x))
        /\ NewId(f, y) = lastInbound + Cardinality(J(y))
    BY DEF NewId, NextInbound
  <2> HIDE DEF J
  <2> QED BY <2>4, <2>5, <2>6, <2>7
<1>2. j \in Nat /\ k \in Nat
  BY FormRows DEF Inserted
<1> QED BY <1>1, <1>2

LEMMA NewStored ==
    ASSUME IInv, NEW f, NEW n, Written(f, n), NEW k \in Inserted(f)
    PROVE  /\ NewId(f, k) \in InboundId
           /\ rows'[NewId(f, k)] = [node |-> n, port |-> f.rows[k].port]
<1> DEFINE i == NewId(f, k)
<1>1. f \in Form /\ TypeOK /\ lastInbound \in Nat
  BY Bounds DEF Written, IInv, TypeOK
<1>2. i \in InboundId
  BY <1>1, NewIdFresh, InsertedFinite, Bounds DEF Written, InboundId
<1> DEFINE l == CHOOSE j \in DOMAIN f.rows : Inserts(f, j) /\ NewId(f, j) = i
<1>3. k \in DOMAIN f.rows /\ Inserts(f, k)
  BY DEF Inserted
<1>4. l \in Inserted(f) /\ NewId(f, l) = i
  BY <1>3 DEF Inserted
<1>5. Stored(f, n)[i] = [node |-> n, port |-> f.rows[l].port]
  BY <1>2, <1>3 DEF Stored
<1> HIDE DEF l
<1>6. l = k
  BY <1>1, <1>4, NewIdApart
<1> QED BY <1>2, <1>5, <1>6 DEF Written

LEMMA WrittenStores ==
    ASSUME IInv, NEW f, NEW n, Written(f, n), f.id \in Live, Lists(f.rows, f.id)
    PROVE  nameOf'[f.id] = f.name /\ StoredAs(f)
<1>1. f \in Form /\ f.id \in NodeId /\ f.id # 0 /\ n = f.id
  BY Bounds DEF Written, Live, NodeId
<1>2. nameOf'[f.id] = f.name
  BY <1>1 DEF Written, IInv, TypeOK
<1>3. \A k \in DOMAIN f.rows :
        f.rows[k].id # 0 => rows'[f.rows[k].id] = [node |-> f.id, port |-> f.rows[k].port]
  BY <1>1, KeptAsListed
<1>4. ASSUME NEW i \in InboundId, rows'[i].node = f.id
      PROVE  \E k \in DOMAIN f.rows : rows'[i].port = f.rows[k].port
  <2>1. rows'[i] = Stored(f, n)[i]
    BY DEF Written
  <2>2. CASE IsNew(f, n, i)
    <3>1. PICK k \in Inserted(f) : rows'[i] = [node |-> n, port |-> f.rows[k].port]
      BY <2>1, <2>2 DEF IsNew
    <3> QED BY <3>1 DEF Inserted
  <2>3. CASE IsKept(f, n, i)
    <3>1. PICK k \in DOMAIN f.rows : rows'[i] = [node |-> f.id, port |-> f.rows[k].port]
      BY <2>1, <2>3 DEF IsKept
    <3> QED BY <3>1
  <2>4. ~IsDropped(f, n, i)
    BY <1>1, <1>4, <2>1 DEF IsDropped, NoRow
  <2>5. ~IsAlone(f, n, i)
    BY <1>1, <1>4, <2>1 DEF IsAlone
  <2> QED BY <2>2, <2>3, <2>4, <2>5, WrittenRow
<1>5. ASSUME NEW k \in DOMAIN f.rows
      PROVE  \E i \in InboundId : rows'[i].node = f.id /\ rows'[i].port = f.rows[k].port
  <2>1. CASE f.rows[k].id = 0
    <3>1. k \in Inserted(f)
      BY <2>1 DEF Inserted, Inserts
    <3>2. /\ NewId(f, k) \in InboundId
          /\ rows'[NewId(f, k)] = [node |-> f.id, port |-> f.rows[k].port]
      BY <1>1, <3>1, NewStored
    <3> QED BY <3>2
  <2>2. CASE f.rows[k].id # 0
    <3>1. f.rows[k].id \in InboundId
      BY <1>1, <2>2, FormRows, Bounds DEF InboundId
    <3>2. rows'[f.rows[k].id] = [node |-> f.id, port |-> f.rows[k].port]
      BY <1>3, <2>2
    <3> QED BY <3>1, <3>2
  <2> QED BY <2>1, <2>2
<1>6. {rows'[i].port : i \in {j \in InboundId : rows'[j].node = f.id}}
        = {f.rows[k].port : k \in DOMAIN f.rows}
  BY <1>4, <1>5
<1> QED BY <1>2, <1>3, <1>6 DEF StoredAs

LEMMA FreshStep ==
    ASSUME IInv, AllCurrent, NEW p \in Page,
           Save(p), answer'[p] = "saved", form[p].id # 0, fresh[p]
    PROVE  nameOf'[form[p].id] = form[p].name /\ StoredAs(form[p])
<1>1. ~Answer(p, "refused")
  BY DEF Answer, IInv, TypeOK
<1>2. PICK n \in NodeId : Written(form[p], n)
  BY <1>1, SaveWrites
<1>3. form[p].read
  BY DEF Save
<1>4. form[p].id \in Live /\ Lists(form[p].rows, form[p].id)
  BY <1>3 DEF AllCurrent, Current
<1> QED BY <1>2, <1>4, WrittenStores

-----------------------------------------------------------------------------
LEMMA Invariant == Spec => []IInv
<1>1. Init => IInv
  BY TypeInit
<1>2. IInv /\ [Next]_vars => IInv'
  BY Inductive
<1> QED BY <1>1, <1>2, PTL DEF Spec

(* Every variable of the registry and of the pages keeps its type: no form *)
(* gathers an id the store never gave (node_save, repository/nodes).       *)
THEOREM TypeCorrect == Spec => []TypeOK
<1>1. IInv => TypeOK
  BY DEF IInv
<1> QED BY <1>1, Invariant, PTL

(* Names and ports stay unique, inbounds have their node and references    *)
(* their inbound, whatever stale pages submit (Update in update.go, Delete *)
(* in delete.go).                                                          *)
THEOREM Sound == Spec => []RegistrySound
<1>1. IInv => RegistrySound
  BY DEF IInv
<1> QED BY <1>1, Invariant, PTL

(* A Save leaves the inbounds of every other node as they are: the         *)
(* statements of Update are confined to node_id.                           *)
THEOREM Home == Spec => SaveStaysHome
<1>1. IInv /\ [Next]_vars =>
        [\A p \in Page : Save(p) =>
           \A i \in InboundId :
              rows[i] # NoRow /\ rows[i].node # form[p].id => rows'[i] = rows[i]]_vars
  BY SaveHome
<1> QED BY <1>1, Invariant, PTL DEF Spec, SaveStaysHome

(* An inbound's id stays at its node and never comes back: AUTOINCREMENT   *)
(* on node_inbounds.id, and no statement that writes node_id.              *)
THEOREM Stable == Spec => IdsStable
<1>1. IInv /\ [Next]_vars =>
        [\A i \in InboundId :
           /\ rows[i] # NoRow => rows'[i] \in {NoRow} \cup [node : {rows[i].node}, port : Port]
           /\ rows[i] = NoRow /\ i <= lastInbound => rows'[i] = NoRow]_vars
  BY StepStable DEF RowStable
<1> QED BY <1>1, Invariant, PTL DEF Spec, IdsStable

LEMMA CurrentAlways == Spec => []AllCurrent
<1>1. Init => AllCurrent
  BY DEF Init, AllCurrent, Current, NoForm
<1>2. IInv /\ AllCurrent /\ [Next]_vars => AllCurrent'
  BY CurrentStep
<1> QED BY <1>1, <1>2, Invariant, PTL DEF Spec

(* "saved" to a form nobody overtook: the node has exactly the inbounds of *)
(* the form, kept ones under their old ids (Update in update.go).          *)
THEOREM Fresh == Spec => FreshSaveStores
<1>1. IInv /\ AllCurrent /\ [Next]_vars =>
        [\A p \in Page :
           Save(p) /\ answer'[p] = "saved" /\ form[p].id # 0 /\ fresh[p] =>
              nameOf'[form[p].id] = form[p].name /\ StoredAs(form[p])]_vars
  BY FreshStep
<1> QED BY <1>1, Invariant, CurrentAlways, PTL DEF Spec, FreshSaveStores

=============================================================================
