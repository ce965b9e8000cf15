------------------------------ MODULE StoreProofs ------------------------------
(***************************************************************************)
(* Theorems about Migrations and Store.  Of Migrations, for any processes, *)
(* any content of the file they find and any number of crashes: the        *)
(* ledger, what a process that is up can rely on, and the meaning of the   *)
(* content.  Of Store, for any handlers, users, inbounds and page sizes:   *)
(* the connection is lent to a call that runs and to no other, users are   *)
(* stored whole, and a page of the listing shows what its offset asks for. *)
(***************************************************************************)
EXTENDS Store, FiniteSetTheorems, SequenceTheorems, TLAPS

(***************************************************************************)
(* Migrations.                                                             *)
(***************************************************************************)
SpecFrom(files) == InitFrom(files) /\ [][Next]_vars

Numbering == "0003-strict-mihomo-refs"

(* What a process holds at each stage: the write lock, the pragma.         *)
Third(p) == pc[p] = "rules" /\ Current(p) = Numbering
InTx(p) == pc[p] \in {"groups", "record", "commit"} \/ Third(p)
Midway(p) == pc[p] \in {"body", "pragma_off", "providers", "rules", "groups",
                        "record", "commit", "pragma_on"}
Unchecked(p) == \/ pc[p] \in {"providers", "rules", "groups", "pragma_on"}
                \/ pc[p] \in {"record", "commit"} /\ Current(p) \in NoTx
Stages(p) ==
    /\ conn[p].tx <=> InTx(p)
    /\ writer = p <=> conn[p].tx
    /\ Midway(p) => at[p] <= Len(Scripts)
    /\ pc[p] = "body" => Current(p) \notin NoTx
    /\ pc[p] \in {"pragma_off", "rules", "pragma_on"} => Current(p) \in NoTx
    /\ pc[p] \in {"providers", "groups"} => Current(p) = Numbering
    /\ ~conn[p].fk <=> Unchecked(p)

(* The scripts a process has passed are recorded. *)
Past(p) ==
    /\ \A i \in 1 .. Len(Scripts) : i < at[p] => Scripts[i] \in disk.recorded
    /\ pc[p] = "pragma_on" => Current(p) \in disk.recorded
    /\ pc[p] = "up" => at[p] = Len(Scripts) + 1

(* What the transaction of a process has made of the file, which nobody    *)
(* else changes meanwhile.                                                 *)
Linked(p, n) == IF pc[p] = "rules" THEN disk.rules ELSE LinkRules(NumberProviders(disk, n))
Rebuilt(p) ==
    IF Current(p) # Numbering
    THEN work[p].providers = disk.providers /\ work[p].rules = disk.rules
    ELSE \E n \in Numberings(disk) :
           /\ work[p].providers = NumberProviders(disk, n).providers
           /\ work[p].rules = Linked(p, n)
Recorded(p) ==
    IF pc[p] = "commit"
    THEN /\ Current(p) \notin disk.recorded
         /\ work[p].recorded = disk.recorded \cup {Current(p)}
         /\ work[p].schema = disk.schema \cup Adds(Current(p))
    ELSE /\ work[p].recorded = disk.recorded
         /\ work[p].schema \in {disk.schema, disk.schema \cup Adds(Current(p))}
Copies(p) ==
    conn[p].tx =>
        /\ work[p].groups = disk.groups /\ work[p].members = disk.members
        /\ Rebuilt(p) /\ Recorded(p)

(* Before 0003, a provider is told by its config and name.                 *)
Unnumbered ==
    /\ IsFiniteSet(disk.providers)
    /\ Numbering \notin disk.recorded =>
        \A x, y \in disk.providers : x.config = y.config /\ x.name = y.name => x = y

IInv ==
    /\ TypeOK /\ LedgerTrue /\ Unnumbered
    /\ \A p \in Proc : Stages(p) /\ Past(p) /\ Copies(p)

-----------------------------------------------------------------------------
(* The scripts. *)

LEMMA ScriptNames ==
    /\ Len(Scripts) = 5 /\ DOMAIN Scripts = 1 .. 5
    /\ \A i, j \in 1 .. 5 : Scripts[i] = Scripts[j] => i = j
    /\ Scripts[3] = Numbering /\ NoTx = {Scripts[3], Scripts[4]}
    /\ Scripts[1] = "0001-init"
<1>1. /\ Scripts[1] = "0001-init" /\ Scripts[2] = "0002-users-description"
      /\ Scripts[3] = "0003-strict-mihomo-refs" /\ Scripts[4] = "0004-mihomo-rule-children"
      /\ Scripts[5] = "0005-inbound-kind" /\ Len(Scripts) = 5 /\ DOMAIN Scripts = 1 .. 5
  BY DEF Scripts
<1>2. \A i \in 1 .. 5 : i = 1 \/ i = 2 \/ i = 3 \/ i = 4 \/ i = 5
  OBVIOUS
<1>3. \A i, j \in 1 .. 5 : Scripts[i] = Scripts[j] => i = j
  BY <1>1, <1>2
<1> QED BY <1>1, <1>3 DEF NoTx, Numbering

LEMMA ScriptAdds ==
    /\ \A i \in 1 .. 5 : \E x : Adds(Scripts[i]) = {x}
    /\ \A i, j \in 1 .. 5 : Adds(Scripts[i]) = Adds(Scripts[j]) => i = j
    /\ \A i \in 1 .. 5 : "rules.provider_id" \in Adds(Scripts[i]) <=> i = 3
<1>1. /\ Adds(Scripts[1]) = {"tables"} /\ Adds(Scripts[2]) = {"users.description"}
      /\ Adds(Scripts[3]) = {"rules.provider_id"} /\ Adds(Scripts[4]) = {"rules.parent_id"}
      /\ Adds(Scripts[5]) = {"node_inbounds.kind"}
  BY DEF Scripts, Adds
<1>2. \A i \in 1 .. 5 : i = 1 \/ i = 2 \/ i = 3 \/ i = 4 \/ i = 5
  OBVIOUS
<1>3. \A i \in 1 .. 5 : \E x : Adds(Scripts[i]) = {x}
  BY <1>1, <1>2
<1>4. \A i, j \in 1 .. 5 : Adds(Scripts[i]) = Adds(Scripts[j]) => i = j
  BY <1>1, <1>2
<1>5. \A i \in 1 .. 5 : "rules.provider_id" \in Adds(Scripts[i]) <=> i = 3
  BY <1>1, <1>2
<1> QED BY <1>3, <1>4, <1>5

(* The script a process is at. *)
LEMMA AtScript ==
    ASSUME TypeOK, NEW p \in Proc, Stages(p), Midway(p)
    PROVE  /\ at[p] \in 1 .. 5 /\ Current(p) = Scripts[at[p]]
           /\ Current(p) \in {Scripts[i] : i \in DOMAIN Scripts}
           /\ Adds(Current(p)) \subseteq UNION {Adds(Scripts[i]) : i \in DOMAIN Scripts}
<1>1. at[p] \in 1 .. 5 /\ Current(p) = Scripts[at[p]]
  BY ScriptNames DEF TypeOK, Stages, Current
<1> QED BY <1>1, ScriptNames

LEMMA NumberType ==
    ASSUME NEW f \in File, IsFiniteSet(f.providers), NEW n \in Numberings(f)
    PROVE  /\ NumberProviders(f, n) \in File
           /\ IsFiniteSet(NumberProviders(f, n).providers)
           /\ NumberProviders(f, n).providers = {[r EXCEPT !.id = n[r]] : r \in f.providers}
<1> DEFINE P == f.providers
           T == {[r EXCEPT !.id = n[r]] : r \in P}
           h == [r \in P |-> [r EXCEPT !.id = n[r]]]
<1>1. P \subseteq Provider /\ Cardinality(P) \in Nat
  BY FS_CardinalityType DEF File
<1>2. n \in [P -> 1 .. Cardinality(P)]
  BY DEF Numberings
<1>3. \A r \in P : [r EXCEPT !.id = n[r]] \in Provider
  BY <1>1, <1>2 DEF Provider
<1>4. NumberProviders(f, n).providers = T
  BY DEF NumberProviders, File
<1>5. NumberProviders(f, n) \in File
  BY <1>3 DEF NumberProviders, File
<1>6. h \in Surjection(P, T)
  BY DEF Surjection
<1>7. IsFiniteSet(T)
  BY <1>6, FS_Surjection
<1> QED BY <1>4, <1>5, <1>7

LEMMA NumberKeeps ==
    ASSUME NEW f \in File, NEW n
    PROVE  LET g == NumberProviders(f, n)
           IN  /\ g.rules = f.rules /\ g.groups = f.groups /\ g.members = f.members
               /\ g.recorded = f.recorded /\ g.schema = f.schema
BY DEF NumberProviders, File

LEMMA LinkType ==
    ASSUME NEW f \in File
    PROVE  LinkRules(f) \subseteq Rule
<1> SUFFICES ASSUME NEW r \in f.rules
             PROVE  [r EXCEPT !.value = NoRef,
                       !.provider = LET ids == {x.id : x \in {y \in f.providers :
                                            y.config = r.config /\ y.name = r.value}}
                            IN  IF ids = {} THEN NoRef ELSE CHOOSE i \in ids : TRUE] \in Rule
  BY DEF LinkRules
<1> DEFINE ids == {x.id : x \in {y \in f.providers : y.config = r.config /\ y.name = r.value}}
           i == IF ids = {} THEN NoRef ELSE CHOOSE i \in ids : TRUE
<1>1. ids \subseteq Nat \cup {NoRef}
  BY DEF File, Provider
<1>2. i \in Nat \cup {NoRef}
  BY <1>1
<1>3. r \in Rule
  BY DEF File
<1> HIDE DEF i
<1>4. [r EXCEPT !.value = NoRef, !.provider = i] \in Rule
  BY <1>2, <1>3 DEF Rule
<1> QED BY <1>4 DEF i

-----------------------------------------------------------------------------
(* Steps. *)

(* What a step of p leaves alone. *)
Elsewhere(p) ==
    /\ \A q \in Proc \ {p} :
         /\ pc'[q] = pc[q] /\ at'[q] = at[q] /\ conn'[q] = conn[q] /\ work'[q] = work[q]
         /\ writer' = q <=> writer = q
    /\ disk' = disk \/ writer \in {NoOne, p}
    /\ disk.recorded \subseteq disk'.recorded

LEMMA OthersKeep ==
    ASSUME IInv, NEW p \in Proc, NEW q \in Proc \ {p}, Elsewhere(p)
    PROVE  Stages(q)' /\ Past(q)' /\ Copies(q)'
<1>1. /\ pc'[q] = pc[q] /\ at'[q] = at[q] /\ conn'[q] = conn[q] /\ work'[q] = work[q]
      /\ writer' = q <=> writer = q
  BY DEF Elsewhere
<1>2. Current(q)' = Current(q)
  BY <1>1 DEF Current
<1>3. Stages(q)'
  BY <1>1, <1>2 DEF IInv, Stages, InTx, Third, Midway, Unchecked
<1>4. Past(q)'
  BY <1>1, <1>2 DEF IInv, Past, Elsewhere
<1>5. Copies(q)'
  <2> SUFFICES ASSUME conn[q].tx PROVE Copies(q)'
    BY <1>1 DEF Copies
  <2>1. writer = q /\ q # NoOne
    BY MigrationsAssumption DEF IInv, Stages, MigrationsAssumption
  <2>2. disk' = disk
    BY <2>1 DEF Elsewhere
  <2>3. Rebuilt(q)' <=> Rebuilt(q)
    BY <1>1, <1>2, <2>2 DEF Rebuilt, Linked
  <2>4. Recorded(q)' <=> Recorded(q)
    BY <1>1, <1>2, <2>2 DEF Recorded
  <2> QED BY <1>1, <2>2, <2>3, <2>4 DEF IInv, Copies
<1> QED BY <1>3, <1>4, <1>5

LEMMA Local ==
    ASSUME IInv, NEW p \in Proc, Elsewhere(p), TypeOK',
           LedgerTrue', Unnumbered', Stages(p)', Past(p)', Copies(p)'
    PROVE  IInv'
BY OthersKeep DEF IInv

(* A step that leaves recorded, schema and providers as they are. *)
LEMMA LedgerKept ==
    ASSUME IInv, disk'.recorded = disk.recorded, disk'.schema = disk.schema,
           disk'.providers = disk.providers
    PROVE  LedgerTrue' /\ Unnumbered'
BY DEF IInv, LedgerTrue, Unnumbered

LEMMA OpenKeeps ==
    ASSUME IInv, NEW p \in Proc, Open(p)
    PROVE  IInv'
<1>1. TypeOK' /\ Elsewhere(p)
  BY DEF IInv, TypeOK, Stage, NewConn, Open, Elsewhere, Scripts
<1>2. LedgerTrue' /\ Unnumbered'
  BY LedgerKept DEF Open
<1>3. /\ pc'[p] = "ledger" /\ conn'[p] = NewConn /\ writer' = writer /\ writer # p
      /\ at'[p] = 1
  BY DEF Open, IInv, TypeOK, Stages, InTx, Third
<1>4. Stages(p)' /\ Past(p)' /\ Copies(p)'
  BY <1>3, ScriptNames DEF Stages, InTx, Third, Midway, Unchecked, NewConn, Past, Copies
<1> QED BY <1>1, <1>2, <1>4, Local

LEMMA EnsureLedgerKeeps ==
    ASSUME IInv, NEW p \in Proc, EnsureLedger(p)
    PROVE  IInv'
<1>1. /\ pc'[p] = "check" /\ pc[p] = "ledger" /\ UNCHANGED <<writer, at, work, conn, deaths>>
      /\ disk' = [disk EXCEPT !.ledger = TRUE]
  BY DEF EnsureLedger, IInv, TypeOK
<1>2. TypeOK' /\ Elsewhere(p)
  BY DEF IInv, TypeOK, Stage, EnsureLedger, Elsewhere, File
<1>3. /\ disk'.recorded = disk.recorded /\ disk'.schema = disk.schema
      /\ disk'.providers = disk.providers
  BY <1>1 DEF IInv, TypeOK, File
<1>4. LedgerTrue' /\ Unnumbered'
  BY <1>3, LedgerKept
<1>5. ~conn[p].tx /\ writer # p /\ conn[p].fk
  BY <1>1 DEF IInv, Stages, InTx, Third, Unchecked
<1>6. Stages(p)' /\ Copies(p)'
  BY <1>1, <1>5 DEF Stages, InTx, Third, Midway, Unchecked, Copies
<1>7. Past(p)'
  BY <1>1, <1>3 DEF IInv, Past
<1> QED BY <1>2, <1>4, <1>6, <1>7, Local

LEMMA CheckKeeps ==
    ASSUME IInv, NEW p \in Proc, Check(p)
    PROVE  IInv'
<1>1. pc[p] = "check" /\ UNCHANGED <<disk, writer, work, conn, deaths>> /\ at[p] \in 1 .. 6
  BY ScriptNames DEF Check, IInv, TypeOK
<1>2. ~conn[p].tx /\ writer # p /\ conn[p].fk
  BY <1>1 DEF IInv, Stages, InTx, Third, Unchecked
<1>3. LedgerTrue' /\ Unnumbered'
  BY <1>1, LedgerKept
<1>4. CASE at[p] > Len(Scripts)
  <2>1. pc'[p] = "up" /\ at' = at /\ at[p] = 6 /\ pc' = [pc EXCEPT ![p] = "up"]
    BY <1>1, <1>4, ScriptNames DEF Check, IInv, TypeOK
  <2>2. TypeOK' /\ Elsewhere(p)
    BY <1>1, <2>1 DEF IInv, TypeOK, Stage, Elsewhere
  <2>3. Stages(p)' /\ Past(p)' /\ Copies(p)'
    BY <1>1, <1>2, <2>1, ScriptNames
       DEF IInv, Stages, InTx, Third, Midway, Unchecked, Past, Copies
  <2> QED BY <1>3, <2>2, <2>3, Local
<1>5. CASE at[p] <= Len(Scripts) /\ Applied(Current(p))
  <2>1. /\ at' = [at EXCEPT ![p] = @ + 1] /\ pc' = pc /\ at'[p] = at[p] + 1
        /\ Scripts[at[p]] \in disk.recorded
    BY <1>1, <1>5, ScriptNames DEF Check, Applied, Current, IInv, TypeOK
  <2>2. TypeOK' /\ Elsewhere(p)
    BY <1>1, <1>5, <2>1, ScriptNames DEF IInv, TypeOK, Elsewhere
  <2>3. Stages(p)' /\ Copies(p)'
    BY <1>1, <1>2, <2>1 DEF Stages, InTx, Third, Midway, Unchecked, Copies
  <2>4. Past(p)'
    BY <1>1, <2>1, ScriptNames DEF IInv, Past
  <2> QED BY <1>3, <2>2, <2>3, <2>4, Local
<1>6. CASE at[p] <= Len(Scripts) /\ ~Applied(Current(p))
  <2>1. /\ at' = at
        /\ pc' = [pc EXCEPT ![p] = IF Current(p) \in NoTx THEN "pragma_off" ELSE "body"]
        /\ pc'[p] = IF Current(p) \in NoTx THEN "pragma_off" ELSE "body"
    BY <1>1, <1>6, ScriptNames DEF Check, IInv, TypeOK
  <2>2. TypeOK' /\ Elsewhere(p)
    BY <1>1, <2>1 DEF IInv, TypeOK, Elsewhere, Stage
  <2>3. Current(p)' = Current(p)
    BY <2>1 DEF Current
  <2>4. Stages(p)' /\ Past(p)' /\ Copies(p)'
    BY <1>1, <1>2, <1>6, <2>1, <2>3
       DEF IInv, Stages, InTx, Third, Midway, Unchecked, Copies, Past
  <2> QED BY <1>3, <2>2, <2>4, Local
<1> QED BY <1>1, <1>4, <1>5, <1>6, ScriptNames

LEMMA PragmaOffKeeps ==
    ASSUME IInv, NEW p \in Proc, PragmaOff(p)
    PROVE  IInv'
<1>1. /\ pc[p] = "pragma_off" /\ UNCHANGED <<disk, writer, at, work, deaths>>
      /\ pc'[p] = (IF Current(p) = Numbering THEN "providers" ELSE "rules")
      /\ conn'[p].fk = FALSE /\ conn'[p].tx = conn[p].tx
  BY DEF PragmaOff, IInv, TypeOK, Numbering
<1>2. TypeOK' /\ Elsewhere(p)
  BY DEF PragmaOff, IInv, TypeOK, Elsewhere, Stage
<1>3. LedgerTrue' /\ Unnumbered'
  BY <1>1, LedgerKept
<1>4. ~conn[p].tx /\ writer # p /\ Current(p) \in NoTx /\ at[p] <= Len(Scripts)
  BY <1>1 DEF IInv, Stages, InTx, Third, Midway
<1>5. Current(p)' = Current(p)
  BY <1>1 DEF Current
<1>6. Stages(p)' /\ Past(p)' /\ Copies(p)'
  BY <1>1, <1>4, <1>5 DEF IInv, Stages, InTx, Third, Midway, Unchecked, Copies, Past
<1> QED BY <1>2, <1>3, <1>6, Local

LEMMA PragmaOnKeeps ==
    ASSUME IInv, NEW p \in Proc, PragmaOn(p)
    PROVE  IInv'
<1>1. /\ pc[p] = "pragma_on" /\ UNCHANGED <<disk, writer, work, deaths>>
      /\ pc'[p] = "check" /\ conn'[p].fk = TRUE /\ conn'[p].tx = conn[p].tx
      /\ at'[p] = at[p] + 1
  BY DEF PragmaOn, IInv, TypeOK
<1>2. at[p] \in 1 .. 5 /\ Current(p) = Scripts[at[p]]
  BY <1>1, AtScript DEF IInv, Midway
<1>3. TypeOK' /\ Elsewhere(p)
  <2>1. at' \in [Proc -> 1 .. Len(Scripts) + 1]
    BY <1>2, ScriptNames DEF PragmaOn, IInv, TypeOK
  <2>2. /\ conn' \in [Proc -> [fk : BOOLEAN, tx : BOOLEAN]]
        /\ \A q \in Proc : conn'[q].tx = conn[q].tx
    BY DEF PragmaOn, IInv, TypeOK
  <2>3. TypeOK'
    BY <2>1, <2>2 DEF PragmaOn, IInv, TypeOK, Stage
  <2>4. Elsewhere(p)
    BY DEF PragmaOn, IInv, TypeOK, Elsewhere
  <2> QED BY <2>3, <2>4
<1>4. LedgerTrue' /\ Unnumbered'
  BY <1>1, LedgerKept
<1>5. ~conn[p].tx /\ writer # p /\ Current(p) \in disk.recorded
  BY <1>1 DEF IInv, Stages, InTx, Third, Past
<1>6. Stages(p)' /\ Copies(p)'
  BY <1>1, <1>5 DEF Stages, InTx, Third, Midway, Unchecked, Copies
<1>7. Past(p)'
  BY <1>1, <1>2, <1>5 DEF IInv, Past
<1> QED BY <1>3, <1>4, <1>6, <1>7, Local

LEMMA GoneKeeps ==
    ASSUME IInv, NEW p \in Proc, Gone(p)
    PROVE  IInv'
<1>1. /\ pc'[p] = "down" /\ conn'[p] = NewConn /\ at'[p] = 1 /\ disk' = disk
      /\ writer' # p
  BY MigrationsAssumption DEF Gone, IInv, TypeOK, MigrationsAssumption
<1>2. TypeOK' /\ Elsewhere(p)
  <2>1. \A q \in Proc \ {p} : writer' = q <=> writer = q
    BY MigrationsAssumption DEF Gone, MigrationsAssumption
  <2>2. TypeOK'
    <3>1. \A q \in Proc : conn'[q].tx => writer' = q
      BY <2>1, <1>1 DEF Gone, IInv, TypeOK, NewConn
    <3> QED BY <3>1, ScriptNames DEF Gone, IInv, TypeOK, NewConn, Stage
  <2> QED BY <2>1, <2>2 DEF Gone, IInv, TypeOK, Elsewhere
<1>3. LedgerTrue' /\ Unnumbered'
  BY <1>1, LedgerKept
<1>4. Stages(p)' /\ Past(p)' /\ Copies(p)'
  BY <1>1 DEF Stages, InTx, Third, Midway, Unchecked, Copies, Past, NewConn
<1> QED BY <1>2, <1>3, <1>4, Local

LEMMA BeginTakes ==
    ASSUME IInv, NEW p \in Proc, NEW f \in File, Begin(p, f)
    PROVE  /\ writer = NoOne /\ writer' = p /\ work' \in [Proc -> File] /\ work'[p] = f
           /\ conn' \in [Proc -> [fk : BOOLEAN, tx : BOOLEAN]]
           /\ conn'[p].tx = TRUE /\ conn'[p].fk = conn[p].fk
           /\ \A q \in Proc \ {p} : conn'[q] = conn[q] /\ work'[q] = work[q] /\ ~conn'[q].tx
<1>1. \A q \in Proc : q # NoOne
  BY MigrationsAssumption DEF MigrationsAssumption
<1> QED BY <1>1 DEF Begin, IInv, TypeOK

LEMMA RunBodyKeeps ==
    ASSUME IInv, NEW p \in Proc, RunBody(p)
    PROVE  IInv'
<1> DEFINE f == Body(Current(p), disk)
<1>1. pc[p] = "body" /\ pc'[p] = "record" /\ UNCHANGED <<disk, at, deaths>> /\ Begin(p, f)
  BY DEF RunBody, IInv, TypeOK
<1>2. Current(p) \notin NoTx /\ Current(p) # Numbering /\ at[p] <= Len(Scripts) /\ conn[p].fk
  BY <1>1, ScriptNames DEF IInv, Stages, Midway, Unchecked
<1>3. /\ f \in File /\ f.recorded = disk.recorded /\ f.schema = disk.schema \cup Adds(Current(p))
      /\ f.providers = disk.providers /\ f.rules = disk.rules
      /\ f.groups = disk.groups /\ f.members = disk.members
  BY <1>1, AtScript DEF IInv, TypeOK, Midway, Body, File
<1> HIDE DEF f
<1>4. /\ writer = NoOne /\ writer' = p /\ work' \in [Proc -> File] /\ work'[p] = f
      /\ conn' \in [Proc -> [fk : BOOLEAN, tx : BOOLEAN]]
      /\ conn'[p].tx = TRUE /\ conn'[p].fk = conn[p].fk
      /\ \A q \in Proc \ {p} : conn'[q] = conn[q] /\ work'[q] = work[q] /\ ~conn'[q].tx
  BY <1>1, <1>3, BeginTakes
<1>5. Current(p)' = Current(p)
  BY <1>1 DEF Current
<1>6. TypeOK' /\ Elsewhere(p)
  BY <1>1, <1>4, MigrationsAssumption
     DEF RunBody, IInv, TypeOK, Stage, Elsewhere, MigrationsAssumption
<1>7. LedgerTrue' /\ Unnumbered'
  BY <1>1, LedgerKept
<1>8. Stages(p)'
  BY <1>1, <1>2, <1>4, <1>5 DEF Stages, InTx, Third, Midway, Unchecked
<1>9. Past(p)'
  BY <1>1 DEF IInv, Past
<1>10. Copies(p)'
  BY <1>1, <1>2, <1>3, <1>4, <1>5 DEF Copies, Rebuilt, Recorded
<1> QED BY <1>6, <1>7, <1>8, <1>9, <1>10, Local

LEMMA RebuildProvidersKeeps ==
    ASSUME IInv, NEW p \in Proc, RebuildProviders(p)
    PROVE  IInv'
<1>1. /\ pc[p] = "providers" /\ pc'[p] = "rules" /\ UNCHANGED <<disk, at, deaths>>
      /\ \E n \in Numberings(disk) : Begin(p, NumberProviders(disk, n))
  BY DEF RebuildProviders, IInv, TypeOK
<1>2. Current(p) \in NoTx /\ Current(p) = Numbering /\ at[p] <= Len(Scripts) /\ ~conn[p].fk
  BY <1>1, ScriptNames DEF IInv, Stages, Midway, Unchecked
<1>3. PICK n \in Numberings(disk) : Begin(p, NumberProviders(disk, n))
  BY <1>1
<1> DEFINE f == NumberProviders(disk, n)
<1>4. disk \in File /\ IsFiniteSet(disk.providers) /\ f \in File
  BY NumberType DEF IInv, TypeOK, Unnumbered
<1>5. /\ f.recorded = disk.recorded /\ f.schema = disk.schema
      /\ f.rules = disk.rules /\ f.groups = disk.groups /\ f.members = disk.members
  BY <1>4, NumberKeeps
<1>6. /\ writer = NoOne /\ writer' = p /\ work' \in [Proc -> File] /\ work'[p] = f
      /\ conn' \in [Proc -> [fk : BOOLEAN, tx : BOOLEAN]]
      /\ conn'[p].tx = TRUE /\ conn'[p].fk = conn[p].fk
      /\ \A q \in Proc \ {p} : conn'[q] = conn[q] /\ work'[q] = work[q] /\ ~conn'[q].tx
  BY <1>3, <1>4, BeginTakes
<1> HIDE DEF f
<1>7. Current(p)' = Current(p)
  BY <1>1 DEF Current
<1>8. TypeOK' /\ Elsewhere(p)
  BY <1>1, <1>6, MigrationsAssumption
     DEF RebuildProviders, IInv, TypeOK, Stage, Elsewhere, MigrationsAssumption
<1>9. LedgerTrue' /\ Unnumbered'
  BY <1>1, LedgerKept
<1>10. Stages(p)'
  BY <1>1, <1>2, <1>6, <1>7 DEF Stages, InTx, Third, Midway, Unchecked
<1>11. Past(p)'
  BY <1>1 DEF IInv, Past
<1>12. Copies(p)'
  <2>1. Rebuilt(p)'
    BY <1>1, <1>2, <1>5, <1>6, <1>7 DEF Rebuilt, Linked, f
  <2> QED BY <1>1, <1>5, <1>6, <2>1 DEF Copies, Recorded
<1> QED BY <1>8, <1>9, <1>10, <1>11, <1>12, Local

(* What LinkRules reads of a file. *)
LEMMA LinkReads ==
    ASSUME NEW f, NEW g, f.providers = g.providers, f.rules = g.rules
    PROVE  LinkRules(f) = LinkRules(g)
BY DEF LinkRules

LEMMA RebuildRulesKeeps ==
    ASSUME IInv, NEW p \in Proc, RebuildRules(p)
    PROVE  IInv'
<1>1. pc[p] = "rules" /\ UNCHANGED <<disk, at, deaths>> /\ Current(p)' = Current(p)
  BY DEF RebuildRules, Current
<1>2. Current(p) \in NoTx /\ at[p] <= Len(Scripts) /\ ~conn[p].fk
  BY <1>1 DEF IInv, Stages, Midway, Unchecked
<1>3. LedgerTrue' /\ Unnumbered'
  BY <1>1, LedgerKept
<1>4. pc'[p] # "pragma_on" /\ pc'[p] # "up" => Past(p)'
  BY <1>1 DEF IInv, Past
<1>5. CASE Current(p) = "0003-strict-mihomo-refs"
  <2> DEFINE linked == LinkRules(work[p])
  <2>1. Current(p) = Numbering /\ Third(p) /\ conn[p].tx /\ Current(p) # "0004-mihomo-rule-children"
    BY <1>1, <1>5 DEF Numbering, Third, IInv, Stages, InTx
  <2>2. linked \subseteq Rule /\ work[p] \in File
    BY LinkType DEF IInv, TypeOK
  <2> HIDE DEF linked
  <2>3. /\ work' = [work EXCEPT ![p].rules = linked] /\ UNCHANGED <<writer, conn>>
        /\ pc' = [pc EXCEPT ![p] = "groups"] /\ pc'[p] = "groups"
    BY <1>1, <2>1 DEF RebuildRules, linked, IInv, TypeOK
  <2>4. /\ work'[p] \in File /\ work'[p].rules = linked
        /\ work'[p].providers = work[p].providers /\ work'[p].groups = work[p].groups
        /\ work'[p].members = work[p].members /\ work'[p].recorded = work[p].recorded
        /\ work'[p].schema = work[p].schema
    BY <2>2, <2>3 DEF File, IInv, TypeOK
  <2>5. TypeOK' /\ Elsewhere(p)
    BY <1>1, <2>3, <2>4 DEF IInv, TypeOK, Stage, Elsewhere
  <2>6. Stages(p)'
    BY <1>1, <1>2, <2>1, <2>3 DEF IInv, Stages, InTx, Third, Midway, Unchecked
  <2>7. PICK n \in Numberings(disk) :
          /\ work[p].providers = NumberProviders(disk, n).providers
          /\ work[p].rules = disk.rules
    BY <1>1, <2>1 DEF IInv, Copies, Rebuilt, Linked
  <2>8. linked = LinkRules(NumberProviders(disk, n))
    BY <2>7, LinkReads, NumberKeeps DEF linked, IInv, TypeOK
  <2>9. Copies(p)'
    <3>1. Rebuilt(p)'
      BY <1>1, <2>1, <2>3, <2>4, <2>7, <2>8 DEF Rebuilt, Linked
    <3>2. Recorded(p)'
      BY <1>1, <2>1, <2>3, <2>4 DEF IInv, Copies, Recorded
    <3> QED BY <1>1, <2>1, <2>3, <2>4, <3>1, <3>2 DEF IInv, Copies
  <2> QED BY <1>3, <1>4, <2>3, <2>5, <2>6, <2>9, Local
<1>6. CASE Current(p) = "0004-mihomo-rule-children"
  <2>1. Current(p) # Numbering /\ disk \in File
    BY <1>6 DEF Numbering, IInv, TypeOK
  <2>2. Begin(p, disk) /\ pc' = [pc EXCEPT ![p] = "record"] /\ pc'[p] = "record"
    BY <1>1, <2>1 DEF RebuildRules, IInv, TypeOK, Numbering
  <2>3. /\ writer = NoOne /\ writer' = p /\ work' \in [Proc -> File] /\ work'[p] = disk
        /\ conn' \in [Proc -> [fk : BOOLEAN, tx : BOOLEAN]]
        /\ conn'[p].tx = TRUE /\ conn'[p].fk = conn[p].fk
        /\ \A q \in Proc \ {p} : conn'[q] = conn[q] /\ work'[q] = work[q] /\ ~conn'[q].tx
    BY <2>1, <2>2, BeginTakes
  <2>4. TypeOK' /\ Elsewhere(p)
    BY <1>1, <2>2, <2>3, MigrationsAssumption
       DEF IInv, TypeOK, Stage, Elsewhere, MigrationsAssumption
  <2>5. Stages(p)'
    BY <1>1, <1>2, <2>2, <2>3 DEF Stages, InTx, Third, Midway, Unchecked
  <2>6. Copies(p)'
    BY <1>1, <2>1, <2>2, <2>3 DEF Copies, Rebuilt, Recorded
  <2> QED BY <1>3, <1>4, <2>2, <2>4, <2>5, <2>6, Local
<1> QED BY <1>1, <1>5, <1>6 DEF RebuildRules

LEMMA RebuildGroupsKeeps ==
    ASSUME IInv, NEW p \in Proc, RebuildGroups(p)
    PROVE  IInv'
<1>1. /\ pc[p] = "groups" /\ UNCHANGED <<disk, writer, at, conn, deaths>>
      /\ pc' = [pc EXCEPT ![p] = "record"] /\ pc'[p] = "record" /\ Current(p)' = Current(p)
  BY DEF RebuildGroups, Current, IInv, TypeOK
<1>2. /\ Current(p) = Numbering /\ Current(p) \in NoTx /\ at[p] <= Len(Scripts)
      /\ ~conn[p].fk /\ conn[p].tx
  BY <1>1, ScriptNames DEF IInv, Stages, Midway, Unchecked, InTx
<1>3. work' = work
  BY <1>2 DEF RebuildGroups, DropGroups, IInv, TypeOK
<1>4. LedgerTrue' /\ Unnumbered'
  BY <1>1, LedgerKept
<1>5. Past(p)'
  BY <1>1 DEF IInv, Past
<1>6. TypeOK' /\ Elsewhere(p)
  BY <1>1, <1>3 DEF IInv, TypeOK, Stage, Elsewhere
<1>7. Stages(p)'
  BY <1>1, <1>2 DEF IInv, Stages, InTx, Third, Midway, Unchecked
<1>8. Copies(p)'
  BY <1>1, <1>2, <1>3 DEF IInv, Copies, Rebuilt, Linked, Recorded
<1> QED BY <1>4, <1>5, <1>6, <1>7, <1>8, Local

LEMMA RecordKeeps ==
    ASSUME IInv, NEW p \in Proc, Record(p)
    PROVE  IInv'
<1> DEFINE c == Current(p)
           w == [work[p] EXCEPT !.recorded = @ \cup {c}, !.schema = @ \cup Adds(c)]
<1>1. /\ pc[p] = "record" /\ UNCHANGED <<disk, writer, at, conn, deaths>>
      /\ pc' = [pc EXCEPT ![p] = "commit"] /\ pc'[p] = "commit" /\ Current(p)' = c
      /\ c \notin work[p].recorded
  BY DEF Record, Current, IInv, TypeOK
<1>2. at[p] <= Len(Scripts) /\ conn[p].tx /\ work[p].recorded = disk.recorded
  BY <1>1, ScriptNames DEF IInv, Stages, Midway, InTx, Copies, Recorded
<1>3. work' = [work EXCEPT ![p] = w]
  BY DEF Record, IInv, TypeOK
<1>4. /\ c \in {Scripts[i] : i \in DOMAIN Scripts}
      /\ Adds(c) \subseteq UNION {Adds(Scripts[i]) : i \in DOMAIN Scripts}
  BY <1>1, AtScript DEF IInv, Midway
<1> HIDE DEF c
<1>5. /\ w \in File /\ w.recorded = work[p].recorded \cup {c}
      /\ w.schema = work[p].schema \cup Adds(c)
      /\ w.providers = work[p].providers /\ w.rules = work[p].rules
      /\ w.groups = work[p].groups /\ w.members = work[p].members
  BY <1>4 DEF IInv, TypeOK, File
<1> HIDE DEF w
<1>6. work'[p] = w /\ work' \in [Proc -> File]
  BY <1>3, <1>5 DEF IInv, TypeOK
<1>7. TypeOK' /\ Elsewhere(p)
  BY <1>1, <1>3, <1>6 DEF IInv, TypeOK, Stage, Elsewhere
<1>8. LedgerTrue' /\ Unnumbered'
  BY <1>1, LedgerKept
<1>9. Past(p)'
  BY <1>1 DEF IInv, Past
<1>10. Stages(p)'
  BY <1>1, <1>2 DEF IInv, Stages, InTx, Third, Midway, Unchecked, c
<1>11. Copies(p)'
  <2>1. Rebuilt(p) /\ Recorded(p)
    BY <1>2 DEF IInv, Copies
  <2>2. Rebuilt(p)'
    BY <1>1, <1>5, <1>6, <2>1 DEF Rebuilt, Linked, c
  <2>3. Recorded(p)'
    BY <1>1, <1>2, <1>5, <1>6, <2>1 DEF Recorded, c
  <2> QED BY <1>1, <1>2, <1>5, <1>6, <2>2, <2>3 DEF IInv, Copies
<1> QED BY <1>7, <1>8, <1>9, <1>10, <1>11, Local

(* What a transaction is when it commits: the script's own changes, which  *)
(* nobody has made meanwhile, on content that is as it was.                *)
LEMMA Committed ==
    ASSUME IInv, NEW p \in Proc, Commit(p)
    PROVE  /\ disk' = work[p] /\ disk' \in File
           /\ disk'.groups = disk.groups /\ disk'.members = disk.members
           /\ at[p] \in 1 .. 5 /\ Current(p) = Scripts[at[p]]
           /\ Current(p) \notin disk.recorded
           /\ disk'.recorded = disk.recorded \cup {Current(p)}
           /\ disk'.schema = disk.schema \cup Adds(Current(p))
           /\ Current(p) # Numbering =>
                disk'.providers = disk.providers /\ disk'.rules = disk.rules
           /\ Current(p) = Numbering =>
                \E n \in Numberings(disk) :
                  /\ disk'.providers = NumberProviders(disk, n).providers
                  /\ disk'.rules = LinkRules(NumberProviders(disk, n))
           /\ \A i \in 1 .. 5 : i < at[p] => Scripts[i] \in disk.recorded
<1>1. pc[p] = "commit" /\ disk' = work[p]
  BY DEF Commit
<1>2. conn[p].tx /\ disk' \in File
  BY <1>1 DEF IInv, TypeOK, Stages, InTx
<1>3. at[p] \in 1 .. 5 /\ Current(p) = Scripts[at[p]]
  BY <1>1, AtScript DEF IInv, Midway
<1>4. Copies(p) /\ Rebuilt(p) /\ Recorded(p)
  BY <1>2 DEF IInv, Copies
<1>5. \A i \in 1 .. 5 : i < at[p] => Scripts[i] \in disk.recorded
  BY ScriptNames DEF IInv, Past
<1>6. /\ Current(p) # Numbering =>
                disk'.providers = disk.providers /\ disk'.rules = disk.rules
      /\ Current(p) = Numbering =>
                \E n \in Numberings(disk) :
                  /\ disk'.providers = NumberProviders(disk, n).providers
                  /\ disk'.rules = LinkRules(NumberProviders(disk, n))
  BY <1>1, <1>4 DEF Rebuilt, Linked
<1> QED BY <1>1, <1>2, <1>3, <1>4, <1>5, <1>6 DEF Copies, Recorded

LEMMA CommitKeeps ==
    ASSUME IInv, NEW p \in Proc, Commit(p)
    PROVE  IInv'
<1> DEFINE c == Current(p)
<1>1. /\ pc[p] = "commit" /\ UNCHANGED work /\ writer' = NoOne
      /\ pc'[p] = (IF c \in NoTx THEN "pragma_on" ELSE "check")
      /\ at'[p] = (IF c \in NoTx THEN at[p] ELSE at[p] + 1)
      /\ conn'[p].tx = FALSE /\ conn'[p].fk = conn[p].fk
  BY DEF Commit, IInv, TypeOK
<1>2. /\ disk' = work[p] /\ disk' \in File
      /\ at[p] \in 1 .. 5 /\ c = Scripts[at[p]] /\ c \notin disk.recorded
      /\ disk'.recorded = disk.recorded \cup {c}
      /\ disk'.schema = disk.schema \cup Adds(c)
      /\ \A i \in 1 .. 5 : i < at[p] => Scripts[i] \in disk.recorded
  BY Committed
<1>3. \A q \in Proc \ {p} : ~conn[q].tx /\ writer # q
  BY <1>1 DEF IInv, TypeOK, Stages, InTx
<1>4. \A q \in Proc : q # NoOne
  BY MigrationsAssumption DEF MigrationsAssumption
<1>5. TypeOK' /\ Elsewhere(p)
  <2>1. at' \in [Proc -> 1 .. Len(Scripts) + 1]
    BY <1>2, ScriptNames DEF Commit, IInv, TypeOK
  <2>2. /\ conn' \in [Proc -> [fk : BOOLEAN, tx : BOOLEAN]]
        /\ \A q \in Proc : ~conn'[q].tx
    BY <1>3, <1>1 DEF Commit, IInv, TypeOK
  <2>3. writer = p
    BY <1>1 DEF IInv, Stages, InTx
  <2>4. TypeOK'
    BY <1>1, <1>2, <2>1, <2>2 DEF Commit, IInv, TypeOK, Stage
  <2>5. Elsewhere(p)
    BY <1>2, <1>3, <1>4, <2>3 DEF Commit, IInv, TypeOK, Elsewhere
  <2> QED BY <2>4, <2>5
<1>6. LedgerTrue'
  <2>1. \A i \in 1 .. 5 :
          Scripts[i] \in disk'.recorded <=> Scripts[i] \in disk.recorded \/ i = at[p]
    BY <1>2, ScriptNames
  <2>2. \A i \in 1 .. 5 :
          Adds(Scripts[i]) \subseteq disk'.schema
            <=> Adds(Scripts[i]) \subseteq disk.schema \/ i = at[p]
    <3> SUFFICES ASSUME NEW i \in 1 .. 5
                 PROVE  Adds(Scripts[i]) \subseteq disk'.schema
                          <=> Adds(Scripts[i]) \subseteq disk.schema \/ i = at[p]
      OBVIOUS
    <3>1. PICK x : Adds(Scripts[i]) = {x}
      BY ScriptAdds
    <3>2. PICK y : Adds(Scripts[at[p]]) = {y}
      BY <1>2, ScriptAdds
    <3>3. x = y <=> i = at[p]
      BY <1>2, <3>1, <3>2, ScriptAdds
    <3> QED BY <1>2, <3>1, <3>2, <3>3
  <2>3. LedgerTrue
    BY DEF IInv
  <2>4. \A i \in 2 .. 5 : Scripts[i] \in disk'.recorded <=> Adds(Scripts[i]) \subseteq disk'.schema
    BY <2>1, <2>2, <2>3, ScriptNames DEF LedgerTrue
  <2>5. Scripts[1] \in disk'.recorded => Adds(Scripts[1]) \subseteq disk'.schema
    BY <2>1, <2>2, <2>3 DEF LedgerTrue
  <2>6. \A i \in 2 .. 5 : Scripts[i] \in disk'.recorded => Scripts[i - 1] \in disk'.recorded
    BY <1>2, <2>1, <2>3, ScriptNames DEF LedgerTrue
  <2> QED BY <2>4, <2>5, <2>6, ScriptNames DEF LedgerTrue
<1>7. Unnumbered'
  <2>1. CASE c # Numbering
    BY <1>2, <2>1, Committed DEF IInv, Unnumbered
  <2>2. CASE c = Numbering
    <3>1. PICK n \in Numberings(disk) : disk'.providers = NumberProviders(disk, n).providers
      BY <2>2, Committed
    <3>2. IsFiniteSet(disk'.providers)
      BY <3>1, NumberType DEF IInv, TypeOK, Unnumbered
    <3> QED BY <1>2, <2>2, <3>2 DEF Unnumbered
  <2> QED BY <2>1, <2>2
<1>8. c \notin NoTx => conn[p].fk
  BY <1>1 DEF IInv, Stages, Unchecked
<1>9. c \in NoTx => ~conn[p].fk /\ Current(p)' = c
  BY <1>1 DEF IInv, Stages, Unchecked, Current
<1>10. Stages(p)'
  BY <1>1, <1>2, <1>4, <1>8, <1>9, ScriptNames DEF Stages, InTx, Third, Midway, Unchecked
<1>11. Past(p)'
  BY <1>1, <1>2, <1>9, ScriptNames DEF Past
<1>12. Copies(p)'
  BY <1>1 DEF Copies
<1> QED BY <1>5, <1>6, <1>7, <1>10, <1>11, <1>12, Local

-----------------------------------------------------------------------------
(* The invariant. *)

LEMMA StepKeeps ==
    ASSUME IInv, [Next]_vars
    PROVE  IInv'
<1>1. CASE UNCHANGED vars
  BY <1>1 DEF vars, IInv, TypeOK, LedgerTrue, Unnumbered, Stages, InTx, Third, Midway,
              Unchecked, Past, Copies, Rebuilt, Linked, Recorded, Current
<1>2. CASE Next
  <2>1. PICK p \in Proc : Open(p) \/ Step(p) \/ Die(p) \/ Exit(p)
    BY <1>2 DEF Next
  <2>2. Refuse(p) \/ Die(p) \/ Exit(p) => Gone(p)
    BY DEF Refuse, Die, Exit
  <2> QED BY <2>1, <2>2, OpenKeeps, EnsureLedgerKeeps, CheckKeeps, RunBodyKeeps,
             PragmaOffKeeps, RebuildProvidersKeeps, RebuildRulesKeeps, RebuildGroupsKeeps,
             RecordKeeps, CommitKeeps, PragmaOnKeeps, GoneKeeps DEF Step
<1> QED BY <1>1, <1>2

LEMMA InitKeeps ==
    ASSUME NEW files, \A f \in files : Found(f), InitFrom(files)
    PROVE  IInv
<1>1. Found(disk) /\ disk \in File
  BY DEF InitFrom, Found
<1>2. disk.recorded = {} /\ disk.schema \in {{}, {"tables"}}
  <2>1. CASE disk = Fresh
    BY <2>1 DEF Fresh
  <2>2. CASE disk = Legacy(disk.providers, disk.rules, disk.groups, disk.members)
    <3>1. PICK P, R, G, M : disk = Legacy(P, R, G, M)
      BY <2>2
    <3>2. Legacy(P, R, G, M).recorded = {} /\ Legacy(P, R, G, M).schema = {"tables"}
      BY DEF Legacy, Fresh
    <3> QED BY <3>1, <3>2
  <2> QED BY <1>1, <2>1, <2>2 DEF Found
<1>3. \A p \in Proc : /\ pc[p] = "down" /\ at[p] = 1 /\ conn[p] = NewConn /\ p # NoOne
                      /\ writer = NoOne
  BY MigrationsAssumption DEF InitFrom, MigrationsAssumption
<1>4. TypeOK
  BY <1>1, <1>3, ScriptNames DEF InitFrom, TypeOK, Stage, NewConn
<1>5. LedgerTrue
  <2>1. \A i \in 2 .. 5 : ~(Adds(Scripts[i]) \subseteq disk.schema)
    <3> SUFFICES ASSUME NEW i \in 2 .. 5 PROVE ~(Adds(Scripts[i]) \subseteq disk.schema)
      OBVIOUS
    <3>1. PICK x : Adds(Scripts[i]) = {x}
      BY ScriptAdds
    <3>2. Adds(Scripts[i]) # Adds(Scripts[1])
      BY ScriptAdds
    <3>3. Adds(Scripts[1]) = {"tables"}
      BY ScriptNames DEF Adds
    <3> QED BY <1>2, <3>1, <3>2, <3>3
  <2> QED BY <1>2, <2>1, ScriptNames DEF LedgerTrue
<1>6. Unnumbered
  BY <1>1 DEF Unnumbered, Found, File, Provider
<1>7. \A p \in Proc : Stages(p) /\ Past(p) /\ Copies(p)
  BY <1>3 DEF Stages, InTx, Third, Midway, Unchecked, Past, Copies, NewConn
<1> QED BY <1>4, <1>5, <1>6, <1>7 DEF IInv

LEMMA Invariance ==
    ASSUME NEW files, \A f \in files : Found(f)
    PROVE  SpecFrom(files) => []IInv
<1>1. InitFrom(files) => IInv
  BY InitKeeps
<1>2. IInv /\ [Next]_vars => IInv'
  BY StepKeeps
<1> QED BY <1>1, <1>2, PTL DEF SpecFrom

(* The types: whatever a script makes of a file that was found, its ids    *)
(* and references stay of the columns' types, and SQLite has one writer.   *)
THEOREM TypeCorrect ==
    ASSUME NEW files, \A f \in files : Found(f)
    PROVE  SpecFrom(files) => []TypeOK
<1>1. SpecFrom(files) => []IInv
  BY Invariance
<1>2. IInv => TypeOK
  BY DEF IInv
<1> QED BY <1>1, <1>2, PTL

(* run.go:20, for any processes that migrate at once and die at any step:  *)
(* a script is recorded exactly when its changes are in the file, in order.*)
THEOREM LedgerIsTrue ==
    ASSUME NEW files, \A f \in files : Found(f)
    PROVE  SpecFrom(files) => []LedgerTrue
<1>1. SpecFrom(files) => []IInv
  BY Invariance
<1>2. IInv => LedgerTrue
  BY DEF IInv
<1> QED BY <1>1, <1>2, PTL

(* run.go:113-115: whoever is up has every script behind it, its pragma on *)
(* and no transaction left open.                                           *)
THEOREM OpensWhole ==
    ASSUME NEW files, \A f \in files : Found(f)
    PROVE  SpecFrom(files) => []OpenedWhole
<1>1. SpecFrom(files) => []IInv
  BY Invariance
<1>2. IInv => OpenedWhole
  <2> SUFFICES ASSUME IInv, NEW p \in Proc, pc[p] = "up"
               PROVE  /\ disk.recorded = {Scripts[i] : i \in DOMAIN Scripts}
                      /\ conn[p].fk /\ ~conn[p].tx
    BY DEF OpenedWhole
  <2>1. \A i \in 1 .. 5 : Scripts[i] \in disk.recorded
    BY ScriptNames DEF IInv, Past
  <2>2. disk.recorded \subseteq {Scripts[i] : i \in DOMAIN Scripts}
    BY DEF IInv, TypeOK, File
  <2>3. disk.recorded = {Scripts[i] : i \in DOMAIN Scripts}
    BY <2>1, <2>2, ScriptNames
  <2> QED BY <2>3 DEF IInv, Stages, InTx, Third, Unchecked
<1> QED BY <1>1, <1>2, PTL

-----------------------------------------------------------------------------
(* The meaning of the content. *)

(* 0003 numbers the providers and links the rules: a rule means what it    *)
(* meant, since no two providers of a config had a name.                   *)
LEMMA LinkMeans ==
    ASSUME NEW f \in File, NEW g \in File, NEW n \in Numberings(f), IsFiniteSet(f.providers),
           \A x, y \in f.providers : x.config = y.config /\ x.name = y.name => x = y,
           "rules.provider_id" \notin f.schema, "rules.provider_id" \in g.schema,
           g.providers = NumberProviders(f, n).providers,
           NEW r \in f.rules, NEW i,
           \/ \E y \in g.providers : y.config = r.config /\ y.name = r.value /\ y.id = i
           \/ i = NoRef /\ ~\E y \in g.providers : y.config = r.config /\ y.name = r.value
    PROVE  ProviderOf(g, [r EXCEPT !.value = NoRef, !.provider = i]) = ProviderOf(f, r)
<1> DEFINE P == f.providers
           N(x) == [x EXCEPT !.id = n[x]]
           named == {y \in g.providers : y.config = r.config /\ y.name = r.value}
           s == [r EXCEPT !.value = NoRef, !.provider = i]
           held == {x \in g.providers : x.id = i /\ i # NoRef}
           was == {x \in P : x.config = r.config /\ x.name = r.value}
<1>1. /\ g.providers = {N(x) : x \in P}
      /\ n \in [P -> 1 .. Cardinality(P)] /\ \A x, y \in P : n[x] = n[y] => x = y
  BY NumberType DEF Numberings
<1>2. \A x \in P : /\ n[x] \in Nat /\ n[x] # NoRef
                   /\ N(x).id = n[x] /\ N(x).config = x.config /\ N(x).name = x.name
  BY <1>1, FS_CardinalityType, MigrationsAssumption DEF MigrationsAssumption, File, Provider
<1>3. s.provider = i /\ s.config = r.config
  BY DEF File, Rule
<1>4. ProviderOf(f, r) = {[config |-> x.config, name |-> x.name] : x \in was}
  BY DEF ProviderOf
<1>5. ProviderOf(g, s) = {[config |-> x.config, name |-> x.name] : x \in held}
  BY <1>3 DEF ProviderOf
<1> SUFFICES ProviderOf(g, s) = ProviderOf(f, r)
  OBVIOUS
<1> HIDE DEF N, s
<1>7. CASE \E x \in P : x.config = r.config /\ x.name = r.value
  <2>1. PICK x \in P : x.config = r.config /\ x.name = r.value
    BY <1>7
  <2>2. was = {x}
    BY <2>1
  <2>3. named = {N(x)}
    BY <1>1, <1>2, <2>1, <2>2
  <2>5. i = n[x]
    BY <1>2, <2>1, <2>3
  <2>6. held = {N(x)}
    <3>1. N(x) \in held
      BY <1>1, <1>2, <2>1, <2>5
    <3>2. ASSUME NEW y \in held PROVE y = N(x)
      <4>1. PICK z \in P : y = N(z)
        BY <1>1
      <4>2. n[z] = n[x]
        BY <1>2, <2>1, <2>5, <4>1
      <4> QED BY <1>1, <2>1, <4>1, <4>2
    <3> QED BY <3>1, <3>2
  <2>7. {[config |-> y.config, name |-> y.name] : y \in was}
          = {[config |-> x.config, name |-> x.name]}
    BY <2>2
  <2>8. {[config |-> y.config, name |-> y.name] : y \in held}
          = {[config |-> x.config, name |-> x.name]}
    <3>1. {[config |-> y.config, name |-> y.name] : y \in held}
            = {[config |-> N(x).config, name |-> N(x).name]}
      BY <2>6
    <3> QED BY <1>2, <2>1, <3>1
  <2> QED BY <1>4, <1>5, <2>7, <2>8
<1>8. CASE ~\E x \in P : x.config = r.config /\ x.name = r.value
  <2>1. was = {} /\ named = {}
    BY <1>1, <1>2, <1>8
  <2>2. i = NoRef
    BY <2>1
  <2>3. held = {}
    BY <2>2
  <2> QED BY <1>4, <1>5, <2>1, <2>3
<1> QED BY <1>7, <1>8

LEMMA NumberingMeans ==
    ASSUME IInv, NEW p \in Proc, Commit(p), Current(p) = Numbering
    PROVE  Meaning(disk') = Meaning(disk)
<1> DEFINE M(f, r) == [id |-> r.id, config |-> r.config, group |-> r.group,
                       matches |-> ProviderOf(f, r)]
<1>1. PICK n \in Numberings(disk) : /\ disk'.providers = NumberProviders(disk, n).providers
                                    /\ disk'.rules = LinkRules(NumberProviders(disk, n))
  BY Committed
<1> DEFINE g == NumberProviders(disk, n)
           ids(r) == {x.id : x \in {y \in g.providers : y.config = r.config /\ y.name = r.value}}
           i(r) == IF ids(r) = {} THEN NoRef ELSE CHOOSE j \in ids(r) : TRUE
           L(r) == [r EXCEPT !.value = NoRef, !.provider = i(r)]
<1>2. disk' \in File /\ disk \in File /\ disk'.groups = disk.groups /\ disk'.members = disk.members
  BY Committed DEF IInv, TypeOK
<1>3. Adds(Numbering) = {"rules.provider_id"}
  BY DEF Adds, Numbering
<1>4. "rules.provider_id" \notin disk.schema /\ "rules.provider_id" \in disk'.schema
  <2>1. Numbering \notin disk.recorded /\ disk'.schema = disk.schema \cup Adds(Numbering)
    BY Committed
  <2>2. ~(Adds(Numbering) \subseteq disk.schema)
    BY <2>1, ScriptNames DEF IInv, LedgerTrue
  <2> QED BY <1>3, <2>1, <2>2
<1>5. g.rules = disk.rules
  BY <1>2, NumberKeeps
<1>6. disk'.rules = {L(r) : r \in disk.rules}
  BY <1>1, <1>5 DEF LinkRules
<1>7. ASSUME NEW r \in disk.rules PROVE M(disk', L(r)) = M(disk, r)
  <2>1. L(r).id = r.id /\ L(r).config = r.config /\ L(r).group = r.group
    BY <1>2 DEF File, Rule
  <2>2. \A x, y \in disk.providers : x.config = y.config /\ x.name = y.name => x = y
    BY Committed DEF IInv, Unnumbered
  <2>3. IsFiniteSet(disk.providers)
    BY DEF IInv, Unnumbered
  <2>4. g.providers = disk'.providers
    BY <1>1
  <2>5. PICK k : k = i(r)
    OBVIOUS
  <2>6. \/ \E y \in disk'.providers : y.config = r.config /\ y.name = r.value /\ y.id = k
        \/ k = NoRef /\ ~\E y \in disk'.providers : y.config = r.config /\ y.name = r.value
    BY <2>4, <2>5
  <2>7. disk'.providers = NumberProviders(disk, n).providers
    BY <1>1
  <2>8. ProviderOf(disk', [r EXCEPT !.value = NoRef, !.provider = k]) = ProviderOf(disk, r)
    BY <1>2, <1>4, <2>2, <2>3, <2>6, <2>7, LinkMeans
  <2> QED BY <2>1, <2>5, <2>8
<1> HIDE DEF L, M
<1>8. {M(disk', s) : s \in disk'.rules} = {M(disk, r) : r \in disk.rules}
  BY <1>6, <1>7
<1> QED BY <1>2, <1>8 DEF Meaning, M

LEMMA StepMeans ==
    ASSUME IInv, [Next]_vars
    PROVE  Meaning(disk') = Meaning(disk)
<1>1. CASE UNCHANGED disk
  BY <1>1 DEF Meaning, ProviderOf
<1>2. ASSUME NEW p \in Proc, EnsureLedger(p) PROVE Meaning(disk') = Meaning(disk)
  <2>1. /\ disk'.rules = disk.rules /\ disk'.groups = disk.groups /\ disk'.schema = disk.schema
        /\ disk'.members = disk.members /\ disk'.providers = disk.providers
    BY <1>2 DEF EnsureLedger, IInv, TypeOK, File
  <2> QED BY <2>1 DEF Meaning, ProviderOf
<1>3. ASSUME NEW p \in Proc, Commit(p), Current(p) # Numbering
      PROVE  Meaning(disk') = Meaning(disk)
  <2>1. /\ disk'.rules = disk.rules /\ disk'.groups = disk.groups
        /\ disk'.members = disk.members /\ disk'.providers = disk.providers
        /\ disk'.schema = disk.schema \cup Adds(Current(p))
        /\ at[p] \in 1 .. 5 /\ Current(p) = Scripts[at[p]]
    BY <1>3, Committed
  <2>2. "rules.provider_id" \notin Adds(Current(p))
    BY <1>3, <2>1, ScriptAdds, ScriptNames
  <2>3. "rules.provider_id" \in disk'.schema <=> "rules.provider_id" \in disk.schema
    BY <2>1, <2>2
  <2>4. \A r : ProviderOf(disk', r) = ProviderOf(disk, r)
    BY <2>1, <2>3 DEF ProviderOf
  <2> DEFINE M(f, r) == [id |-> r.id, config |-> r.config, group |-> r.group,
                         matches |-> ProviderOf(f, r)]
  <2>5. \A r : M(disk', r) = M(disk, r)
    BY <2>4
  <2> HIDE DEF M
  <2>6. {M(disk', r) : r \in disk'.rules} = {M(disk, r) : r \in disk.rules}
    BY <2>1, <2>5
  <2> QED BY <2>1, <2>6 DEF Meaning, M
<1>4. Next => UNCHANGED disk \/ \E p \in Proc : EnsureLedger(p) \/ Commit(p)
  BY DEF Next, Open, Step, Die, Exit, Check, RunBody, PragmaOff, RebuildProviders,
         RebuildRules, RebuildGroups, Record, PragmaOn, Refuse, Gone
<1> QED BY <1>1, <1>2, <1>3, <1>4, NumberingMeans DEF vars

(* 0003 and 0004 ("ids are PRESERVED on rebuild so existing FK values stay *)
(* valid"), for any rules, providers and groups in the file: no step of    *)
(* any process changes the provider a rule matches with, the group it      *)
(* targets or who belongs to a group.                                      *)
THEOREM KeepsMeaning ==
    ASSUME NEW files, \A f \in files : Found(f)
    PROVE  SpecFrom(files) => MeaningKept
<1>1. SpecFrom(files) => []IInv
  BY Invariance
<1>2. IInv /\ [Next]_vars => [Meaning(disk') = Meaning(disk)]_vars
  BY StepMeans
<1> QED BY <1>1, <1>2, PTL DEF SpecFrom, MeaningKept

(***************************************************************************)
(* The store's connection.                                                 *)
(***************************************************************************)
(* What a call sends, and of that, what reads; a call may end after what   *)
(* gives the connection back.                                              *)
Plains == {"row", "exec", "rows", "connections", "drain", "begin", "tx", "commit"}
Statement == Plains \cup {"count", "page", "insert", "link", "unlink", "delete", "return"}
Giving == {"row", "exec", "drain", "commit"}
Plain(t) == t \in Seq(Plains) /\ (t # <<>> => t[Len(t)] \in Giving)

(* What is left to be sent of the calls that are more than that.           *)
Page1 == <<"return">>
Page2 == <<"drain", "return">>
Page3 == <<"connections", "drain", "return">>
Page4 == <<"drain", "connections", "drain", "return">>
Page5 == <<"page", "drain", "connections", "drain", "return">>
Page6 == <<"count", "page", "drain", "connections", "drain", "return">>
Last1 == <<"commit">>
Create2 == <<"link", "commit">>
Create3 == <<"insert", "link", "commit">>
Create4 == <<"begin", "insert", "link", "commit">>
Replace2 == <<"unlink", "commit">>
Replace3 == <<"link", "unlink", "commit">>
Replace4 == <<"tx", "link", "unlink", "commit">>
Replace5 == <<"begin", "tx", "link", "unlink", "commit">>
Delete1 == <<"delete">>

-----------------------------------------------------------------------------
(* The programs. *)

LEMMA Concatenated ==
    ASSUME NEW s \in Seq(Plains), NEW t \in Seq(Plains), t # <<>>, t[Len(t)] \in Giving
    PROVE  Plain(s \o t) /\ s \o t # <<>>
<1>1. Len(t) \in Nat \ {0} /\ Len(s) \in Nat
  BY EmptySeq, LenProperties
<1>2. /\ s \o t \in Seq(Plains) /\ Len(s \o t) = Len(s) + Len(t)
      /\ (s \o t)[Len(s) + Len(t)] = t[Len(t)]
  BY <1>1, ConcatProperties
<1>3. s \o t # <<>>
  BY <1>1, <1>2, EmptySeq
<1> QED BY <1>2, <1>3 DEF Plain

LEMMA Shortened ==
    ASSUME NEW S, NEW t \in Seq(S), t # <<>>
    PROVE  /\ Head(t) \in S /\ Tail(t) \in Seq(S)
           /\ Tail(t) = <<>> => t[Len(t)] = Head(t)
           /\ Tail(t) # <<>> => Tail(t)[Len(Tail(t))] = t[Len(t)]
<1>1. Len(t) \in Nat \ {0}
  BY EmptySeq
<1>2. /\ Head(t) \in S /\ Tail(t) \in Seq(S) /\ Head(t) = t[1]
      /\ Len(Tail(t)) = Len(t) - 1
      /\ \A i \in 1 .. Len(t) - 1 : Tail(t)[i] = t[i + 1]
  BY <1>1
<1>3. Tail(t) = <<>> => Len(t) = 1
  <2>1. Len(<<>>) = 0
    OBVIOUS
  <2>2. Tail(t) = <<>> => Len(Tail(t)) = 0
    BY <2>1
  <2> QED BY <1>1, <1>2, <2>2
<1>4. Tail(t) # <<>> => Len(Tail(t)) \in 1 .. Len(t) - 1
  BY <1>1, <1>2, EmptySeq
<1> QED BY <1>1, <1>2, <1>3, <1>4

LEMMA PlainTail ==
    ASSUME NEW t, Plain(t), t # <<>>
    PROVE  /\ Plain(Tail(t)) /\ Head(t) \in Plains
           /\ Tail(t) = <<>> => Head(t) \in Giving
BY Shortened DEF Plain

LEMMA PlainPrograms ==
    /\ Plain(Query) /\ Query # <<>>
    /\ \A s \in Seq(Plains) : Plain(Tx(s)) /\ Tx(s) # <<>>
    /\ \A t : Plain(t) /\ t # <<>> => Plain(Query \o t) /\ Query \o t # <<>>
    /\ Plain(<<"row">>) /\ Plain(<<"exec">>) /\ <<"row">> # <<>> /\ <<"exec">> # <<>>
    /\ Plain(<<"row">> \o Query) /\ <<"row">> \o Query # <<>>
    /\ Plain(loadConnections) /\ loadConnections # <<>>
<1>1. /\ Plain(Query) /\ Query # <<>> /\ Query \in Seq(Plains)
      /\ Plain(loadConnections) /\ loadConnections # <<>>
  BY DEF Query, loadConnections, Plain, Plains, Giving
<1>2. /\ Plain(<<"row">>) /\ Plain(<<"exec">>) /\ <<"row">> \in Seq(Plains)
      /\ <<"row">> # <<>> /\ <<"exec">> # <<>>
  BY DEF Plain, Plains, Giving
<1>3. ASSUME NEW t, Plain(t), t # <<>> PROVE Plain(Query \o t) /\ Query \o t # <<>>
  BY <1>1, <1>3, Concatenated DEF Plain
<1>4. ASSUME NEW s \in Seq(Plains) PROVE Plain(Tx(s)) /\ Tx(s) # <<>>
  <2>1. <<"begin">> \in Seq(Plains) /\ <<"commit">> \in Seq(Plains)
    BY DEF Plains
  <2>2. <<"begin">> \o s \in Seq(Plains)
    BY <2>1, ConcatProperties
  <2>3. <<"commit">> # <<>> /\ <<"commit">>[Len(<<"commit">>)] \in Giving
    BY DEF Giving
  <2> QED BY <2>1, <2>2, <2>3, Concatenated DEF Tx
<1>5. Plain(<<"row">> \o Query) /\ <<"row">> \o Query # <<>>
  BY <1>1, <1>2, Concatenated DEF Plain
<1> QED BY <1>1, <1>2, <1>3, <1>4, <1>5

(* u is s followed by t. *)
Follows(u, s, t, m, n) ==
    /\ u \in Seq(Statement) /\ s \in Seq(Statement) /\ t \in Seq(Statement)
    /\ m \in Nat /\ n \in Nat /\ Len(s) = m /\ Len(t) = n /\ Len(u) = m + n
    /\ \A i \in 1 .. m : u[i] = s[i]
    /\ \A i \in 1 .. n : u[m + i] = t[i]

LEMMA Joined == \A u, s, t, m, n : Follows(u, s, t, m, n) => s \o t = u
<1> SUFFICES ASSUME NEW u, NEW s, NEW t, NEW m, NEW n, Follows(u, s, t, m, n)
             PROVE  s \o t = u
  OBVIOUS
<1>1. /\ m \in Nat /\ n \in Nat /\ Len(u) = m + n /\ u \in Seq(Statement)
      /\ s \o t \in Seq(Statement) /\ Len(s \o t) = m + n
      /\ \A i \in 1 .. m + n : (s \o t)[i] = IF i <= m THEN s[i] ELSE t[i - m]
  BY ConcatProperties DEF Follows
<1>2. ASSUME NEW i \in 1 .. m + n PROVE (s \o t)[i] = u[i]
  <2>1. CASE i <= m
    <3>1. i \in 1 .. m
      BY <1>1, <2>1
    <3> QED BY <1>1, <2>1, <3>1 DEF Follows
  <2>2. CASE ~(i <= m)
    <3>1. i - m \in 1 .. n /\ m + (i - m) = i
      BY <1>1, <2>2
    <3>2. u[m + (i - m)] = t[i - m]
      BY <3>1 DEF Follows
    <3> QED BY <1>1, <2>2, <3>1, <3>2
  <2> QED BY <2>1, <2>2
<1> QED BY <1>1, <1>2, SeqEqual

LEMMA WritePrograms ==
    /\ users_ListPage = Page6 /\ users_Create = Create4
    /\ users_ReplaceConnections = Replace5 /\ users_Delete = Delete1
<1> DEFINE begin == <<"begin">>
           commit == <<"commit">>
           insert == <<"insert", "link">>
           replace == <<"tx", "link", "unlink">>
           open == <<"begin", "insert", "link">>
           swap == <<"begin", "tx", "link", "unlink">>
           page == <<"count", "page", "drain">>
           list == <<"connections", "drain">>
           both == <<"count", "page", "drain", "connections", "drain">>
           end == <<"return">>
<1>1. /\ begin \in Seq(Statement) /\ Len(begin) = 1
      /\ commit \in Seq(Statement) /\ Len(commit) = 1
      /\ end \in Seq(Statement) /\ Len(end) = 1
      /\ insert \in Seq(Statement) /\ Len(insert) = 2
      /\ list \in Seq(Statement) /\ Len(list) = 2
  BY DEF Statement, Plains
<1>2. /\ replace \in Seq(Statement) /\ Len(replace) = 3
      /\ open \in Seq(Statement) /\ Len(open) = 3
      /\ page \in Seq(Statement) /\ Len(page) = 3
  BY DEF Statement, Plains
<1>3. /\ swap \in Seq(Statement) /\ Len(swap) = 4
      /\ Create4 \in Seq(Statement) /\ Len(Create4) = 4
  BY DEF Statement, Plains, Create4
<1>4. /\ Replace5 \in Seq(Statement) /\ Len(Replace5) = 5
      /\ both \in Seq(Statement) /\ Len(both) = 5
      /\ Page6 \in Seq(Statement) /\ Len(Page6) = 6
  BY DEF Statement, Plains, Replace5, Page6
<1>5. Follows(open, begin, insert, 1, 2)
  <2>1. \A i \in 1 .. 1 : open[i] = begin[i]
    OBVIOUS
  <2>2. \A i \in 1 .. 2 : open[1 + i] = insert[i]
    OBVIOUS
  <2> HIDE DEF open, begin, insert
  <2> QED BY <1>1, <1>2, <1>3, <1>4, <2>1, <2>2 DEF Follows
<1>6. Follows(Create4, open, commit, 3, 1)
  <2>1. \A i \in 1 .. 3 : Create4[i] = open[i]
    BY DEF Create4
  <2>2. \A i \in 1 .. 1 : Create4[3 + i] = commit[i]
    BY DEF Create4
  <2> HIDE DEF open, commit
  <2> QED BY <1>1, <1>2, <1>3, <1>4, <2>1, <2>2 DEF Follows
<1>7. Follows(swap, begin, replace, 1, 3)
  <2>1. \A i \in 1 .. 1 : swap[i] = begin[i]
    OBVIOUS
  <2>2. \A i \in 1 .. 3 : swap[1 + i] = replace[i]
    OBVIOUS
  <2> HIDE DEF swap, begin, replace
  <2> QED BY <1>1, <1>2, <1>3, <1>4, <2>1, <2>2 DEF Follows
<1>8. Follows(Replace5, swap, commit, 4, 1)
  <2>1. \A i \in 1 .. 4 : Replace5[i] = swap[i]
    BY DEF Replace5
  <2>2. \A i \in 1 .. 1 : Replace5[4 + i] = commit[i]
    BY DEF Replace5
  <2> HIDE DEF swap, commit
  <2> QED BY <1>1, <1>2, <1>3, <1>4, <2>1, <2>2 DEF Follows
<1>9. Follows(both, page, list, 3, 2)
  <2>1. \A i \in 1 .. 3 : both[i] = page[i]
    OBVIOUS
  <2>2. \A i \in 1 .. 2 : both[3 + i] = list[i]
    OBVIOUS
  <2> HIDE DEF both, page, list
  <2> QED BY <1>1, <1>2, <1>3, <1>4, <2>1, <2>2 DEF Follows
<1>10. Follows(Page6, both, end, 5, 1)
  <2>1. \A i \in 1 .. 5 : Page6[i] = both[i]
    BY DEF Page6
  <2>2. \A i \in 1 .. 1 : Page6[5 + i] = end[i]
    BY DEF Page6
  <2> HIDE DEF both, end
  <2> QED BY <1>1, <1>2, <1>3, <1>4, <2>1, <2>2 DEF Follows
<1> HIDE DEF begin, commit, insert, replace, open, swap, page, list, both, end
<1>11. begin \o insert = open /\ open \o commit = Create4
  BY <1>5, <1>6, Joined
<1>12. begin \o replace = swap /\ swap \o commit = Replace5
  BY <1>7, <1>8, Joined
<1>13. page \o list = both /\ both \o end = Page6
  BY <1>9, <1>10, Joined
<1>14. users_Create = Create4
  BY <1>11 DEF users_Create, Tx, begin, insert, commit
<1>15. users_ReplaceConnections = Replace5
  BY <1>12 DEF users_ReplaceConnections, Tx, begin, replace, commit
<1>16. users_ListPage = Page6
  BY <1>13 DEF users_ListPage, loadConnections, page, list, end
<1>17. users_Delete = Delete1
  BY DEF users_Delete, Delete1
<1> QED BY <1>14, <1>15, <1>16, <1>17

LEMMA Bodies ==
    /\ <<"tx", "tx">> \in Seq(Plains) /\ <<"tx", "tx", "tx">> \in Seq(Plains)
    /\ [i \in 1 .. 5 |-> "tx"] \in Seq(Plains)
    /\ <<"tx", "tx">> \o [i \in 1 .. 5 |-> "tx"] \in Seq(Plains)
<1>1. /\ <<"tx", "tx">> \in Seq(Plains) /\ <<"tx", "tx", "tx">> \in Seq(Plains)
      /\ [i \in 1 .. 5 |-> "tx"] \in Seq(Plains)
  BY DEF Plains
<1> QED BY <1>1, ConcatProperties

LEMMA Programs ==
    ASSUME NEW t \in Program
    PROVE  /\ Plain(t) \/ t \in {Page6, Create4, Replace5, Delete1}
           /\ t # <<>> /\ t \in Seq(Statement)
<1>1. CASE t \in {users_ListPage, users_Create, users_ReplaceConnections, users_Delete}
  <2>1. t \in {Page6, Create4, Replace5, Delete1}
    BY <1>1, WritePrograms
  <2>2. t # <<>> /\ t \in Seq(Statement)
    <3>1. Page6 # <<>> /\ Page6 \in Seq(Statement)
      BY DEF Page6, Statement, Plains
    <3>2. Create4 # <<>> /\ Create4 \in Seq(Statement)
      BY DEF Create4, Statement, Plains
    <3>3. Replace5 # <<>> /\ Replace5 \in Seq(Statement)
      BY DEF Replace5, Statement, Plains
    <3>4. Delete1 # <<>> /\ Delete1 \in Seq(Statement)
      BY DEF Delete1, Statement, Plains
    <3> QED BY <2>1, <3>1, <3>2, <3>3, <3>4
  <2> QED BY <2>1, <2>2
<1>2. CASE t \notin {users_ListPage, users_Create, users_ReplaceConnections, users_Delete}
  <2>1. Plain(t) /\ t # <<>>
    <3>1. CASE t \in {users_List, users_ListNames, users_SubIDs, users_InboundSubscribers,
                      nodes_List, configs_UserConfigUserIDs, routing_Rules,
                      routing_ProxyGroups, routing_RuleProviders, routing_AllRuleProviders}
      BY <3>1, PlainPrograms
         DEF users_List, users_ListNames, users_SubIDs, users_InboundSubscribers,
             nodes_List, configs_UserConfigUserIDs, routing_Rules,
             routing_ProxyGroups, routing_RuleProviders, routing_AllRuleProviders
    <3>2. CASE t \in {users_Get, users_IDBySubID, users_SetDescription, nodes_Get,
                      nodes_Delete, configs_BaseConfigID, configs_UserConfigID,
                      configs_DeleteUserConfig, routing_Profile, routing_Setting}
      BY <3>2, PlainPrograms
         DEF users_Get, users_IDBySubID, users_SetDescription, nodes_Get,
             nodes_Delete, configs_BaseConfigID, configs_UserConfigID,
             configs_DeleteUserConfig, routing_Profile, routing_Setting
    <3>3. CASE t \in {nodes_Create, nodes_Update, configs_CreateUserConfig,
                      routing_SaveMihomoConfig}
      BY <3>3, PlainPrograms, Bodies
         DEF nodes_Create, nodes_Update, configs_CreateUserConfig, routing_SaveMihomoConfig
    <3>4. CASE t = configs_EnsureBaseConfigID
      BY <3>4 DEF configs_EnsureBaseConfigID, Plain, Plains, Giving
    <3> QED BY <1>2, <3>1, <3>2, <3>3, <3>4 DEF Program
  <2>2. Plains \subseteq Statement
    BY DEF Statement
  <2> QED BY <2>1, <2>2, SeqMonotonic DEF Plain
<1> QED BY <1>1, <1>2

-----------------------------------------------------------------------------
(* The invariant. *)

Content == [users : SUBSET User, links : SUBSET (User \X Inbound)]
Answer == [total : Nat, page : SUBSET User, links : SUBSET (User \X Inbound)]
Call ==
    [todo : Seq(Statement), user : User \cup {NoRef}, want : SUBSET Inbound, skip : Nat,
     mine : Content \cup {NoRef}, got : Answer, seen : Content \cup {NoRef},
     quiet : BOOLEAN]

Own(u, L) == {l[2] : l \in {x \in L : x[1] = u}}
Whole(U, L) ==
    /\ \A u \in U : Own(u, L) \in Wants
    /\ \A l \in L : l[1] \in U
(* L differs from the table in the connections of u alone. *)
Aside(u, L) == \A l \in User \X Inbound : l[1] # u => (l \in L <=> l \in links)

(* A call r that reads, or writes other tables.                            *)
Reads(r) == r.mine = NoRef /\ Plain(r.todo)

(* A listing: what it has found so far is what its tables hold.            *)
Total(r) == r.quiet => r.got.total = Cardinality(users)
Paged(r) == r.quiet => r.got.page = Slice(r.skip)
Listed(r) ==
    /\ \A u \in r.got.page : Own(u, r.got.links) \in Wants \cup {{}}
    /\ r.quiet => r.got.links = {l \in links : l[1] \in r.got.page}
Lists(r, held) ==
    /\ r.mine = NoRef
    /\ r.quiet => r.seen = Tables
    /\ \/ r.todo = Page6
       \/ r.todo = Page5 /\ Total(r)
       \/ r.todo \in {Page4, Page3} /\ Total(r) /\ Paged(r)
       \/ r.todo = Page2 /\ Total(r) /\ Paged(r) /\ Listed(r)
       \/ r.todo = Page1 /\ Total(r) /\ Paged(r) /\ Listed(r) /\ ~held

(* A write: what its transaction has made of the tables so far.            *)
Writes(r, held) ==
    /\ r.user \in User /\ r.want \in Wants
    /\ \/ r.mine = NoRef /\ r.todo \in {Create4, Replace5, Delete1}
       \/ /\ r.mine \in Content /\ held
          /\ \/ r.todo = Create3 /\ r.mine = Tables
             \/ /\ r.todo = Create2 /\ Aside(r.user, r.mine.links)
                /\ r.mine.users = users \cup {r.user} /\ Own(r.user, r.mine.links) \subseteq r.want
             \/ /\ r.todo \in {Replace4, Replace3} /\ Aside(r.user, r.mine.links)
                /\ r.mine.users = users
             \/ /\ r.todo = Replace2 /\ Aside(r.user, r.mine.links)
                /\ r.mine.users = users /\ r.user \in users
                /\ r.want \subseteq Own(r.user, r.mine.links)
             \/ r.todo = Last1 /\ Whole(r.mine.users, r.mine.links)

Does(r, held) == Reads(r) \/ Lists(r, held) \/ Writes(r, held)

Stored == users \subseteq User /\ links \subseteq User \X Inbound /\ Whole(users, links)
Lent ==
    /\ holder \in Caller \cup {NoOne}
    /\ holder # NoOne => Active(holder)
    /\ \A c \in Caller : Active(c) => pc[Service] = "up"
SInv ==
    /\ IInv /\ Stored /\ Lent
    /\ call \in [Caller -> Call]
    /\ \A c \in Caller : Does(call[c], holder = c)

-----------------------------------------------------------------------------
(* A step of one call, and the others meanwhile. *)

LEMMA NoTable == NoRef \notin Content
BY StoreAssumption DEF StoreAssumption, Content

LEMMA TablesTyped == Stored => Tables \in Content
BY DEF Stored, Tables, Content

LEMMA IdleCall ==
    /\ Idle \in Call /\ Reads(Idle) /\ Idle.todo = <<>> /\ Idle.got = NoAnswer
    /\ NoAnswer \in Answer
<1>1. NoAnswer \in Answer
  BY DEF NoAnswer, Answer
<1>2. Idle.todo = <<>> /\ Idle.got = NoAnswer /\ Idle.mine = NoRef
  BY DEF Idle
<1>3. <<>> \in Seq(Statement) /\ <<>> \in Seq(Plains)
  BY EmptySeq
<1>4. Reads(Idle)
  BY <1>2, <1>3 DEF Reads, Plain
<1>5. Idle \in Call
  <2> DEFINE n == NoAnswer
  <2>1. n \in Answer
    BY <1>1
  <2> HIDE DEF n
  <2>2. [todo |-> <<>>, user |-> NoRef, want |-> {}, skip |-> 0, mine |-> NoRef,
         got |-> n, seen |-> NoRef, quiet |-> FALSE] \in Call
    BY <1>3, <2>1 DEF Call
  <2> QED BY <2>2 DEF Idle, n
<1> QED BY <1>1, <1>2, <1>4, <1>5

Disturbed(r) == [r EXCEPT !.quiet = FALSE, !.seen = NoRef]

LEMMA DisturbedCall ==
    ASSUME NEW r \in Call
    PROVE  /\ Disturbed(r) \in Call
           /\ Disturbed(r).todo = r.todo /\ Disturbed(r).mine = r.mine
           /\ Disturbed(r).got = r.got /\ Disturbed(r).quiet = FALSE
           /\ Disturbed(r).user = r.user /\ Disturbed(r).want = r.want
           /\ Disturbed(r).skip = r.skip
BY DEF Call, Disturbed

(* The others go on from where they were: a transaction holds the          *)
(* connection, so nobody has written under it.                             *)
LEMMA OthersDo ==
    ASSUME SInv, NEW d \in Caller, NEW q, NEW held, held = (holder = d),
           \/ q = call[d] /\ users' = users /\ links' = links
           \/ q = Disturbed(call[d]) /\ holder # d
    PROVE  Does(q, held)'
<1>1. call[d] \in Call /\ Does(call[d], held)
  BY DEF SInv
<1>2. CASE q = call[d] /\ users' = users /\ links' = links
  <2>1. /\ Does(q, held) /\ Tables' = Tables /\ Slice(q.skip)' = Slice(q.skip)
        /\ users' = users /\ links' = links
    BY <1>1, <1>2 DEF Tables, Slice, RankOf
  <2>2. CASE Reads(q)
    BY <2>2 DEF Does, Reads
  <2>3. CASE Lists(q, held)
    <3>1. Total(q)' = Total(q) /\ Paged(q)' = Paged(q) /\ Listed(q)' = Listed(q)
      BY <2>1 DEF Total, Paged, Listed
    <3> QED BY <2>1, <2>3, <3>1 DEF Does, Lists
  <2>4. CASE Writes(q, held)
    <3>1. /\ Aside(q.user, q.mine.links)' = Aside(q.user, q.mine.links)
          /\ Whole(q.mine.users, q.mine.links)' = Whole(q.mine.users, q.mine.links)
      BY <2>1 DEF Aside, Whole
    <3> QED BY <2>1, <2>4, <3>1 DEF Does, Writes
  <2> QED BY <2>1, <2>2, <2>3, <2>4 DEF Does
<1>3. CASE q = Disturbed(call[d]) /\ holder # d
  <2>1. /\ q.todo = call[d].todo /\ q.mine = call[d].mine /\ q.got = call[d].got
        /\ q.quiet = FALSE
        /\ q.user = call[d].user /\ q.want = call[d].want /\ q.skip = call[d].skip
    BY <1>1, <1>3, DisturbedCall
  <2>2. CASE Reads(call[d])
    BY <2>1, <2>2 DEF Does, Reads
  <2>3. CASE Lists(call[d], held)
    <3>1. (\A u \in q.got.page : Own(u, q.got.links) \in Wants \cup {{}}) => Listed(q)'
      BY <2>1 DEF Listed
    <3>2. Total(q)' /\ Paged(q)'
      BY <2>1 DEF Total, Paged
    <3>3. Lists(q, held)'
      BY <2>1, <2>3, <3>1, <3>2 DEF Lists, Listed
    <3> QED BY <3>3 DEF Does
  <2>4. CASE Writes(call[d], held)
    <3>1. q.mine = NoRef /\ q.todo \in {Create4, Replace5, Delete1}
      BY <1>3, <2>1, <2>4 DEF Writes
    <3> QED BY <2>1, <2>4, <3>1 DEF Does, Writes
  <2> QED BY <1>1, <2>2, <2>3, <2>4 DEF Does
<1> QED BY <1>2, <1>3

LEMMA OneStep ==
    ASSUME SInv, UNCHANGED vars, NEW c \in Caller, NEW r \in Call, NEW moved \in BOOLEAN,
           call' = [d \in Caller |-> IF d = c THEN r
                                     ELSE IF moved THEN Disturbed(call[d]) ELSE call[d]],
           moved \/ (users' = users /\ links' = links),
           moved => holder \in {NoOne, c},
           holder' \in {holder, NoOne, c},
           \A d \in Caller \ {c} : (holder' = d) = (holder = d),
           holder' = c => r.todo # <<>>,
           r.todo # <<>> => pc[Service] = "up",
           Stored', NEW held, held = (holder' = c), Does(r, held)'
    PROVE  SInv'
<1>1. IInv'
  BY StepKeeps DEF SInv
<1>2. call' \in [Caller -> Call]
  <2>1. \A d \in Caller : call[d] \in Call /\ Disturbed(call[d]) \in Call
    BY DisturbedCall DEF SInv
  <2> QED BY <2>1
<1>3. \A d \in Caller \ {c} : call'[d].todo = call[d].todo
  BY DisturbedCall DEF SInv
<1>4. Lent'
  <2>1. pc' = pc
    BY DEF vars
  <2>2. call'[c] = r
    OBVIOUS
  <2> QED BY <1>3, <2>1, <2>2 DEF SInv, Lent, Active
<1>5. ASSUME NEW d \in Caller PROVE Does(call[d], holder = d)'
  <2>1. PICK q : q = call'[d]
    OBVIOUS
  <2>2. PICK h : h = (holder' = d)
    OBVIOUS
  <2>3. Does(q, h)'
    <3>1. CASE d = c
      BY <2>1, <2>2, <3>1
    <3>2. CASE d # c
      <4>1. h = (holder = d)
        BY <2>2, <3>2
      <4>2. \/ q = call[d] /\ users' = users /\ links' = links
            \/ q = Disturbed(call[d]) /\ holder # d
        <5>1. NoOne # d
          BY StoreAssumption DEF StoreAssumption
        <5> QED BY <2>1, <3>2, <5>1
      <4>3. CASE q = call[d] /\ users' = users /\ links' = links
        BY <4>1, <4>3, OthersDo
      <4>4. CASE q = Disturbed(call[d]) /\ holder # d
        <5> HIDE DEF Disturbed
        <5> QED BY <4>1, <4>4, OthersDo
      <4> QED BY <4>2, <4>3, <4>4
    <3> QED BY <3>1, <3>2
  <2> QED BY <2>1, <2>2, <2>3
<1> QED BY <1>1, <1>2, <1>4, <1>5 DEF SInv

(* The call ends: it was answered, or it failed.                           *)
LEMMA Ends ==
    ASSUME SInv, UNCHANGED vars, NEW c \in Caller, call' = [call EXCEPT ![c] = Idle],
           UNCHANGED <<users, links>>, holder' \in {holder, NoOne}, holder' # c,
           holder' = NoOne => holder \in {NoOne, c}
    PROVE  SInv'
<1>1. call' = [d \in Caller |-> IF d = c THEN Idle
                                ELSE IF FALSE THEN Disturbed(call[d]) ELSE call[d]]
  BY DEF SInv
<1>2. PICK r : r = Idle
  OBVIOUS
<1>3. r \in Call /\ Reads(r) /\ r.todo = <<>>
  BY <1>2, IdleCall
<1>4. Does(r, FALSE)'
  BY <1>3 DEF Does, Reads
<1>5. \A d \in Caller \ {c} : (holder' = d) = (holder = d)
  BY StoreAssumption DEF StoreAssumption
<1>6. Stored'
  BY DEF SInv, Stored, Whole
<1>7. call' = [d \in Caller |-> IF d = c THEN r
                                ELSE IF FALSE THEN Disturbed(call[d]) ELSE call[d]]
  BY <1>1, <1>2
<1> HIDE DEF Idle
<1> QED BY <1>3, <1>4, <1>5, <1>6, <1>7, OneStep

(* The call goes on: r is call's record after its statement.               *)
Then(r, old, todo, mine, got) ==
    /\ r.todo = todo /\ r.mine = mine /\ r.got = got
    /\ r.user = old.user /\ r.want = old.want /\ r.skip = old.skip
    /\ r.seen = old.seen /\ r.quiet = old.quiet

LEMMA Goes ==
    ASSUME SInv, UNCHANGED vars, NEW c \in Caller, Active(c),
           NEW mine \in Content \cup {NoRef}, NEW moved \in BOOLEAN,
           call' = Went(c, mine, moved),
           moved \/ (users' = users /\ links' = links),
           holder \in {NoOne, c}, holder' \in {NoOne, c},
           NEW todo \in Seq(Statement), todo = Rest(c), NEW got \in Answer, got = Finds(c),
           todo = <<>> => holder' = NoOne,
           Stored', NEW held, held = (holder' = c),
           \A r \in Call : todo # <<>> /\ Then(r, call[c], todo, mine, got) => Does(r, held)'
    PROVE  SInv'
<1> DEFINE n == [call[c] EXCEPT !.todo = todo, !.mine = mine, !.got = got]
<1>1. call[c] \in Call
  BY DEF SInv
<1>2. n \in Call /\ Then(n, call[c], todo, mine, got)
  BY <1>1 DEF Call, Then
<1>3. PICK r : r = IF todo = <<>> THEN Idle ELSE n
  OBVIOUS
<1>4. call' = [d \in Caller |-> IF d = c THEN r
                                ELSE IF moved THEN Disturbed(call[d]) ELSE call[d]]
  BY <1>3 DEF Went, Disturbed
<1>5. NoOne # c
  BY StoreAssumption DEF StoreAssumption
<1> HIDE DEF n
<1>6. r \in Call /\ (r.todo # <<>> => todo # <<>>) /\ (holder' = c => r.todo # <<>>)
  BY <1>2, <1>3, <1>5, IdleCall DEF Then
<1>7. Does(r, held)'
  <2>1. CASE todo = <<>>
    BY <1>3, <2>1, IdleCall DEF Does, Reads
  <2>2. CASE todo # <<>>
    BY <1>2, <1>3, <2>2
  <2> QED BY <2>1, <2>2
<1>8. \A d \in Caller \ {c} : (holder' = d) = (holder = d)
  BY StoreAssumption DEF StoreAssumption
<1>9. pc[Service] = "up"
  BY DEF SInv, Lent
<1> QED BY <1>4, <1>6, <1>7, <1>8, <1>9, OneStep

-----------------------------------------------------------------------------
(* Statements. *)

LEMMA Lending ==
    ASSUME NEW c, Stmt(c) \in Statement \ {"return"}, Needs(c), holder' = Leaves(c)
    PROVE  /\ holder \in {NoOne, c} /\ holder' \in {NoOne, c}
           /\ Stmt(c) \in Giving \cup {"count", "delete"} => holder' = NoOne
           /\ Stmt(c) \in {"page", "connections", "begin", "tx", "insert", "link", "unlink"}
                => holder' = c
BY DEF Statement, Plains, Giving, Needs, Leaves, Takes, Keeps, Within

LEMMA FinitelyMany ==
    ASSUME SInv
    PROVE  IsFiniteSet(users) /\ Cardinality(users) \in Nat
BY StoreAssumption, FS_Subset, FS_CardinalityType DEF StoreAssumption, SInv, Stored

LEMMA Finding ==
    ASSUME SInv, NEW c \in Caller
    PROVE  /\ Finds(c) \in Answer
           /\ Stmt(c) = "count" =>
                /\ Finds(c).total = Cardinality(users)
                /\ Finds(c).page = call[c].got.page
           /\ Stmt(c) = "page" =>
                Finds(c).page = Slice(call[c].skip) /\ Finds(c).total = call[c].got.total
           /\ Stmt(c) = "connections" =>
                /\ Finds(c).total = call[c].got.total /\ Finds(c).page = call[c].got.page
                /\ Finds(c).links = {l \in links : l[1] \in call[c].got.page}
           /\ Stmt(c) \notin {"count", "page", "connections"} => Finds(c) = call[c].got
<1> DEFINE g == call[c].got
<1>1. g \in Answer
  BY DEF SInv, Call
<1>2. /\ Cardinality(users) \in Nat /\ Slice(call[c].skip) \subseteq User
      /\ {l \in links : l[1] \in g.page} \subseteq User \X Inbound
  BY FinitelyMany DEF SInv, Stored, Slice
<1> HIDE DEF g
<1>3. CASE Stmt(c) = "count"
  <2>1. Finds(c) = [g EXCEPT !.total = Cardinality(users)]
    BY <1>3 DEF Finds, g
  <2> QED BY <1>1, <1>2, <1>3, <2>1 DEF Answer, g
<1>4. CASE Stmt(c) = "page"
  <2>1. Finds(c) = [g EXCEPT !.page = Slice(call[c].skip)]
    BY <1>4 DEF Finds, g
  <2> QED BY <1>1, <1>2, <1>4, <2>1 DEF Answer, g
<1>5. CASE Stmt(c) = "connections"
  <2>1. Finds(c) = [g EXCEPT !.links = {l \in links : l[1] \in g.page}]
    BY <1>5 DEF Finds, g
  <2> QED BY <1>1, <1>2, <1>5, <2>1 DEF Answer, g
<1>6. CASE Stmt(c) \notin {"count", "page", "connections"}
  <2>1. Finds(c) = g
    BY <1>6 DEF Finds, g
  <2> QED BY <1>1, <1>6, <2>1 DEF g
<1> QED BY <1>3, <1>4, <1>5, <1>6

(* What is not repeated is dropped from what is to be sent.                *)
LEMMA Dropped ==
    ASSUME NEW c, Stmt(c) \notin {"link", "unlink"}
    PROVE  Rest(c) = Tail(call[c].todo)
BY DEF Rest

LEMMA StoredKept == SInv /\ users' = users /\ links' = links => Stored'
BY DEF SInv, Stored, Whole

LEMMA ReadsKeeps ==
    ASSUME SInv, NEW c \in Caller, Serve(c), Reads(call[c])
    PROVE  SInv'
<1> DEFINE t == call[c].todo
<1>1. /\ t # <<>> /\ Active(c) /\ Plain(t) /\ call[c].mine = NoRef /\ UNCHANGED vars
      /\ t \in Seq(Plains)
  BY DEF Serve, Active, Reads, Plain
<1>2. /\ Plain(Tail(t)) /\ Stmt(c) \in Plains /\ Tail(t) \in Seq(Plains)
      /\ Tail(t) = <<>> => Stmt(c) \in Giving
  BY <1>1, PlainTail DEF Stmt, Plain
<1>3. Plains \subseteq Statement \ {"return", "link", "unlink", "insert", "delete"}
  BY DEF Plains, Statement
<1>4. Needs(c) /\ holder' = Leaves(c)
      /\ users' = users /\ links' = links /\ call' = Went(c, NoRef, FALSE)
  <2>1. CASE Read(c)
    BY <1>1, <2>1 DEF Read
  <2>2. CASE BeginTx(c)
    <3>1. "link" \notin Range(t)
      BY <1>1, <1>3, LenProperties DEF Range
    <3> QED BY <2>2, <3>1 DEF BeginTx
  <2>3. CASE Commit_(c)
    <3>1. users' = Tables.users /\ links' = Tables.links /\ call' = Went(c, NoRef, Tables # Tables)
      BY <1>1, <2>3 DEF Commit_
    <3>2. Tables.users = users /\ Tables.links = links
      BY DEF Tables
    <3> QED BY <2>3, <3>1, <3>2 DEF Commit_
  <2>4. Stmt(c) \notin {"insert", "link", "unlink", "delete", "return"}
    BY <1>2, <1>3
  <2> QED BY <2>1, <2>2, <2>3, <2>4 DEF Serve, Insert, Link, Unlink, Delete, Return
<1>5. Rest(c) = Tail(t) /\ Tail(t) \in Seq(Statement)
  <2>1. Plains \subseteq Statement
    BY <1>3
  <2> QED BY <1>2, <1>3, <2>1, SeqMonotonic, Dropped
<1>6. /\ holder \in {NoOne, c} /\ holder' \in {NoOne, c}
      /\ Tail(t) = <<>> => holder' = NoOne
  BY <1>2, <1>3, <1>4, Lending
<1>7. PICK todo \in Seq(Statement) : todo = Rest(c)
  BY <1>5
<1>8. PICK got \in Answer : got = Finds(c)
  BY Finding
<1>9. PICK h : h = (holder' = c)
  OBVIOUS
<1>10. ASSUME NEW r \in Call, Then(r, call[c], todo, NoRef, got) PROVE Does(r, h)'
  BY <1>2, <1>5, <1>7, <1>10 DEF Then, Does, Reads
<1>11. Stored'
  BY <1>4, StoredKept
<1> QED BY <1>1, <1>4, <1>5, <1>6, <1>7, <1>8, <1>9, <1>10, <1>11, Goes

-----------------------------------------------------------------------------
(* The listing. *)

LEMMA PageTails ==
    /\ Head(Page6) = "count" /\ Tail(Page6) = Page5
    /\ Head(Page5) = "page" /\ Tail(Page5) = Page4
    /\ Head(Page4) = "drain" /\ Tail(Page4) = Page3
    /\ Head(Page3) = "connections" /\ Tail(Page3) = Page2
    /\ Head(Page2) = "drain" /\ Tail(Page2) = Page1
    /\ Head(Page1) = "return"
BY DEF Page1, Page2, Page3, Page4, Page5, Page6

LEMMA PageSeqs ==
    /\ Page1 \in Seq(Statement) /\ Page2 \in Seq(Statement) /\ Page3 \in Seq(Statement)
    /\ Page4 \in Seq(Statement) /\ Page5 \in Seq(Statement)
    /\ Page1 # <<>> /\ Page2 # <<>> /\ Page3 # <<>> /\ Page4 # <<>> /\ Page5 # <<>>
<1>1. Page1 \in Seq(Statement) /\ Page2 \in Seq(Statement) /\ Page1 # <<>> /\ Page2 # <<>>
  BY DEF Page1, Page2, Statement, Plains
<1>2. Page3 \in Seq(Statement) /\ Page4 \in Seq(Statement) /\ Page3 # <<>> /\ Page4 # <<>>
  BY DEF Page3, Page4, Statement, Plains
<1>3. Page5 \in Seq(Statement) /\ Page5 # <<>>
  BY DEF Page5, Statement, Plains
<1> QED BY <1>1, <1>2, <1>3

(* A page is shown with the connections of its users, whole or not at all. *)
LEMMA OwnShown ==
    ASSUME SInv, NEW P, NEW u \in P
    PROVE  Own(u, {l \in links : l[1] \in P}) \in Wants \cup {{}}
<1>1. Own(u, {l \in links : l[1] \in P}) = Own(u, links)
  BY DEF Own
<1>2. CASE u \in users
  BY <1>1, <1>2 DEF SInv, Stored, Whole
<1>3. CASE u \notin users
  <2>1. Own(u, links) = {}
    BY <1>3 DEF SInv, Stored, Whole, Own
  <2> QED BY <1>1, <2>1
<1> QED BY <1>2, <1>3

LEMMA ListsKeeps ==
    ASSUME SInv, NEW c \in Caller, Serve(c), Lists(call[c], holder = c)
    PROVE  SInv'
<1> DEFINE t == call[c].todo
<1>1. /\ Active(c) /\ UNCHANGED vars /\ call[c].mine = NoRef
      /\ t \in {Page1, Page2, Page3, Page4, Page5, Page6}
      /\ Stmt(c) = Head(t)
  BY DEF Serve, Lists, Stmt
<1>2. CASE t = Page1
  <2>1. /\ call' = [call EXCEPT ![c] = Idle] /\ UNCHANGED <<users, links, holder>>
    BY <1>1, <1>2, PageTails
       DEF Serve, Read, BeginTx, Insert, Link, Unlink, Commit_, Delete, Return
  <2>2. holder # c
    <3>1. Page1 \notin {Page2, Page3, Page4, Page5, Page6}
      BY PageTails DEF Page1, Page2
    <3> QED BY <1>2, <3>1 DEF Lists
  <2> HIDE DEF Idle
  <2> QED BY <1>1, <2>1, <2>2, Ends
<1>3. CASE t \in {Page2, Page3, Page4, Page5, Page6}
  <2>1. /\ Stmt(c) \in {"count", "page", "connections", "drain"}
        /\ Tail(t) \in {Page1, Page2, Page3, Page4, Page5}
    BY <1>1, <1>3, PageTails
  <2>2. /\ Needs(c) /\ holder' = Leaves(c) /\ users' = users /\ links' = links
        /\ call' = Went(c, NoRef, FALSE)
    BY <1>1, <2>1 DEF Serve, Read, BeginTx, Insert, Link, Unlink, Commit_, Delete, Return
  <2>3. /\ holder \in {NoOne, c} /\ holder' \in {NoOne, c}
        /\ Stmt(c) = "drain" => holder' = NoOne
    BY <2>1, <2>2, Lending DEF Statement, Plains, Giving
  <2>4. Rest(c) = Tail(t) /\ Tail(t) \in Seq(Statement) /\ Tail(t) # <<>>
    BY <2>1, Dropped, PageSeqs
  <2>5. PICK todo \in Seq(Statement) : todo = Rest(c)
    BY <2>4
  <2>6. PICK got \in Answer : got = Finds(c)
    BY Finding
  <2>7. PICK h : h = (holder' = c)
    OBVIOUS
  <2>8. Stored' /\ Tables' = Tables
    BY <2>2, StoredKept DEF Tables
  <2>9. ASSUME NEW r \in Call, Then(r, call[c], todo, NoRef, got) PROVE Does(r, h)'
    <3>1. r.mine = NoRef /\ (r.quiet => r.seen = Tables') /\ r.quiet = call[c].quiet
          /\ r.skip = call[c].skip /\ r.got = got /\ r.todo = Tail(t)
      BY <2>4, <2>5, <2>8, <2>9 DEF Then, Lists
    <3>2. NoOne # c
      BY StoreAssumption DEF StoreAssumption
    <3>3. CASE t = Page6
      <4>1. Total(r)'
        BY <1>1, <2>2, <2>6, <3>1, <3>3, PageTails, Finding DEF Total
      <4> QED BY <3>1, <3>3, <4>1, PageTails DEF Does, Lists
    <3>4. CASE t = Page5
      <4>1. Total(call[c])
        BY <3>4, PageTails DEF Lists
      <4>2. Total(r)'
        BY <1>1, <2>2, <2>6, <3>1, <3>4, <4>1, PageTails, Finding DEF Total
      <4>3. Paged(r)'
        <5>1. got.page = Slice(r.skip)
          BY <1>1, <2>6, <3>1, <3>4, PageTails, Finding
        <5>2. Slice(r.skip)' = Slice(r.skip)
          BY <2>2 DEF Slice, RankOf
        <5> QED BY <3>1, <5>1, <5>2 DEF Paged
      <4> QED BY <3>1, <3>4, <4>2, <4>3, PageTails DEF Does, Lists
    <3>5. CASE t \in {Page4, Page3}
      <4>1. Total(call[c]) /\ Paged(call[c])
        BY <3>5, PageTails DEF Lists
      <4>2. Total(r)' /\ Paged(r)'
        <5>1. got.total = call[c].got.total /\ got.page = call[c].got.page
          BY <1>1, <2>6, <3>5, PageTails, Finding
        <5>2. Slice(r.skip)' = Slice(r.skip)
          BY <2>2 DEF Slice, RankOf
        <5> QED BY <2>2, <3>1, <4>1, <5>1, <5>2 DEF Total, Paged
      <4>3. CASE t = Page4
        BY <3>1, <4>2, <4>3, PageTails DEF Does, Lists
      <4>4. CASE t = Page3
        <5>1. got.links = {l \in links : l[1] \in got.page}
          BY <1>1, <2>6, <4>4, PageTails, Finding
        <5>2. Listed(r)'
          BY <2>2, <3>1, <5>1, OwnShown DEF Listed
        <5> QED BY <3>1, <4>2, <4>4, <5>2, PageTails DEF Does, Lists
      <4> QED BY <3>5, <4>3, <4>4
    <3>6. CASE t = Page2
      <4>1. Total(call[c]) /\ Paged(call[c]) /\ Listed(call[c])
        BY <3>6, PageTails DEF Lists
      <4>2. got = call[c].got
        BY <1>1, <2>6, <3>6, PageTails, Finding
      <4>3. Total(r)' /\ Paged(r)' /\ Listed(r)'
        BY <2>2, <3>1, <4>1, <4>2 DEF Total, Paged, Listed, Slice, RankOf
      <4>4. ~h
        <5>1. Stmt(c) = "drain"
          BY <1>1, <3>6, PageTails
        <5> QED BY <2>3, <2>7, <3>2, <5>1
      <4> QED BY <3>1, <3>6, <4>3, <4>4, PageTails DEF Does, Lists
    <3> QED BY <1>3, <3>3, <3>4, <3>5, <3>6
  <2> QED BY <1>1, <2>2, <2>3, <2>4, <2>5, <2>6, <2>7, <2>8, <2>9, Goes
<1> QED BY <1>1, <1>2, <1>3

-----------------------------------------------------------------------------
(* The writes. *)

LEMMA WriteTails ==
    /\ Head(Create4) = "begin" /\ Tail(Create4) = Create3
    /\ Head(Create3) = "insert" /\ Tail(Create3) = Create2
    /\ Head(Create2) = "link" /\ Tail(Create2) = Last1
    /\ Head(Replace5) = "begin" /\ Tail(Replace5) = Replace4
    /\ Head(Replace4) = "tx" /\ Tail(Replace4) = Replace3
    /\ Head(Replace3) = "link" /\ Tail(Replace3) = Replace2
    /\ Head(Replace2) = "unlink" /\ Tail(Replace2) = Last1
    /\ Head(Last1) = "commit" /\ Tail(Last1) = <<>>
    /\ Head(Delete1) = "delete" /\ Tail(Delete1) = <<>>
BY DEF Create2, Create3, Create4, Replace2, Replace3, Replace4, Replace5, Last1, Delete1

LEMMA WriteSeqs ==
    /\ Create2 \in Seq(Statement) /\ Create3 \in Seq(Statement) /\ Last1 \in Seq(Statement)
    /\ Replace2 \in Seq(Statement) /\ Replace3 \in Seq(Statement)
    /\ Replace4 \in Seq(Statement) /\ <<>> \in Seq(Statement)
    /\ Create2 # <<>> /\ Create3 # <<>> /\ Last1 # <<>>
    /\ Replace2 # <<>> /\ Replace3 # <<>> /\ Replace4 # <<>>
<1>1. /\ Create2 \in Seq(Statement) /\ Create3 \in Seq(Statement) /\ Last1 \in Seq(Statement)
      /\ Create2 # <<>> /\ Create3 # <<>> /\ Last1 # <<>> /\ <<>> \in Seq(Statement)
  BY DEF Create2, Create3, Last1, Statement, Plains
<1>2. /\ Replace2 \in Seq(Statement) /\ Replace3 \in Seq(Statement)
      /\ Replace2 # <<>> /\ Replace3 # <<>>
  BY DEF Replace2, Replace3, Statement, Plains
<1>3. Replace4 \in Seq(Statement) /\ Replace4 # <<>>
  BY DEF Replace4, Statement, Plains
<1> QED BY <1>1, <1>2, <1>3

LEMMA OwnIs ==
    ASSUME NEW L \in SUBSET (User \X Inbound), NEW u
    PROVE  Own(u, L) \subseteq Inbound /\ \A i : i \in Own(u, L) <=> <<u, i>> \in L
<1>1. ASSUME NEW i, i \in Own(u, L) PROVE <<u, i>> \in L /\ i \in Inbound
  <2>1. PICK l \in L : l[1] = u /\ i = l[2]
    BY <1>1 DEF Own
  <2>2. l \in User \X Inbound
    OBVIOUS
  <2> QED BY <2>1, <2>2
<1>2. ASSUME NEW i, <<u, i>> \in L PROVE i \in Own(u, L)
  <2>1. <<u, i>>[1] = u /\ <<u, i>>[2] = i
    OBVIOUS
  <2> QED BY <1>2, <2>1 DEF Own
<1> QED BY <1>1, <1>2

(* What a transaction commits is whole when its own user is.               *)
LEMMA WholeAside ==
    ASSUME Stored, NEW u \in User, NEW L \in SUBSET (User \X Inbound), Aside(u, L),
           Own(u, L) \in Wants
    PROVE  Whole(users \cup {u}, L)
<1>1. ASSUME NEW v \in users \cup {u} PROVE Own(v, L) \in Wants
  <2>1. CASE v = u
    BY <2>1
  <2>2. CASE v # u
    <3>1. v \in users /\ v \in User /\ links \in SUBSET (User \X Inbound)
      BY <2>2 DEF Stored
    <3>2. Own(v, L) \subseteq Inbound /\ Own(v, links) \subseteq Inbound
      BY <3>1, OwnIs
    <3>3. \A i \in Inbound : <<v, i>> \in L <=> <<v, i>> \in links
      BY <2>2, <3>1 DEF Aside
    <3>4. \A i : i \in Own(v, L) <=> <<v, i>> \in L
      BY OwnIs
    <3>5. \A i : i \in Own(v, links) <=> <<v, i>> \in links
      BY <3>1, OwnIs
    <3>6. Own(v, L) = Own(v, links)
      BY <3>2, <3>3, <3>4, <3>5
    <3> QED BY <3>1, <3>6 DEF Stored, Whole
  <2> QED BY <2>1, <2>2
<1>2. ASSUME NEW l \in L PROVE l[1] \in users \cup {u}
  BY DEF Aside, Stored, Whole
<1> QED BY <1>1, <1>2 DEF Whole

LEMMA AtMostOne ==
    ASSUME NEW S, IsFiniteSet(S), ~(Cardinality(S) > 1), NEW i \in S
    PROVE  S = {i}
<1>1. /\ IsFiniteSet(S \ {i}) /\ Cardinality(S \ {i}) = Cardinality(S) - 1
      /\ Cardinality(S) \in Nat /\ Cardinality(S \ {i}) \in Nat
  BY FS_RemoveElement, FS_CardinalityType
<1>2. S \ {i} = {}
  BY <1>1, FS_EmptySet
<1> QED BY <1>2

(* The service's connection enforces foreign keys once it is up.           *)
LEMMA Enforced ==
    ASSUME SInv, NEW c \in Caller, Active(c)
    PROVE  conn[Service].fk
<1>1. pc[Service] = "up" /\ Service \in Proc /\ IInv
  BY MigrationsAssumption DEF SInv, Lent, MigrationsAssumption
<1> QED BY <1>1 DEF IInv, Stages, Unchecked

LEMMA WriteBegins ==
    ASSUME SInv, NEW c \in Caller, Serve(c), call[c].user \in User, call[c].want \in Wants,
           call[c].todo \in {Create4, Replace5}
    PROVE  SInv'
<1> DEFINE t == call[c].todo
<1>1. Active(c) /\ UNCHANGED vars /\ Stmt(c) = "begin"
  BY WriteTails DEF Serve, Stmt
<1>2. "link" \in Range(t)
  <2>1. 3 \in DOMAIN Create4 /\ Create4[3] = "link"
    BY DEF Create4
  <2>2. 3 \in DOMAIN Replace5 /\ Replace5[3] = "link"
    BY DEF Replace5
  <2> QED BY <2>1, <2>2 DEF Range
<1>3. /\ Needs(c) /\ holder' = Leaves(c) /\ users' = users /\ links' = links
      /\ call' = Went(c, Tables, FALSE)
  BY <1>1, <1>2 DEF Serve, Read, BeginTx, Insert, Link, Unlink, Commit_, Delete, Return
<1>4. holder \in {NoOne, c} /\ holder' = c
  BY <1>1, <1>3, Lending DEF Statement, Plains
<1>5. Rest(c) = Tail(t) /\ Tail(t) \in {Create3, Replace4}
  BY <1>1, Dropped, WriteTails
<1>6. PICK todo \in Seq(Statement) : todo = Rest(c) /\ todo # <<>>
  BY <1>5, WriteSeqs
<1>7. PICK got \in Answer : got = Finds(c)
  BY Finding
<1>8. PICK h : h = (holder' = c)
  OBVIOUS
<1>9. Stored' /\ Tables' = Tables
  BY <1>3, StoredKept DEF Tables
<1>10. PICK m \in Content : m = Tables
  BY TablesTyped DEF SInv
<1>11. m.users = users /\ m.links = links
  BY <1>10 DEF Tables
<1>12. ASSUME NEW r \in Call, Then(r, call[c], todo, m, got) PROVE Does(r, h)'
  <2>1. /\ r.mine = m /\ r.user \in User /\ r.want \in Wants /\ r.todo \in {Create3, Replace4}
    BY <1>5, <1>6, <1>12 DEF Then
  <2>2. Aside(r.user, r.mine.links)' /\ r.mine.users = users' /\ r.mine = Tables'
    BY <1>3, <1>9, <1>10, <1>11, <2>1 DEF Aside
  <2>3. Writes(r, h)'
    BY <1>4, <1>8, <2>1, <2>2 DEF Writes
  <2> QED BY <2>3 DEF Does
<1>13. call' = Went(c, m, FALSE)
  BY <1>3, <1>10
<1> QED BY <1>1, <1>3, <1>4, <1>6, <1>7, <1>8, <1>9, <1>12, <1>13, Goes

(* The statements of a transaction that goes on: m is what it has made.    *)
LEMMA WithinGoes ==
    ASSUME SInv, NEW c \in Caller, Serve(c), call[c].user \in User, call[c].want \in Wants,
           holder = c, NEW m \in Content, call' = Went(c, m, FALSE),
           holder' = Leaves(c), Needs(c), users' = users, links' = links,
           Stmt(c) \in {"tx", "insert", "link", "unlink"},
           NEW todo \in {Create2, Replace2, Replace3, Last1}, todo = Rest(c),
           \/ todo = Create2 /\ m.users = users \cup {call[c].user}
                /\ Own(call[c].user, m.links) \subseteq call[c].want
           \/ todo = Replace3 /\ m.users = users
           \/ todo = Replace2 /\ m.users = users /\ call[c].user \in users
                /\ call[c].want \subseteq Own(call[c].user, m.links)
           \/ todo = Last1 /\ m.users = users \cup {call[c].user}
                /\ Own(call[c].user, m.links) = call[c].want,
           Aside(call[c].user, m.links)
    PROVE  SInv'
<1>1. Active(c) /\ UNCHANGED vars
  BY DEF Serve
<1>2. holder' = c
  BY Lending DEF Statement, Plains
<1>3. todo \in Seq(Statement) /\ todo # <<>>
  BY WriteSeqs
<1>4. PICK got \in Answer : got = Finds(c)
  BY Finding
<1>5. PICK h : h = (holder' = c)
  OBVIOUS
<1>6. Stored'
  BY StoredKept
<1>7. todo = Last1 => Whole(m.users, m.links)
  <2>1. m.links \in SUBSET (User \X Inbound)
    BY DEF Content
  <2> QED BY <2>1, WholeAside, WriteTails DEF SInv, Create2, Replace2, Replace3, Last1
<1>8. ASSUME NEW r \in Call, Then(r, call[c], todo, m, got) PROVE Does(r, h)'
  <2>1. /\ r.mine = m /\ r.user = call[c].user /\ r.want = call[c].want /\ r.todo = todo
    BY <1>8 DEF Then
  <2>2. Aside(r.user, r.mine.links)'
    BY <2>1 DEF Aside
  <2>3. todo = Last1 => Whole(r.mine.users, r.mine.links)'
    BY <1>7, <2>1 DEF Whole
  <2>4. Writes(r, h)'
    BY <1>2, <1>5, <2>1, <2>2, <2>3 DEF Writes
  <2> QED BY <2>4 DEF Does
<1> QED BY <1>1, <1>2, <1>3, <1>4, <1>5, <1>6, <1>8, Goes

LEMMA WriteInserts ==
    ASSUME SInv, NEW c \in Caller, Serve(c), call[c].user \in User, call[c].want \in Wants,
           holder = c, call[c].mine = Tables, call[c].todo = Create3
    PROVE  SInv'
<1> DEFINE u == call[c].user
<1>1. Active(c) /\ UNCHANGED vars /\ Stmt(c) = "insert" /\ NoOne # c
  BY WriteTails, StoreAssumption DEF Serve, Stmt, StoreAssumption
<1>2. Insert(c)
  BY <1>1 DEF Serve, Read, BeginTx, Insert, Link, Unlink, Commit_, Delete, Return
<1>3. users' = users /\ links' = links /\ Needs(c)
  BY <1>2 DEF Insert
<1>4. CASE u \in call[c].mine.users
  <2>1. call' = [call EXCEPT ![c] = Idle] /\ holder' = NoOne
    BY <1>2, <1>4 DEF Insert, Released, Returned
  <2> HIDE DEF Idle
  <2> QED BY <1>1, <1>3, <2>1, Ends
<1>5. CASE u \notin call[c].mine.users
  <2>1. PICK m : m = [call[c].mine EXCEPT !.users = @ \cup {u}]
    OBVIOUS
  <2>2. call' = Went(c, m, FALSE) /\ holder' = Leaves(c)
    BY <1>2, <1>5, <2>1 DEF Insert
  <2>3. m \in Content /\ m.users = users \cup {u} /\ m.links = links
    BY <2>1, TablesTyped DEF SInv, Tables, Content
  <2>4. Own(u, m.links) = {}
    <3>1. u \notin users
      BY <1>5 DEF Tables
    <3> QED BY <2>3, <3>1 DEF SInv, Stored, Whole, Own
  <2>5. Aside(u, m.links)
    BY <2>3 DEF Aside
  <2>6. Rest(c) = Create2
    BY <1>1, Dropped, WriteTails
  <2> QED BY <1>1, <1>3, <2>2, <2>3, <2>4, <2>5, <2>6, WithinGoes
<1> QED BY <1>4, <1>5

LEMMA WriteReads ==
    ASSUME SInv, NEW c \in Caller, Serve(c), call[c].user \in User, call[c].want \in Wants,
           holder = c, call[c].mine \in Content, call[c].todo = Replace4,
           Aside(call[c].user, call[c].mine.links), call[c].mine.users = users
    PROVE  SInv'
<1>1. Stmt(c) = "tx"
  BY WriteTails DEF Stmt
<1>2. /\ Needs(c) /\ holder' = Leaves(c) /\ users' = users /\ links' = links
      /\ call' = Went(c, call[c].mine, FALSE)
  BY <1>1 DEF Serve, Read, BeginTx, Insert, Link, Unlink, Commit_, Delete, Return
<1>3. Rest(c) = Replace3
  BY <1>1, Dropped, WriteTails
<1> QED BY <1>1, <1>2, <1>3, WithinGoes

(* One more connection of the user: Missing shrinks, or had been empty.    *)
LEMMA Linking ==
    ASSUME SInv, NEW c \in Caller, call[c].user \in User, call[c].want \in Wants,
           call[c].mine \in Content, Aside(call[c].user, call[c].mine.links),
           NEW i \in IF Missing(c) = {} THEN call[c].want ELSE Missing(c),
           NEW m \in Content,
           m.links = call[c].mine.links \cup {<<call[c].user, i>>}
    PROVE  /\ Aside(call[c].user, m.links)
           /\ Own(call[c].user, m.links) = Own(call[c].user, call[c].mine.links) \cup {i}
           /\ i \in call[c].want
           /\ ~(Cardinality(Missing(c)) > 1) => call[c].want \subseteq Own(call[c].user, m.links)
<1> DEFINE u == call[c].user
           w == call[c].want
           old == call[c].mine
<1>1. i \in w /\ w \in SUBSET Inbound /\ IsFiniteSet(w)
  <2>1. i \in w
    BY DEF Missing
  <2>2. w \in SUBSET Inbound /\ IsFiniteSet(Inbound)
    BY StoreAssumption DEF StoreAssumption
  <2> QED BY <2>1, <2>2, FS_Subset
<1>2. /\ m.links = old.links \cup {<<u, i>>}
      /\ old.links \in SUBSET (User \X Inbound) /\ m.links \in SUBSET (User \X Inbound)
  BY DEF Content
<1>4. Aside(u, m.links)
  BY <1>2 DEF Aside
<1>5. /\ \A j : j \in Own(u, old.links) <=> <<u, j>> \in old.links
      /\ \A j : j \in Own(u, m.links) <=> <<u, j>> \in m.links
  BY <1>2, OwnIs
<1> HIDE DEF u, w, old
<1>6. Own(u, m.links) = Own(u, old.links) \cup {i}
  BY <1>2, <1>5
<1>7. ASSUME ~(Cardinality(Missing(c)) > 1) PROVE w \subseteq Own(u, m.links)
  <2>1. \A j \in w : j \in Missing(c) <=> j \notin Own(u, old.links)
    BY <1>5 DEF Missing, u, w, old
  <2>2. Missing(c) \subseteq {i}
    <3>1. CASE Missing(c) = {}
      BY <3>1
    <3>2. CASE i \in Missing(c)
      <4>1. IsFiniteSet(Missing(c))
        BY <1>1, FS_Subset DEF Missing, w
      <4> QED BY <1>7, <3>2, <4>1, AtMostOne
    <3> QED BY <3>1, <3>2
  <2> QED BY <1>6, <2>1, <2>2
<1> QED BY <1>1, <1>4, <1>6, <1>7 DEF u, w, old

LEMMA WriteLinks ==
    ASSUME SInv, NEW c \in Caller, Serve(c), call[c].user \in User, call[c].want \in Wants,
           holder = c, call[c].mine \in Content, Aside(call[c].user, call[c].mine.links),
           \/ /\ call[c].todo = Create2 /\ call[c].mine.users = users \cup {call[c].user}
              /\ Own(call[c].user, call[c].mine.links) \subseteq call[c].want
           \/ call[c].todo = Replace3 /\ call[c].mine.users = users
    PROVE  SInv'
<1> DEFINE u == call[c].user
           old == call[c].mine
<1>1. Active(c) /\ UNCHANGED vars /\ Stmt(c) = "link" /\ NoOne # c
  BY WriteTails, StoreAssumption DEF Serve, Stmt, StoreAssumption
<1>2. Link(c)
  BY <1>1 DEF Serve, Read, BeginTx, Insert, Link, Unlink, Commit_, Delete, Return
<1>3. users' = users /\ links' = links /\ Needs(c)
  BY <1>2 DEF Link
<1>4. CASE u \notin old.users
  <2>1. conn[Service].fk
    BY <1>1, Enforced
  <2>2. call' = [call EXCEPT ![c] = Idle] /\ holder' = NoOne
    BY <1>2, <1>4, <2>1 DEF Link, Released, Returned
  <2> HIDE DEF Idle
  <2> QED BY <1>1, <1>3, <2>2, Ends
<1>5. CASE u \in old.users
  <2>1. PICK i \in IF Missing(c) = {} THEN call[c].want ELSE Missing(c) :
            call' = Went(c, [old EXCEPT !.links = @ \cup {<<u, i>>}], FALSE)
    BY <1>2, <1>5 DEF Link
  <2>2. PICK m : m = [old EXCEPT !.links = @ \cup {<<u, i>>}]
    OBVIOUS
  <2>3. holder' = Leaves(c)
    BY <1>2, <1>5 DEF Link
  <2>4. /\ m \in Content /\ m.users = old.users /\ Aside(u, m.links)
        /\ Own(u, m.links) = Own(u, old.links) \cup {i} /\ i \in call[c].want
        /\ ~(Cardinality(Missing(c)) > 1) => call[c].want \subseteq Own(u, m.links)
    <3>1. i \in IF Missing(c) = {} THEN call[c].want ELSE Missing(c)
      BY <2>1
    <3>2. i \in Inbound
      BY <3>1, StoreAssumption DEF StoreAssumption, Missing
    <3>3. <<u, i>> \in User \X Inbound
      BY <3>2
    <3>4. m \in Content /\ m.users = old.users /\ m.links = old.links \cup {<<u, i>>}
      BY <2>2, <3>3 DEF Content
    <3> QED BY <3>1, <3>4, Linking
  <2>5. call' = Went(c, m, FALSE)
    BY <2>1, <2>2
  <2> HIDE DEF u, old
  <2>6. CASE Cardinality(Missing(c)) > 1
    <3>1. Rest(c) = call[c].todo
      BY <1>1, <2>6 DEF Rest
    <3> QED BY <1>1, <1>3, <2>3, <2>4, <2>5, <3>1, WithinGoes DEF u, old
  <2>7. CASE ~(Cardinality(Missing(c)) > 1)
    <3>1. Rest(c) = Tail(call[c].todo)
      BY <1>1, <2>7 DEF Rest
    <3>2. CASE /\ call[c].todo = Create2 /\ old.users = users \cup {u}
               /\ Own(u, old.links) \subseteq call[c].want
      <4>1. Own(u, m.links) = call[c].want /\ Rest(c) = Last1
        BY <2>4, <2>7, <3>1, <3>2, WriteTails
      <4> QED BY <1>1, <1>3, <2>3, <2>4, <2>5, <3>2, <4>1, WithinGoes DEF u
    <3>3. CASE call[c].todo = Replace3 /\ old.users = users
      <4>1. call[c].want \subseteq Own(u, m.links) /\ Rest(c) = Replace2
        BY <2>4, <2>7, <3>1, <3>3, WriteTails
      <4> QED BY <1>1, <1>3, <1>5, <2>3, <2>4, <2>5, <3>3, <4>1, WithinGoes DEF u
    <3> QED BY <3>2, <3>3 DEF u, old
  <2> QED BY <2>6, <2>7
<1> QED BY <1>4, <1>5

(* One connection less of the user: Surplus shrinks, or was empty.         *)
LEMMA Unlinking ==
    ASSUME SInv, NEW c \in Caller, call[c].user \in User, call[c].want \in Wants,
           call[c].mine \in Content, Aside(call[c].user, call[c].mine.links),
           call[c].want \subseteq Own(call[c].user, call[c].mine.links)
    PROVE  /\ Surplus(c) = {} => Own(call[c].user, call[c].mine.links) = call[c].want
           /\ \A i \in Surplus(c), m \in Content :
                m.links = call[c].mine.links \ {<<call[c].user, i>>} =>
                    /\ Aside(call[c].user, m.links)
                    /\ call[c].want \subseteq Own(call[c].user, m.links)
                    /\ ~(Cardinality(Surplus(c)) > 1) =>
                        Own(call[c].user, m.links) = call[c].want
<1> DEFINE u == call[c].user
           w == call[c].want
           old == call[c].mine
<1>1. w \in SUBSET Inbound /\ IsFiniteSet(Inbound)
  BY StoreAssumption DEF StoreAssumption
<1>2. old.links \in SUBSET (User \X Inbound)
  BY DEF Content
<1>3. /\ Own(u, old.links) \subseteq Inbound
      /\ \A j : j \in Own(u, old.links) <=> <<u, j>> \in old.links
  BY <1>2, OwnIs
<1> HIDE DEF u, w, old
<1>4. /\ \A j \in Inbound : j \in Surplus(c) <=> j \in Own(u, old.links) \ w
      /\ Surplus(c) \subseteq Inbound
  BY <1>3 DEF Surplus, u, w, old
<1>5. Surplus(c) = {} => Own(u, old.links) = w
  BY <1>3, <1>4 DEF u, w, old
<1>6. ASSUME NEW i \in Surplus(c), NEW m \in Content, m.links = old.links \ {<<u, i>>}
      PROVE  /\ Aside(u, m.links) /\ w \subseteq Own(u, m.links)
             /\ ~(Cardinality(Surplus(c)) > 1) => Own(u, m.links) = w
  <2>1. Aside(u, m.links)
    BY <1>6 DEF Aside, u, old
  <2>2. \A j : j \in Own(u, m.links) <=> <<u, j>> \in m.links
    <3>1. m.links \in SUBSET (User \X Inbound)
      BY DEF Content
    <3> QED BY <3>1, OwnIs
  <2>3. Own(u, m.links) = Own(u, old.links) \ {i}
    BY <1>3, <1>6, <2>2
  <2>4. w \subseteq Own(u, m.links)
    BY <1>4, <2>3 DEF u, w, old
  <2>5. ASSUME ~(Cardinality(Surplus(c)) > 1) PROVE Own(u, m.links) = w
    <3>1. IsFiniteSet(Surplus(c))
      BY <1>1, <1>4, FS_Subset
    <3>2. Surplus(c) = {i}
      BY <2>5, <3>1, AtMostOne
    <3>3. Own(u, old.links) = w \cup {i}
      BY <1>3, <1>4, <3>2 DEF u, w, old
    <3> QED BY <2>3, <2>4, <3>3
  <2> QED BY <2>1, <2>4, <2>5
<1> QED BY <1>5, <1>6 DEF u, w, old

LEMMA WriteUnlinks ==
    ASSUME SInv, NEW c \in Caller, Serve(c), call[c].user \in User, call[c].want \in Wants,
           holder = c, call[c].mine \in Content, Aside(call[c].user, call[c].mine.links),
           call[c].todo = Replace2, call[c].mine.users = users, call[c].user \in users,
           call[c].want \subseteq Own(call[c].user, call[c].mine.links)
    PROVE  SInv'
<1> DEFINE u == call[c].user
           old == call[c].mine
<1>1. Stmt(c) = "unlink"
  BY WriteTails DEF Stmt
<1>2. Unlink(c)
  BY <1>1 DEF Serve, Read, BeginTx, Insert, Link, Unlink, Commit_, Delete, Return
<1>3. users' = users /\ links' = links /\ Needs(c) /\ holder' = Leaves(c)
  BY <1>2 DEF Unlink
<1>4. users \cup {u} = users
  OBVIOUS
<1>5. CASE Surplus(c) = {}
  <2>1. call' = Went(c, old, FALSE)
    BY <1>2, <1>5 DEF Unlink
  <2>2. Own(u, old.links) = call[c].want
    BY <1>5, Unlinking
  <2>3. Rest(c) = Last1
    <3>1. Cardinality(Surplus(c)) = 0
      BY <1>5, FS_EmptySet
    <3> QED BY <1>1, <3>1, WriteTails DEF Rest
  <2> QED BY <1>1, <1>3, <1>4, <2>1, <2>2, <2>3, WithinGoes
<1>6. CASE Surplus(c) # {}
  <2>1. PICK i \in Surplus(c) :
            call' = Went(c, [old EXCEPT !.links = @ \ {<<u, i>>}], FALSE)
    BY <1>2, <1>6 DEF Unlink
  <2>2. PICK m : m = [old EXCEPT !.links = @ \ {<<u, i>>}]
    OBVIOUS
  <2>3. m \in Content /\ m.users = old.users /\ m.links = old.links \ {<<u, i>>}
    BY <2>2 DEF Content
  <2>4. call' = Went(c, m, FALSE)
    BY <2>1, <2>2
  <2> HIDE DEF u, old
  <2>5. /\ Aside(u, m.links) /\ call[c].want \subseteq Own(u, m.links)
        /\ ~(Cardinality(Surplus(c)) > 1) => Own(u, m.links) = call[c].want
    <3>1. i \in Surplus(c)
      BY <2>1
    <3> QED BY <2>3, <3>1, Unlinking DEF u, old
  <2>6. CASE Cardinality(Surplus(c)) > 1
    <3>1. Rest(c) = Replace2
      BY <1>1, <2>6 DEF Rest
    <3> QED BY <1>1, <1>3, <2>3, <2>4, <2>5, <3>1, WithinGoes DEF u, old
  <2>7. CASE ~(Cardinality(Surplus(c)) > 1)
    <3>1. Rest(c) = Last1
      BY <1>1, <2>7, WriteTails DEF Rest
    <3> QED BY <1>1, <1>3, <1>4, <2>3, <2>4, <2>5, <2>7, <3>1, WithinGoes DEF u, old
  <2> QED BY <2>6, <2>7
<1> QED BY <1>5, <1>6

LEMMA WriteCommits ==
    ASSUME SInv, NEW c \in Caller, Serve(c), call[c].user \in User, call[c].want \in Wants,
           holder = c, call[c].mine \in Content, call[c].todo = Last1,
           Whole(call[c].mine.users, call[c].mine.links)
    PROVE  SInv'
<1>1. Active(c) /\ UNCHANGED vars /\ Stmt(c) = "commit"
  BY WriteTails DEF Serve, Stmt
<1>2. Commit_(c)
  BY <1>1 DEF Serve, Read, BeginTx, Insert, Link, Unlink, Commit_, Delete, Return
<1>3. PICK m \in Content : m = call[c].mine
  OBVIOUS
<1>4. PICK moved \in BOOLEAN : moved = (m # Tables)
  OBVIOUS
<1>5. /\ users' = m.users /\ links' = m.links /\ call' = Went(c, NoRef, moved)
      /\ Needs(c) /\ holder' = Leaves(c)
  BY <1>2, <1>3, <1>4, NoTable DEF Commit_
<1>6. moved \/ (users' = users /\ links' = links)
  <2>1. Tables.users = users /\ Tables.links = links
    BY DEF Tables
  <2>2. CASE m = Tables
    BY <1>5, <2>1, <2>2
  <2>3. CASE m # Tables
    BY <1>4, <2>3
  <2> QED BY <2>2, <2>3
<1>7. holder' = NoOne
  BY <1>1, <1>5, Lending DEF Statement, Plains, Giving
<1>8. PICK todo \in Seq(Statement) : todo = Rest(c) /\ todo = <<>>
  BY <1>1, Dropped, WriteTails, WriteSeqs
<1>9. PICK got \in Answer : got = Finds(c)
  BY Finding
<1>10. PICK h : h = (holder' = c)
  OBVIOUS
<1>11. Stored'
  BY <1>3, <1>5 DEF Stored, Whole, Content
<1> QED BY <1>1, <1>5, <1>6, <1>7, <1>8, <1>9, <1>10, <1>11, Goes

(* DELETE: the user's connections go with him.                             *)
LEMMA WriteDeletes ==
    ASSUME SInv, NEW c \in Caller, Serve(c), call[c].user \in User,
           call[c].mine = NoRef, call[c].todo = Delete1
    PROVE  SInv'
<1> DEFINE u == call[c].user
<1>1. Active(c) /\ UNCHANGED vars /\ Stmt(c) = "delete"
  BY WriteTails DEF Serve, Stmt
<1>2. Delete(c)
  BY <1>1 DEF Serve, Read, BeginTx, Insert, Link, Unlink, Commit_, Delete, Return
<1>3. conn[Service].fk
  BY <1>1, Enforced
<1>4. PICK moved \in BOOLEAN : moved = (u \in users)
  <2>1. (u \in users) \in BOOLEAN
    OBVIOUS
  <2> HIDE DEF u
  <2> QED BY <2>1
<1>5. /\ users' = users \ {u} /\ links' = {l \in links : l[1] # u}
      /\ call' = Went(c, NoRef, moved) /\ Needs(c) /\ holder' = Leaves(c)
  BY <1>2, <1>3, <1>4 DEF Delete
<1>6. moved \/ (users' = users /\ links' = links)
  BY <1>4, <1>5 DEF SInv, Stored, Whole
<1>7. holder \in {NoOne, c} /\ holder' = NoOne
  BY <1>1, <1>5, Lending DEF Statement, Plains, Giving
<1>8. PICK todo \in Seq(Statement) : todo = Rest(c) /\ todo = <<>>
  BY <1>1, Dropped, WriteTails, WriteSeqs
<1>9. PICK got \in Answer : got = Finds(c)
  BY Finding
<1>10. PICK h : h = (holder' = c)
  OBVIOUS
<1>11. Stored'
  <2>1. \A v \in users' : Own(v, links') = Own(v, links)
    BY <1>5 DEF Own
  <2> QED BY <1>5, <2>1 DEF SInv, Stored, Whole
<1> QED BY <1>1, <1>5, <1>6, <1>7, <1>8, <1>9, <1>10, <1>11, Goes

LEMMA WritesKeeps ==
    ASSUME SInv, NEW c \in Caller, Serve(c), Writes(call[c], holder = c)
    PROVE  SInv'
<1>1. call[c].user \in User /\ call[c].want \in Wants
  BY DEF Writes
<1>2. CASE call[c].mine = NoRef /\ call[c].todo \in {Create4, Replace5, Delete1}
  BY <1>1, <1>2, WriteBegins, WriteDeletes
<1>3. CASE ~(call[c].mine = NoRef /\ call[c].todo \in {Create4, Replace5, Delete1})
  <2>1. call[c].mine \in Content /\ holder = c
    BY <1>3 DEF Writes
  <2>2. CASE call[c].todo = Create3 /\ call[c].mine = Tables
    BY <1>1, <2>1, <2>2, WriteInserts
  <2>3. CASE /\ call[c].todo = Create2 /\ Aside(call[c].user, call[c].mine.links)
             /\ call[c].mine.users = users \cup {call[c].user}
             /\ Own(call[c].user, call[c].mine.links) \subseteq call[c].want
    BY <1>1, <2>1, <2>3, WriteLinks
  <2>4. CASE /\ call[c].todo \in {Replace4, Replace3}
             /\ Aside(call[c].user, call[c].mine.links) /\ call[c].mine.users = users
    BY <1>1, <2>1, <2>4, WriteReads, WriteLinks
  <2>5. CASE /\ call[c].todo = Replace2 /\ Aside(call[c].user, call[c].mine.links)
             /\ call[c].mine.users = users /\ call[c].user \in users
             /\ call[c].want \subseteq Own(call[c].user, call[c].mine.links)
    BY <1>1, <2>1, <2>5, WriteUnlinks
  <2>6. CASE call[c].todo = Last1 /\ Whole(call[c].mine.users, call[c].mine.links)
    BY <1>1, <2>1, <2>6, WriteCommits
  <2> QED BY <1>3, <2>2, <2>3, <2>4, <2>5, <2>6 DEF Writes
<1> QED BY <1>2, <1>3

-----------------------------------------------------------------------------
(* Every step. *)

LEMMA ServeKeeps ==
    ASSUME SInv, NEW c \in Caller, Serve(c)
    PROVE  SInv'
<1>1. Reads(call[c]) \/ Lists(call[c], holder = c) \/ Writes(call[c], holder = c)
  BY DEF SInv, Does
<1> QED BY <1>1, ReadsKeeps, ListsKeeps, WritesKeeps

LEMMA AbortKeeps ==
    ASSUME SInv, NEW c \in Caller, Abort(c)
    PROVE  SInv'
<1>1. /\ call' = [call EXCEPT ![c] = Idle] /\ UNCHANGED vars /\ UNCHANGED <<users, links>>
      /\ holder' = IF holder = c THEN NoOne ELSE holder
  BY DEF Abort, Released, Returned
<1>2. NoOne # c
  BY StoreAssumption DEF StoreAssumption
<1> HIDE DEF Idle
<1> QED BY <1>1, <1>2, Ends

LEMMA BeginKeeps ==
    ASSUME SInv, NEW c \in Caller, Begin_(c)
    PROVE  SInv'
<1>1. PICK todo \in MayCall[c], u \in User, w \in Wants, k \in 0 .. Cardinality(User) - 1 :
        call' = [call EXCEPT ![c] =
            [Idle EXCEPT !.todo = todo, !.user = u, !.want = w, !.skip = k * PageSize,
                         !.seen = IF "page" \in Range(todo) THEN Tables ELSE NoRef,
                         !.quiet = "page" \in Range(todo)]]
  BY DEF Begin_
<1>2. /\ pc[Service] = "up" /\ UNCHANGED vars /\ holder' = holder
      /\ users' = users /\ links' = links /\ ~Active(c)
  BY DEF Begin_
<1>3. /\ todo \in Program /\ u \in User /\ w \in Wants /\ w \in SUBSET Inbound
  BY <1>1, CallsAssumption, StoreAssumption DEF CallsAssumption, StoreAssumption
<1>4. PICK skip \in Nat : skip = k * PageSize
  <2>1. Cardinality(User) \in Nat
    BY StoreAssumption, FS_CardinalityType DEF StoreAssumption
  <2>2. k \in Nat /\ PageSize \in Nat
    BY <2>1, StoreAssumption DEF StoreAssumption
  <2> QED BY <2>2
<1>5. PICK quiet \in BOOLEAN : quiet = ("page" \in Range(todo))
  <2>1. ("page" \in Range(todo)) \in BOOLEAN
    OBVIOUS
  <2> QED BY <2>1
<1>6. PICK seen \in Content \cup {NoRef} : seen = IF quiet THEN Tables ELSE NoRef
  BY TablesTyped DEF SInv
<1>7. PICK r : r = [Idle EXCEPT !.todo = todo, !.user = u, !.want = w, !.skip = skip,
                                !.seen = seen, !.quiet = quiet]
  OBVIOUS
<1>8. call' = [call EXCEPT ![c] = r]
  <2>1. seen = IF "page" \in Range(todo) THEN Tables ELSE NoRef
    BY <1>5, <1>6
  <2> HIDE DEF Idle
  <2> QED BY <1>1, <1>4, <1>5, <1>7, <2>1
<1>9. /\ todo \in Seq(Statement) /\ todo # <<>>
      /\ Plain(todo) \/ todo \in {Page6, Create4, Replace5, Delete1}
  BY <1>3, Programs
<1>10. /\ r \in Call /\ r.mine = NoRef /\ r.todo = todo /\ r.user = u /\ r.want = w
       /\ r.quiet = quiet /\ r.seen = seen
  <2>1. PICK idle : idle = Idle
    OBVIOUS
  <2>2. idle \in Call /\ idle.mine = NoRef
    BY <2>1, IdleCall DEF Reads
  <2>3. r = [idle EXCEPT !.todo = todo, !.user = u, !.want = w, !.skip = skip,
                         !.seen = seen, !.quiet = quiet]
    BY <1>7, <2>1
  <2>4. /\ todo \in Seq(Statement) /\ u \in User /\ w \in SUBSET Inbound /\ skip \in Nat
        /\ seen \in Content \cup {NoRef} /\ quiet \in BOOLEAN
    BY <1>3, <1>4, <1>5, <1>6, <1>9
  <2>5. /\ r \in Call
        /\ r.todo = todo /\ r.user = u /\ r.want = w /\ r.skip = skip
        /\ r.seen = seen /\ r.quiet = quiet /\ r.mine = idle.mine /\ r.got = idle.got
    BY <2>2, <2>3, <2>4 DEF Call
  <2> QED BY <2>2, <2>5
<1>12. call' = [d \in Caller |-> IF d = c THEN r
                                 ELSE IF FALSE THEN Disturbed(call[d]) ELSE call[d]]
  BY <1>8 DEF SInv
<1>13. holder # c
  BY <1>2, StoreAssumption DEF SInv, Lent, StoreAssumption
<1>14. Tables' = Tables /\ Stored'
  BY <1>2, StoredKept DEF Tables
<1>15. Does(r, FALSE)'
  <2>1. /\ r.mine = NoRef /\ r.todo = todo /\ r.user = u /\ r.want = w
        /\ r.quiet = quiet /\ r.seen = seen
    BY <1>10
  <2>2. CASE Plain(todo)
    BY <2>1, <2>2 DEF Does, Reads
  <2>3. CASE todo = Page6
    <3>1. r.quiet => r.seen = Tables'
      BY <1>6, <1>14, <2>1
    <3> QED BY <2>1, <2>3, <3>1 DEF Does, Lists
  <2>4. CASE todo \in {Create4, Replace5, Delete1}
    BY <1>3, <2>1, <2>4 DEF Does, Writes
  <2> QED BY <1>9, <2>2, <2>3, <2>4
<1>16. r.todo # <<>>
  BY <1>9, <1>10
<1> QED BY <1>2, <1>10, <1>12, <1>13, <1>14, <1>15, <1>16, OneStep

(* A process that opens the store moves no other.                          *)
LEMMA ServiceStays ==
    ASSUME SInv, NEW p \in Proc, Open(p) \/ Step(p) \/ Die(p) \/ Exit(p),
           Service # p
    PROVE  pc'[Service] = pc[Service]
<1>1. pc \in [Proc -> Stage] /\ Service \in Proc
  BY MigrationsAssumption DEF SInv, IInv, TypeOK, MigrationsAssumption
<1>2. CASE Refuse(p) \/ Die(p) \/ Exit(p)
  BY <1>1, <1>2 DEF Refuse, Die, Exit, Gone
<1>3. CASE Open(p) \/ EnsureLedger(p) \/ RunBody(p) \/ PragmaOff(p) \/ RebuildProviders(p)
  BY <1>1, <1>3 DEF Open, EnsureLedger, RunBody, PragmaOff, RebuildProviders
<1>4. CASE Check(p)
  BY <1>1, <1>4 DEF Check
<1>5. CASE RebuildRules(p)
  BY <1>1, <1>5 DEF RebuildRules
<1>6. CASE RebuildGroups(p) \/ Record(p) \/ Commit(p) \/ PragmaOn(p)
  BY <1>1, <1>6 DEF RebuildGroups, Record, Commit, PragmaOn
<1> QED BY <1>2, <1>3, <1>4, <1>5, <1>6 DEF Step

(* One that is up leaves that only by its end.                             *)
LEMMA StaysUp ==
    ASSUME NEW p \in Proc, Open(p) \/ Step(p)
    PROVE  pc[p] # "up"
BY DEF Open, Step, EnsureLedger, Check, RunBody, PragmaOff, RebuildProviders,
       RebuildRules, RebuildGroups, Record, Commit, PragmaOn, Refuse

LEMMA Unmoved ==
    ASSUME SInv, IInv', UNCHANGED storeVars, pc[Service] = "up" => pc'[Service] = "up"
    PROVE  SInv'
<1>1. users' = users /\ links' = links /\ holder' = holder /\ call' = call
  BY DEF storeVars
<1>2. Stored' /\ Lent' /\ call' \in [Caller -> Call]
  BY <1>1, StoredKept DEF SInv, Lent, Active
<1>3. ASSUME NEW d \in Caller PROVE Does(call[d], holder = d)'
  <2>1. PICK q : q = call[d]
    OBVIOUS
  <2>2. PICK h : h = (holder = d)
    OBVIOUS
  <2>3. Does(q, h)'
    BY <1>1, <2>1, <2>2, OthersDo
  <2> QED BY <1>1, <2>1, <2>2, <2>3
<1> QED BY <1>2, <1>3 DEF SInv

LEMMA MigrateKeeps ==
    ASSUME SInv, NEW p \in Proc, Migrate(p)
    PROVE  SInv'
<1>1. Open(p) \/ Step(p) \/ Exit(p)
  BY DEF Migrate
<1>2. IInv'
  BY <1>1, StepKeeps DEF SInv, Next
<1>3. pc[Service] = "up" => pc'[Service] = "up"
  <2>1. CASE p = Service
    BY <1>1, <2>1, StaysUp DEF Exit
  <2>2. CASE p # Service
    BY <1>1, <2>2, ServiceStays
  <2> QED BY <2>1, <2>2
<1> QED BY <1>2, <1>3, Unmoved DEF Migrate

LEMMA CrashKeeps ==
    ASSUME SInv, NEW p \in Proc, Crash(p)
    PROVE  SInv'
<1>1. Die(p) /\ users' = users /\ links' = links
  BY DEF Crash
<1>2. IInv'
  BY <1>1, StepKeeps DEF SInv, Next
<1>3. CASE p # Service
  <2>1. pc[Service] = "up" => pc'[Service] = "up"
    BY <1>1, <1>3, ServiceStays
  <2>2. UNCHANGED storeVars
    BY <1>1, <1>3 DEF Crash, storeVars
  <2> QED BY <1>2, <2>1, <2>2, Unmoved
<1>4. CASE p = Service
  <2>1. call' = [c \in Caller |-> Idle] /\ holder' = NoOne
    BY <1>4 DEF Crash
  <2>2. Stored'
    BY <1>1, StoredKept
  <2>3. call' \in [Caller -> Call] /\ \A c \in Caller : call'[c].todo = <<>>
    BY <2>1, IdleCall
  <2>4. Lent'
    BY <2>1, <2>3 DEF Lent, Active
  <2>5. \A c \in Caller : Does(call[c], holder = c)'
    BY <2>1, IdleCall DEF Does, Reads
  <2> QED BY <1>2, <2>2, <2>3, <2>4, <2>5 DEF SInv
<1> QED BY <1>3, <1>4

LEMMA StoreStepKeeps ==
    ASSUME SInv, [StoreNext]_allVars
    PROVE  SInv'
<1>1. CASE StoreNext
  BY <1>1, MigrateKeeps, CrashKeeps, BeginKeeps, ServeKeeps, AbortKeeps DEF StoreNext
<1>2. CASE UNCHANGED allVars
  <2>1. UNCHANGED vars /\ UNCHANGED storeVars
    BY <1>2 DEF allVars
  <2>2. IInv' /\ pc' = pc
    BY <2>1, StepKeeps DEF SInv, vars
  <2> QED BY <2>1, <2>2, Unmoved
<1> QED BY <1>1, <1>2

LEMMA StoreInitKeeps ==
    ASSUME NEW files, \A f \in files : Found(f), InitFrom(files), StoreInit
    PROVE  SInv
<1>1. IInv
  BY InitKeeps
<1>2. users = {} /\ links = {} /\ holder = NoOne /\ call = [c \in Caller |-> Idle]
  BY DEF StoreInit
<1>3. Stored
  BY <1>2 DEF Stored, Whole
<1>4. call \in [Caller -> Call] /\ \A c \in Caller : call[c].todo = <<>>
  BY <1>2, IdleCall
<1>5. Lent
  BY <1>2, <1>4 DEF Lent, Active
<1>6. \A c \in Caller : Does(call[c], holder = c)
  BY <1>2, IdleCall DEF Does
<1> QED BY <1>1, <1>3, <1>4, <1>5, <1>6 DEF SInv

StoreFrom(files) == InitFrom(files) /\ StoreInit /\ [][StoreNext]_allVars

LEMMA StoreInvariance ==
    ASSUME NEW files, \A f \in files : Found(f)
    PROVE  StoreFrom(files) => []SInv
<1>1. InitFrom(files) /\ StoreInit => SInv
  BY StoreInitKeeps
<1>2. SInv /\ [StoreNext]_allVars => SInv'
  BY StoreStepKeeps
<1> QED BY <1>1, <1>2, PTL DEF StoreFrom

-----------------------------------------------------------------------------
(* The theorems. *)

(* open.go:30, one connection: for any handlers and any calls they make,   *)
(* it is lent to a call that runs, only the call that has it has an open   *)
(* transaction, and a service that is not up has no call under way.        *)
THEOREM StoreTyped ==
    ASSUME NEW files, \A f \in files : Found(f)
    PROVE  StoreFrom(files) => []StoreTypeOK
<1>1. StoreFrom(files) => []SInv
  BY StoreInvariance
<1>2. SInv => StoreTypeOK
  <2> SUFFICES ASSUME SInv PROVE StoreTypeOK
    OBVIOUS
  <2>1. TypeOK /\ users \subseteq User /\ links \subseteq User \X Inbound
    BY DEF SInv, IInv, Stored
  <2>2. holder = NoOne \/ Active(holder)
    BY DEF SInv, Lent
  <2>3. ASSUME NEW c \in Caller
        PROVE  /\ call[c].mine # NoRef => holder = c
               /\ call[c].todo # <<>> => pc[Service] = "up"
               /\ call[c].got.page \subseteq User
    <3>1. call[c].mine # NoRef => holder = c
      BY DEF SInv, Does, Reads, Lists, Writes
    <3>2. call[c].got \in Answer
      BY DEF SInv, Call
    <3> QED BY <3>1, <3>2 DEF SInv, Lent, Active, Answer
  <2> QED BY <2>1, <2>2, <2>3 DEF StoreTypeOK
<1> QED BY <1>1, <1>2, PTL

(* create.go:11 and delete.go:5: whichever calls overlap, fail or die with *)
(* the service, a stored user has the whole of one set of inbounds, and    *)
(* every connection its user.                                              *)
THEOREM UsersStayWhole ==
    ASSUME NEW files, \A f \in files : Found(f)
    PROVE  StoreFrom(files) => []WholeUsers
<1>1. StoreFrom(files) => []SInv
  BY StoreInvariance
<1>2. SInv => WholeUsers
  BY DEF SInv, Stored, Whole, Own, WholeUsers
<1> QED BY <1>1, <1>2, PTL

(* The rank of a user is one more than the number of those before him.     *)
LEMMA Ranked ==
    ASSUME SInv, NEW u \in users
    PROVE  LET before == Cardinality({v \in users : v < u})
           IN  before \in Nat /\ RankOf(u) = before + 1
<1> DEFINE earlier == {v \in users : v < u}
<1>1. users \subseteq Nat /\ IsFiniteSet(users)
  BY StoreAssumption, FinitelyMany DEF StoreAssumption, SInv, Stored
<1>2. IsFiniteSet(earlier) /\ Cardinality(earlier) \in Nat
  BY <1>1, FS_Subset, FS_CardinalityType
<1>3. u \notin earlier /\ {v \in users : v <= u} = earlier \cup {u}
  <2>1. u \in Nat /\ ~(u < u) /\ \A v \in users : v <= u <=> v < u \/ v = u
    BY <1>1
  <2> QED BY <2>1
<1> HIDE DEF earlier
<1>4. Cardinality(earlier \cup {u}) = Cardinality(earlier) + 1
  BY <1>2, <1>3, FS_AddElement
<1> QED BY <1>2, <1>3, <1>4 DEF RankOf, earlier

(* A call that is about to return a listing has listed.                    *)
LEMMA Returning ==
    ASSUME SInv, NEW c \in Caller, call[c].todo = <<"return">>
    PROVE  /\ Total(call[c]) /\ Paged(call[c]) /\ Listed(call[c])
           /\ call[c].quiet => call[c].seen = Tables
<1>1. call[c].todo = Page1
  BY DEF Page1
<1>2. ~Plain(Page1)
  <2>1. Page1 \in Seq(Plains) => Head(Page1) \in Plains
    BY Shortened, PageSeqs
  <2> QED BY <2>1, PageTails DEF Plain, Plains
<1>3. Page1 \notin {Create2, Create3, Create4, Last1, Delete1,
                    Replace2, Replace3, Replace4, Replace5}
  BY PageTails, WriteTails
<1>4. Page1 \notin {Page2, Page3, Page4, Page5, Page6}
  BY PageTails DEF Page1, Page2
<1>5. Lists(call[c], holder = c)
  BY <1>1, <1>2, <1>3 DEF SInv, Does, Reads, Writes
<1> QED BY <1>1, <1>4, <1>5 DEF Lists

(* list_page.go: a page that no write overlapped is the slice its offset   *)
(* asks for, with its connections and the true total; one that was         *)
(* overlapped shows nobody with part of his connections.                   *)
THEOREM ListsTruly ==
    ASSUME NEW files, \A f \in files : Found(f)
    PROVE  StoreFrom(files) => []ListingTrue
<1>1. StoreFrom(files) => []SInv
  BY StoreInvariance
<1>2. SInv => ListingTrue
  <2> SUFFICES ASSUME SInv, NEW c \in Caller, call[c].todo = <<"return">>
               PROVE  /\ \A u \in call[c].got.page :
                            {l[2] : l \in {x \in call[c].got.links : x[1] = u}}
                                \in Wants \cup {{}}
                      /\ call[c].quiet =>
                            /\ call[c].got.total = Cardinality(call[c].seen.users)
                            /\ call[c].got.links =
                                {l \in call[c].seen.links : l[1] \in call[c].got.page}
                            /\ \A u \in call[c].seen.users :
                                u \in call[c].got.page <=>
                                    LET before ==
                                            Cardinality({v \in call[c].seen.users : v < u})
                                    IN  /\ call[c].skip <= before
                                        /\ before < call[c].skip + PageSize
    BY DEF ListingTrue
  <2>1. \A u \in call[c].got.page :
            {l[2] : l \in {x \in call[c].got.links : x[1] = u}} \in Wants \cup {{}}
    BY Returning DEF Listed, Own
  <2>2. ASSUME call[c].quiet
        PROVE  /\ call[c].seen.users = users /\ call[c].seen.links = links
               /\ call[c].got.total = Cardinality(users)
               /\ call[c].got.links = {l \in links : l[1] \in call[c].got.page}
               /\ call[c].got.page = Slice(call[c].skip)
    BY <2>2, Returning DEF Total, Paged, Listed, Tables
  <2>3. ASSUME NEW u \in users
        PROVE  u \in Slice(call[c].skip) <=>
                    LET before == Cardinality({v \in users : v < u})
                    IN  call[c].skip <= before /\ before < call[c].skip + PageSize
    <3>1. PICK before \in Nat :
                before = Cardinality({v \in users : v < u}) /\ RankOf(u) = before + 1
      BY Ranked
    <3>2. call[c].skip \in Nat /\ PageSize \in Nat
      BY StoreAssumption DEF StoreAssumption, SInv, Call
    <3>3. u \in Slice(call[c].skip) <=>
                call[c].skip <= before /\ before < call[c].skip + PageSize
      BY <3>1, <3>2 DEF Slice
    <3> QED BY <3>1, <3>3
  <2> QED BY <2>1, <2>2, <2>3
<1> QED BY <1>1, <1>2, PTL

=============================================================================
