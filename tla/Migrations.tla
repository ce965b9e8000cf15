------------------------------ MODULE Migrations ------------------------------
(***************************************************************************)
(* The migration runner (migrations/run.go) and the five scripts it        *)
(* carries, run by every process that opens the store: the service at its  *)
(* start, and subctl beside it.                                            *)
(*                                                                         *)
(* SQLite is modelled by what the runner relies on: a transaction works on *)
(* a copy that replaces the file at COMMIT, one writer at a time, and a    *)
(* process that dies leaves the file as it was.  Of the content the        *)
(* scripts rebuild, what refers to what is kept: rules name a provider of  *)
(* their config before 0003 and hold its id after, rules target groups,    *)
(* and members belong to groups.                                           *)
(***************************************************************************)
EXTENDS Naturals, Sequences, FiniteSets

CONSTANTS
    Proc, Service, \* processes that open the store; the one that is restarted
    Config, Name,  \* configs, and names of their providers
    NoRef,         \* SQL's NULL
    NoOne,
    MaxDeaths      \* bound: crashes, failed statements and stops

ASSUME MigrationsAssumption ==
    /\ Service \in Proc /\ NoOne \notin Proc
    /\ NoRef \notin Nat
    /\ MaxDeaths \in Nat

(* The files in filename order: ordered().                                 *)
Scripts == <<"0001-init", "0002-users-description", "0003-strict-mihomo-refs",
             "0004-mihomo-rule-children", "0005-inbound-kind">>
NoTx == {"0003-strict-mihomo-refs", "0004-mihomo-rule-children"}

(* What a script adds to the schema.                                       *)
Adds(name) ==
    CASE name = "0001-init" -> {"tables"}
      [] name = "0002-users-description" -> {"users.description"}
      [] name = "0003-strict-mihomo-refs" -> {"rules.provider_id"}
      [] name = "0004-mihomo-rule-children" -> {"rules.parent_id"}
      [] name = "0005-inbound-kind" -> {"node_inbounds.kind"}

VARIABLES
    disk,   \* the file: [ledger, recorded, schema, providers, rules, groups, members]
    writer, \* who holds SQLite's write lock
    pc, at, \* each process: what it does next, and the script it is at
    work,   \* what its open transaction has made of the file
    conn,   \* its one connection: [fk, tx]
    deaths

vars == <<disk, writer, pc, at, work, conn, deaths>>

Stage == {"down", "ledger", "check", "body", "pragma_off", "providers", "rules",
          "groups", "record", "commit", "pragma_on", "up"}
(* Of the SQL types, what holds the ids and references the rebuilds must   *)
(* keep.                                                                   *)
Provider == [id : Nat \cup {NoRef}, config : Config, name : Name]
Rule == [id : Nat, config : Config, value : Name \cup {NoRef},
         provider : Nat \cup {NoRef}, group : Nat \cup {NoRef}]

File == [ledger : BOOLEAN,
         recorded : SUBSET {Scripts[i] : i \in DOMAIN Scripts},
         schema : SUBSET UNION {Adds(Scripts[i]) : i \in DOMAIN Scripts},
         providers : SUBSET Provider, rules : SUBSET Rule,
         groups : SUBSET Nat, members : SUBSET [group : Nat, inbound : Nat]]

TypeOK ==
    /\ disk \in File /\ work \in [Proc -> File]
    /\ writer \in Proc \cup {NoOne}
    /\ pc \in [Proc -> Stage]
    /\ at \in [Proc -> 1 .. Len(Scripts) + 1]
    /\ conn \in [Proc -> [fk : BOOLEAN, tx : BOOLEAN]]
    /\ \A p \in Proc : conn[p].tx => writer = p

(* A file that does not exist yet.                                         *)
Fresh == [ledger |-> FALSE, recorded |-> {}, schema |-> {}, providers |-> {},
          rules |-> {}, groups |-> {}, members |-> {}]
(* One from before there was a runner: the tables of 0001 with content.    *)
Legacy(providers, rules, groups, members) ==
    [Fresh EXCEPT !.schema = {"tables"}, !.providers = providers,
                  !.rules = rules, !.groups = groups, !.members = members]
(* What a process may find before any other has opened the store.          *)
Found(f) ==
    /\ f \in File /\ IsFiniteSet(f.providers)
    /\ f = Fresh \/ f = Legacy(f.providers, f.rules, f.groups, f.members)
    /\ \A x \in f.providers : x.id = NoRef

NewConn == [fk |-> TRUE, tx |-> FALSE]

InitFrom(files) ==
    /\ disk \in files
    /\ writer = NoOne
    /\ pc = [p \in Proc |-> "down"] /\ at = [p \in Proc |-> 1]
    /\ work = [p \in Proc |-> disk]
    /\ conn = [p \in Proc |-> NewConn]
    /\ deaths = 0

-----------------------------------------------------------------------------
(* The scripts, as what their statements do to the file f.                 *)

(* 0003, part 1: the providers get ids, in any order.                      *)
NumberProviders(f, number) ==
    [f EXCEPT !.providers = {[r EXCEPT !.id = number[r]] : r \in f.providers}]
Numberings(f) ==
    {n \in [f.providers -> 1 .. Cardinality(f.providers)] :
        \A r, s \in f.providers : n[r] = n[s] => r = s}

(* Slip: the provider is looked up by its name alone. *)
LinkRules_by_name(f) ==
    {[r EXCEPT !.value = NoRef,
               !.provider = LET ids == {x.id : x \in {y \in f.providers : y.name = r.value}}
                            IN  IF ids = {} THEN NoRef
                                ELSE CHOOSE i \in ids : \A j \in ids : i <= j] :
        r \in f.rules}
(* 0003, part 2: a RULE-SET rule holds the id of the provider of its       *)
(* config that it named; a name nobody has becomes NULL.  Ids stay.        *)
LinkRules(f) ==
    {[r EXCEPT !.value = NoRef,
               !.provider = LET ids == {x.id : x \in {y \in f.providers :
                                            y.config = r.config /\ y.name = r.value}}
                            IN  IF ids = {} THEN NoRef ELSE CHOOSE i \in ids : TRUE] :
        r \in f.rules}

(* DROP TABLE deletes the rows first when foreign keys are enforced: the   *)
(* members go with their groups, and a group a rule targets cannot go.     *)
Referenced(f) == \E r \in f.rules : r.group \in f.groups
DropGroups(f, fk) == IF fk THEN [f EXCEPT !.members = {}] ELSE f

(* The scripts that are one transaction of the runner: 0001 is             *)
(* CREATE ... IF NOT EXISTS, the others refuse a column that is there.     *)
Refused(name, f) == name # "0001-init" /\ Adds(name) \subseteq f.schema
Body(name, f) == [f EXCEPT !.schema = @ \cup Adds(name)]

-----------------------------------------------------------------------------
(* A process that opens the store.                                         *)

Current(p) == Scripts[at[p]]

(* main, or the supervisor that starts it again: repository.Open.          *)
Open(p) ==
    /\ pc[p] = "down"
    /\ pc' = [pc EXCEPT ![p] = "ledger"] /\ at' = [at EXCEPT ![p] = 1]
    /\ conn' = [conn EXCEPT ![p] = NewConn]
    /\ UNCHANGED <<disk, writer, work, deaths>>

(* Apply: CREATE TABLE IF NOT EXISTS schema_migrations, on its own.        *)
EnsureLedger(p) ==
    /\ pc[p] = "ledger" /\ writer = NoOne
    /\ disk' = [disk EXCEPT !.ledger = TRUE]
    /\ pc' = [pc EXCEPT ![p] = "check"]
    /\ UNCHANGED <<writer, at, work, conn, deaths>>

(* Slip: a script is looked up under another name than it is recorded by. *)
Applied_never(name) == FALSE
Applied(name) == name \in disk.recorded

(* The next file: skipped, or applied in the way its name asks for.        *)
Check(p) ==
    /\ pc[p] = "check"
    /\ IF at[p] > Len(Scripts) THEN pc' = [pc EXCEPT ![p] = "up"] /\ UNCHANGED at
       ELSE IF Applied(Current(p)) THEN at' = [at EXCEPT ![p] = @ + 1] /\ UNCHANGED pc
       ELSE /\ pc' = [pc EXCEPT ![p] = IF Current(p) \in NoTx THEN "pragma_off" ELSE "body"]
            /\ UNCHANGED at
    /\ UNCHANGED <<disk, writer, work, conn, deaths>>

(* A statement that opens the write transaction sees the file as it is.    *)
Begin(p, f) ==
    /\ writer = NoOne /\ writer' = p
    /\ work' = [work EXCEPT ![p] = f]
    /\ conn' = [conn EXCEPT ![p].tx = TRUE]

(* applyOne: the transaction of the runner, and the script in it.          *)
RunBody(p) ==
    /\ pc[p] = "body" /\ ~Refused(Current(p), disk)
    /\ Begin(p, Body(Current(p), disk))
    /\ pc' = [pc EXCEPT ![p] = "record"]
    /\ UNCHANGED <<disk, at, deaths>>

(* applyNoTx: the scripts switch foreign keys off before their BEGIN.      *)
PragmaOff(p) ==
    /\ pc[p] = "pragma_off"
    /\ conn' = [conn EXCEPT ![p].fk = FALSE]
    /\ pc' = [pc EXCEPT ![p] = IF Current(p) = "0003-strict-mihomo-refs" THEN "providers"
                               ELSE "rules"]
    /\ UNCHANGED <<disk, writer, at, work, deaths>>

RebuildProviders(p) ==
    /\ pc[p] = "providers"
    /\ \E n \in Numberings(disk) : Begin(p, NumberProviders(disk, n))
    /\ pc' = [pc EXCEPT ![p] = "rules"]
    /\ UNCHANGED <<disk, at, deaths>>

(* The rules: linked by 0003; 0004 opens its transaction here and keeps    *)
(* every row, as a rule without a parent.                                  *)
RebuildRules(p) ==
    /\ pc[p] = "rules"
    /\ \/ /\ Current(p) = "0003-strict-mihomo-refs"
          /\ work' = [work EXCEPT ![p].rules = LinkRules(work[p])]
          /\ pc' = [pc EXCEPT ![p] = "groups"]
          /\ UNCHANGED <<writer, conn>>
       \/ /\ Current(p) = "0004-mihomo-rule-children"
          /\ Begin(p, disk)
          /\ pc' = [pc EXCEPT ![p] = "record"]
    /\ UNCHANGED <<disk, at, deaths>>

RebuildGroups(p) ==
    /\ pc[p] = "groups"
    /\ ~(conn[p].fk /\ Referenced(work[p]))
    /\ work' = [work EXCEPT ![p] = DropGroups(work[p], conn[p].fk)]
    /\ pc' = [pc EXCEPT ![p] = "record"]
    /\ UNCHANGED <<disk, writer, at, conn, deaths>>

(* Slip: the script is recorded in a statement of its own, before it. *)
Record_apart(p) ==
    /\ pc[p] = "record" /\ Current(p) \notin work[p].recorded
    /\ disk' = [disk EXCEPT !.recorded = @ \cup {Current(p)}]
    /\ work' = [work EXCEPT ![p].recorded = @ \cup {Current(p)},
                            ![p].schema = @ \cup Adds(Current(p))]
    /\ pc' = [pc EXCEPT ![p] = "commit"]
    /\ UNCHANGED <<writer, at, conn, deaths>>
(* The runner, or the script itself, records it in the same transaction;   *)
(* the name is a primary key.                                              *)
Record(p) ==
    /\ pc[p] = "record" /\ Current(p) \notin work[p].recorded
    /\ work' = [work EXCEPT ![p].recorded = @ \cup {Current(p)},
                            ![p].schema = @ \cup Adds(Current(p))]
    /\ pc' = [pc EXCEPT ![p] = "commit"]
    /\ UNCHANGED <<disk, writer, at, conn, deaths>>

(* Slip: a script that has been applied is not committed by the runner. *)
Commit_held(p) ==
    /\ pc[p] = "commit"
    /\ disk' = work[p] /\ writer' = NoOne
    /\ pc' = [pc EXCEPT ![p] = IF Current(p) \in NoTx THEN "pragma_on" ELSE "check"]
    /\ at' = [at EXCEPT ![p] = IF Current(p) \in NoTx THEN @ ELSE @ + 1]
    /\ UNCHANGED <<work, conn, deaths>>
Commit(p) ==
    /\ pc[p] = "commit"
    /\ disk' = work[p] /\ writer' = NoOne
    /\ conn' = [conn EXCEPT ![p].tx = FALSE]
    /\ pc' = [pc EXCEPT ![p] = IF Current(p) \in NoTx THEN "pragma_on" ELSE "check"]
    /\ at' = [at EXCEPT ![p] = IF Current(p) \in NoTx THEN @ ELSE @ + 1]
    /\ UNCHANGED <<work, deaths>>

(* Slip: the script leaves the pragma as it is. *)
PragmaOn_left(p) ==
    /\ pc[p] = "pragma_on"
    /\ pc' = [pc EXCEPT ![p] = "check"] /\ at' = [at EXCEPT ![p] = @ + 1]
    /\ UNCHANGED <<disk, writer, work, conn, deaths>>
(* The script's last statements; the connection goes back to the pool,     *)
(* which has no other.                                                     *)
PragmaOn(p) ==
    /\ pc[p] = "pragma_on"
    /\ conn' = [conn EXCEPT ![p].fk = TRUE]
    /\ pc' = [pc EXCEPT ![p] = "check"] /\ at' = [at EXCEPT ![p] = @ + 1]
    /\ UNCHANGED <<disk, writer, work, deaths>>

(* The process is gone: what it had not committed never was.               *)
Gone(p) ==
    /\ pc' = [pc EXCEPT ![p] = "down"]
    /\ writer' = IF writer = p THEN NoOne ELSE writer
    /\ conn' = [conn EXCEPT ![p] = NewConn] /\ at' = [at EXCEPT ![p] = 1]
    /\ work' = [work EXCEPT ![p] = disk]
    /\ UNCHANGED disk

(* A statement is refused: a column that is there already, a script that   *)
(* somebody else has recorded meanwhile, a group in use.  Apply returns    *)
(* the error and Open closes the store; the caller exits.                  *)
Refuse(p) ==
    /\ \/ pc[p] = "body" /\ writer = NoOne /\ Refused(Current(p), disk)
       \/ pc[p] = "record" /\ Current(p) \in work[p].recorded
       \/ pc[p] = "groups" /\ conn[p].fk /\ Referenced(work[p])
    /\ Gone(p)
    /\ UNCHANGED deaths

(* A crash, a full disk, a lock not had within busy_timeout, a stop.       *)
Die(p) ==
    /\ pc[p] # "down" /\ deaths < MaxDeaths
    /\ Gone(p)
    /\ deaths' = deaths + 1

(* subctl ends when it has printed.                                        *)
Exit(p) ==
    /\ p # Service /\ pc[p] = "up" /\ Gone(p)
    /\ UNCHANGED deaths

Step(p) ==
    \/ EnsureLedger(p) \/ Check(p) \/ RunBody(p) \/ PragmaOff(p)
    \/ RebuildProviders(p) \/ RebuildRules(p) \/ RebuildGroups(p)
    \/ Record(p) \/ Commit(p) \/ PragmaOn(p) \/ Refuse(p)

Next == \E p \in Proc : Open(p) \/ Step(p) \/ Die(p) \/ Exit(p)

(* A process that runs goes on until it is up or down; the service is      *)
(* started again (docker-compose: restart: unless-stopped).                *)
Fairness == /\ WF_vars(Open(Service))
            /\ \A p \in Proc : WF_vars(Step(p))

-----------------------------------------------------------------------------
(* Properties.                                                             *)

(* What the content means: the provider each rule matches with, by its     *)
(* config and name, the group it targets, and the members of each group.   *)
ProviderOf(f, r) ==
    LET named == {x \in f.providers : x.config = r.config /\ x.name = r.value}
        held  == {x \in f.providers : x.id = r.provider /\ r.provider # NoRef}
    IN  {[config |-> x.config, name |-> x.name] :
            x \in IF "rules.provider_id" \in f.schema THEN held ELSE named}
Meaning(f) ==
    [rules |-> {[id |-> r.id, config |-> r.config, group |-> r.group,
                 matches |-> ProviderOf(f, r)] : r \in f.rules},
     groups |-> f.groups, members |-> f.members]

(* No step changes what a stored config means: whatever is rebuilt, died   *)
(* or run twice at once, each rule keeps its provider, its group and its   *)
(* id, and each group its members (0003 and 0004: "ids are PRESERVED on    *)
(* rebuild so existing FK values stay valid").                             *)
MeaningKept == [][Meaning(disk') = Meaning(disk)]_vars

(* A script's changes are in the file exactly when it is recorded          *)
(* (run.go:20: a partially applied migration is never recorded, so the     *)
(* next start retries it), and scripts are recorded in order.  The tables  *)
(* of 0001 may be older than the runner.                                   *)
LedgerTrue ==
    /\ \A i \in 2 .. Len(Scripts) :
        Scripts[i] \in disk.recorded <=> Adds(Scripts[i]) \subseteq disk.schema
    /\ Scripts[1] \in disk.recorded => Adds(Scripts[1]) \subseteq disk.schema
    /\ \A i \in 2 .. Len(Scripts) :
        Scripts[i] \in disk.recorded => Scripts[i - 1] \in disk.recorded

(* A process that has opened the store finds the whole schema, enforced:   *)
(* run.go:113-115 promises that no PRAGMA of a script leaks into the pool, *)
(* and every RESTRICT and CASCADE the repositories rely on needs it.       *)
OpenedWhole ==
    \A p \in Proc : pc[p] = "up" =>
        /\ disk.recorded = {Scripts[i] : i \in DOMAIN Scripts}
        /\ conn[p].fk /\ ~conn[p].tx

(* The service comes up at last, from a fresh file, an old one or one on   *)
(* which it died, with another process migrating beside it (run.go:19:     *)
(* "a fresh database and a restart of an up-to-date one both converge").   *)
ComesUp == <>[](pc[Service] = "up")
=============================================================================
