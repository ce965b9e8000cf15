-------------------------------- MODULE Drafts --------------------------------
(***************************************************************************)
(* Drafts of a mihomo config and their validation (internal/mihomo): what  *)
(* config_save decodes from a request and checks before it stores it.      *)
(*                                                                         *)
(* Groups and providers are sequences, to which the draft refers by index; *)
(* the rules are a function from the path of a rule in the tree, <<1, 2>>  *)
(* being the second child of the first rule, to its target and the index   *)
(* of its provider (0: none).  Abstracted: the types of groups and rules   *)
(* with their own fields, and the syntax of every text.                    *)
(***************************************************************************)
EXTENDS Integers, Sequences, FiniteSets, SequencesExt

(* A reference to a policy: by the index of a group in a draft, by its id  *)
(* in a row, by its name in what is served.                                *)
Ref(kind, to) == [kind |-> kind, to |-> to]
NoRef == Ref("none", 0)
Direct == Ref("direct", 0)

Prefix(path) == SubSeq(path, 1, Len(path) - 1)

validateRef(ref, n) == ref.kind = "group" => ref.to \in 1 .. n

(* Slip: only a group that names itself is found. *)
cyclicGroups_direct(groups) ==
    \E k \in DOMAIN groups : \E j \in DOMAIN groups[k].members :
        groups[k].members[j] = Ref("group", k)

(* The group each member of group i refers to, 0 for none there is.        *)
Targets(groups, i) ==
    [j \in DOMAIN groups[i].members |->
        LET m == groups[i].members[j]
        IN  IF m.kind = "group" /\ m.to \in DOMAIN groups THEN m.to ELSE 0]

(* visit, from every group that is still white: a group is gray while what *)
(* its members refer to is searched, and black afterwards.  at: the groups *)
(* still to be looked at, and the colors, which do not matter any more     *)
(* once a cycle is found.                                                  *)
cyclicGroups(groups) ==
    LET index == DOMAIN groups
        search[at \in Seq(index \cup {0}) \X [index -> {"white", "gray", "black"}]] ==
            LET i == Head(at[1])
                color == at[2]
                visit == search[<<Targets(groups, i), [color EXCEPT ![i] = "gray"]>>]
            IN  IF at[1] = <<>> THEN [cycle |-> FALSE, color |-> color]
                ELSE IF i = 0 THEN search[<<Tail(at[1]), color>>]
                ELSE IF color[i] = "black" THEN search[<<Tail(at[1]), color>>]
                ELSE IF color[i] = "gray" THEN [cycle |-> TRUE, color |-> <<>>]
                ELSE IF visit.cycle THEN visit
                ELSE search[<<Tail(at[1]), [visit.color EXCEPT ![i] = "black"]>>]
    IN  search[<<[i \in index |-> i], [i \in index |-> "white"]>>].cycle

ValidateProxyGroups(groups) ==
    /\ \A j, k \in DOMAIN groups : groups[j].name = groups[k].name => j = k
    /\ \A k \in DOMAIN groups : \A j \in DOMAIN groups[k].members :
         validateRef(groups[k].members[j], Len(groups))
    /\ ~cyclicGroups(groups)

(* Only a rule of the top has a target. *)
ValidateRoutingRules(rules, numGroups, numProviders) ==
    \A q \in DOMAIN rules :
        /\ Len(q) > 1 => Prefix(q) \in DOMAIN rules
        /\ rules[q].target = NoRef <=> Len(q) > 1
        /\ validateRef(rules[q].target, numGroups)
        /\ rules[q].provider \in 0 .. numProviders

Valid(d) ==
    /\ ValidateProxyGroups(d.groups)
    /\ ValidateRoutingRules(d.rules, Len(d.groups), Len(d.providers))

-----------------------------------------------------------------------------
(* What the search is to find: a set of groups each of which refers to one *)
(* of the set.                                                             *)
Looped(G, refers) ==
    \E S \in SUBSET G : S # {} /\ \A x \in S : \E y \in S : <<x, y>> \in refers

(* n groups that refer to each other as `refers` says. *)
Graph(n, refers) ==
    [k \in 1 .. n |->
        [name |-> k,
         members |-> [j \in 1 .. n |-> IF <<k, j>> \in refers THEN Ref("group", j)
                                       ELSE Direct]]]

SearchExact(n) ==
    \A refers \in SUBSET ((1 .. n) \X (1 .. n)) :
        cyclicGroups(Graph(n, refers)) <=> Looped(1 .. n, refers)
=============================================================================
