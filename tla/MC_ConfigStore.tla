---------------------------- MODULE MC_ConfigStore ----------------------------
(* Small instances of ConfigStore for TLC. *)
EXTENDS ConfigStore, TLC

CONSTANTS a1, a2, i1

ToGroup(k) == Ref("group", k)
ToInbound(i) == Ref("inbound", i)
Leaf(provider, target) == [provider |-> provider, target |-> target]

(* One group, one rule. *)
Plain ==
    [groups |-> <<[name |-> "auto", members |-> <<Direct>>]>>,
     providers |-> <<>>,
     rules |-> (<<1>> :> Leaf(0, ToGroup(1))),
     value |-> "v1"]

(* Groups that refer to each other, a rule with two sub-rules, providers.  *)
Nested ==
    [groups |-> <<[name |-> "all", members |-> <<ToGroup(2), Direct>>],
                  [name |-> "home", members |-> <<ToInbound(i1)>>]>>,
     providers |-> <<"streams", "ads">>,
     rules |-> (<<1>> :> Leaf(0, ToGroup(2))) @@ (<<1, 1>> :> Leaf(2, NoRef))
               @@ (<<1, 2>> :> Leaf(0, NoRef)) @@ (<<2>> :> Leaf(1, ToGroup(1))),
     value |-> "v2"]

(* A provider named twice: refused by the store. *)
Twice == [Plain EXCEPT !.providers = <<"ads", "ads">>]

(* A group that leads back to itself: refused before the store sees it. *)
Loop == [Nested EXCEPT !.groups[2].members = <<Direct, ToGroup(1)>>]

MC_Drafts == {Plain, Nested}
MC_AllDrafts == {Plain, Nested, Twice, Loop}
MC_Symmetry == Permutations(Admin)

=============================================================================
