--------------------------- MODULE MC_Provisioning ---------------------------
(* Small instances of Provisioning for TLC. *)
EXTENDS Fleet, TLC

CONSTANTS p1, p2, alice, bob, n1, n2, a1, a2, b1, h2

(* a1 and a2 are vless inbounds of n1; n2 has b1 and the hysteria2 one, h2. *)
MC_NodeOf == (a1 :> n1) @@ (a2 :> n1) @@ (b1 :> n2) @@ (h2 :> n2)

MC_Mixed == {{a1}, {a1, a2}, {b1}, {a1, h2}, {a2, b1, h2}}
MC_Few == {{a1}, {b1}}

MC_Symmetry == Permutations({p1, p2})

MC_NoSquatters == {}
MC_Squatted == {<<n2, alice>>}

=============================================================================
