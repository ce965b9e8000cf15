-------------------------------- MODULE Fleet --------------------------------
(***************************************************************************)
(* The fleet (internal/service/fleet): what the panels and the store that  *)
(* Provisioning writes come to for a subscriber and for the users table.   *)
(*                                                                         *)
(* Each fetch lists the nodes, then the panels one by one, then the        *)
(* connections.  It is looked at here as if all were read at once: for a   *)
(* user no request works on, and a panel nobody meddles with, none of what *)
(* concerns him changes in between.  `up` are the nodes whose panel        *)
(* answers.                                                                *)
(*                                                                         *)
(* A proxy is the pair of a subscriber and an inbound.  Abstracted: labels *)
(* and stream settings, flows, traffic, and inbounds or clients switched   *)
(* off on a panel.                                                         *)
(***************************************************************************)
EXTENDS Provisioning

(* The configured inbounds of nodes whose panel was listed. *)
Observed(up) == {i \in Registered : NodeOf[i] \in up}

(* A configured inbound is the panel's inbound on the same port. *)
findByPort(n) == {i \in OnPanel : NodeOf[i] = n}
ListedClients(n, i) ==
    {e \in Name : i \in findByPort(n) /\ panel[n][e] # NoClient /\ i \in panel[n][e].inbs}

(* Clients are grouped by the sub_id they carry; a client made on the      *)
(* panel has none of subgen's.                                             *)
buildFleet(up) ==
    UNION {{<<panel[NodeOf[i]][e].sub, i>> : e \in ListedClients(NodeOf[i], i)}
             : i \in Observed(up)}

(* An entry for every inbound of a listed node, also for one the panel     *)
(* does not have.                                                          *)
ClientsByInbound(up) == [i \in Observed(up) |-> ListedClients(NodeOf[i], i)]

(* Slip: only the nodes whose panel was listed. *)
addHysteria2Inbounds_listed(up) ==
    {w \in UserId \X (Hysteria \cap Observed(up)) : w[2] \in conns[w[1]]}
(* There is no hysteria2 on a panel: whoever is connected in the store.    *)
addHysteria2Inbounds(up) ==
    {w \in UserId \X (Hysteria \cap Registered) : w[2] \in conns[w[1]]}

(* An error only when there are panels and all are out of reach. *)
Unreachable(up) == nodes # {} /\ nodes \cap up = {}
Subs(up) == buildFleet(up) \cup addHysteria2Inbounds(up)

ClientMissing(up, i, e) ==
    ~Unreachable(up) /\ i \in DOMAIN ClientsByInbound(up) /\ e \notin ClientsByInbound(up)[i]

-----------------------------------------------------------------------------
(* A user is served exactly the inbounds he is connected to: those of      *)
(* vless while their panel can be reached, those of hysteria2 even when it *)
(* cannot, none of another's, and none of a user who had his nickname      *)
(* before him; and the badge "no client on the panel" is not put on a      *)
(* vless connection without cause.  buildFleet goes by what subgen bound   *)
(* on the panels, request by request, addHysteria2Inbounds by the store.   *)
(* Excused are the pairs excused in PanelsAgree.                           *)
FleetServes ==
    \A u \in Live, up \in SUBSET nodes :
        (\A p \in Proc : req[p].name # nameOf[u]) /\ ~Unreachable(up) =>
            \A i \in {j \in Registered : <<NodeOf[j], nameOf[u]>> \notin drift} :
                /\ <<u, i>> \in Subs(up) <=>
                       i \in conns[u] /\ (i \in Hysteria \/ NodeOf[i] \in up)
                /\ i \in conns[u] \ Hysteria => ~ClientMissing(up, i, nameOf[u])
=============================================================================
