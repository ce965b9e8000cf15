SPECIFICATION FairSpec
CONSTANTS
    p1 = p1
    p2 = p2
    alice = alice
    bob = bob
    n1 = n1
    n2 = n2
    a1 = a1
    a2 = a2
    b1 = b1
    h2 = h2
    Proc = {p1, p2}
    Name = {alice}
    Node = {n1, n2}
    Inbound = {a1, a2, b1, h2}
    NodeOf <- MC_NodeOf
    Hysteria = {h2}
    OnPanel = {a1, a2, b1, h2}
    Selection <- MC_Few
    Squatted <- MC_NoSquatters
    NoName = NoName
    NoNode = NoNode
    NoClient = NoClient
    MaxReqs = 3
    MaxFaults = 1
    MaxMeddling = 0
INVARIANTS
    StoreConsistent
    PanelsAgree
PROPERTIES
    RequestsEnd
