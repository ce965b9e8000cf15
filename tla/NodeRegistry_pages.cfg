SPECIFICATION Spec
CONSTANTS
    p1 = p1
    p2 = p2
    Page = {p1, p2}
    Name = {"de", "fr"}
    Port = {1, 2}
    NoName = NoName
    MaxNodes = 2
    MaxInbounds = 3
    MaxRows = 2
    MaxEdits = 1
INVARIANTS
    TypeOK
    RegistrySound
PROPERTIES
    IdsStable
    SaveStaysHome
    FreshSaveStores
SYMMETRY MC_Symmetry
