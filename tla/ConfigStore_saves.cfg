SPECIFICATION Spec
CONSTANTS
    a1 = a1
    a2 = a2
    i1 = i1
    Admin = {a1}
    User = {"alice", "bob"}
    Base = "base"
    Inbound = {i1}
    Draft <- MC_AllDrafts
    Absent = Absent
    MaxConfigs = 4
    MaxWrites = 4
INVARIANTS
    TypeOK
    ConfigsApart
    GroupsAcyclic
PROPERTIES
    ImplementsProfiles
    SaveHitsItsOwner
