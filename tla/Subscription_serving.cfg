SPECIFICATION SubSpec
CONSTANTS
    a1 = a1
    a2 = a2
    s1 = s1
    i1 = i1
    Admin = {a1}
    Client = {s1}
    Nobody = Nobody
    User = {"alice", "bob"}
    Base = "base"
    Inbound = {i1}
    Draft <- MC_Drafts
    Absent = Absent
    MaxConfigs = 3
    MaxWrites = 3
INVARIANTS
    QuietServesConfig
    SelfContained
    NeverAnothersConfig
