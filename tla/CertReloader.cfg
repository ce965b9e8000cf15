SPECIFICATION Spec
CONSTANTS
    Handshake = {"h1", "h2"}
    Torn = Torn
    NoCert = NoCert
    MaxRenewals = 2
INVARIANT
    PairWhole
PROPERTIES
    LatestServed
