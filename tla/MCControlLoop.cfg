CONSTANTS
    Conns = {c1, c2}
    MaxClients = 1
    MaxGeneration = 3
SPECIFICATION FairSpec
INVARIANTS TypeOK  HeldAreCurrent
PROPERTY ConnectionsSettle
