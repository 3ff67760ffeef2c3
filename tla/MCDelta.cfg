SPECIFICATION FairSpec

CONSTANTS
    alice = alice
    bob = bob
    m1 = m1
    m2 = m2
    Clients = {alice, bob}
    Items = {m1, m2}
    Old = {m1}
    MaxChange = 3
    None = None

INVARIANTS
    TypeOK
    NoMappingLost
    ClientsTrackTheFolder

PROPERTIES
    ClientsCatchUp
