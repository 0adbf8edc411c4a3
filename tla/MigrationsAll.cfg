SPECIFICATION SchemaSpec
CONSTANTS
    g1 = g1
    g2 = g2
    m1 = m1
    m2 = m2
    feed = feed
    other = other
    Game = {g1, g2}
    Model = {m1, m2}
    Source = {feed, other}
    MaxRows = 3
    MaxRecords = 3
SYMMETRY Symmetric
INVARIANTS
    NeverRefused
    SchemaOfVersion
    OneLatest
CHECK_DEADLOCK FALSE
