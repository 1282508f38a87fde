SPECIFICATION FairSpec
CONSTANTS
    Migrator = {p1, p2}
    Build = {"old", "new", "edited"}
    List <- MCList
    Checksum = {"a", "b", "c", "x"}
    NoChecksum = NoChecksum
    NoMigrator = NoMigrator
INVARIANTS
    NeverReapplies
    LedgerMatchesSchema
    DoneMeansApplied
PROPERTIES
    Settles
    KeepsPromise
