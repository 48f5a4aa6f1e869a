\* Crashes at every instant and torn tails, compaction by hand and by the
\* bound; no write fails while the process goes on.
CONSTANTS
    k1 = k1
    k2 = k2
    Key <- MCKey2
    NoDocument = NoDocument
    MaxJournalRecords = 2
    MaxFindings = 2
    MaxBoots = 4
    AppendMayFail = FALSE
    ReplaceMayFail = FALSE
    MaxDefinition = 1
    MaxFence = 2
    MaxLineage = 1
    MaxEpoch = 3
    MaxStoreGeneration = 3
SYMMETRY KeySymmetry
SPECIFICATION Spec
INVARIANTS
    MemoryIsTheDocument
    DocumentIsWellFormed
PROPERTIES
    IdentityIsFresh
    ImplementsDurableDocument
CHECK_DEADLOCK FALSE
