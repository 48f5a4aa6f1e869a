\* The record bound of the journal, with a crash right after it is reached.
CONSTANTS
    k1 = k1
    k2 = k2
    Key <- MCKey1
    NoDocument = NoDocument
    MaxJournalRecords = 3
    MaxFindings = 2
    MaxBoots = 4
    AppendMayFail = FALSE
    ReplaceMayFail = FALSE
    MaxDefinition = 1
    MaxFence = 1
    MaxLineage = 1
    MaxEpoch = 3
    MaxStoreGeneration = 2
SPECIFICATION Spec
INVARIANT Reopens
CHECK_DEADLOCK FALSE
