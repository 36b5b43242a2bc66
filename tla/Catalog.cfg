SPECIFICATION CatalogSpec
CONSTANTS
    Runs = {r1}
    Appliances = {1, 2, 3}
    Seeded = {1}
    NULL = NULL
    ClaimLease = 1
    ReclaimWindow = 2
    BatchLimit = 1
    Clients = {c1, c2}
    Words = {"dryer", "pump"}
    Spellings = {"lower", "upper"}
    Hours = {1, 2}
    SeedRows <- MCSeedRows
    MaxAttempts = 1
SYMMETRY MCSymmetry
INVARIANTS
    NamesAreUnique
    RunKeepsItsAppliance
    AnswersWereTrue
CHECK_DEADLOCK FALSE
