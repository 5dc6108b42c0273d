CONSTANTS
    None = None
    publisher = publisher
    freelancer1 = freelancer1
    freelancer2 = freelancer2
    r1 = r1
    b1 = b1
    seeded = {b1}
    User = {publisher, freelancer1, freelancer2}
    Role <- MCRole
    RequirementId = {r1, r2}
    BidId = {b1, b2}
    Session = {s1, s2}
    SubmittedStatus = {"open", "completed"}
    SeedRequirement <- MCSeedRequirement
    SeedBid <- MCSeedBid
SPECIFICATION Spec
INVARIANTS
    ContractsMatchBids
    WinnersHaveContracts
    LoadedRowsAreConsistent
    NotificationsMatchState
PROPERTIES
    BidsNeverReopen
    SafeUntilStale
    ImplementsDeals
