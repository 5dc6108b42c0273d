CONSTANTS
    None = None
    publisher = publisher
    freelancer = freelancer
    User = {publisher, freelancer}
    Role <- MCRole
    RequirementId = {r1}
    BidId = {b1}
    Session = {s1, s2}
    SubmittedStatus = {"open"}
    SeedRequirement <- MCSeedRequirement
    SeedBid <- MCSeedBid
SPECIFICATION LogSpec
INVARIANTS
    LogTypeOK
    LogTellsTheTruth
    OnlyFailuresAreMissing
