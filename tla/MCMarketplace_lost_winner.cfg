CONSTANTS
    None = None
    publisher = publisher
    freelancer1 = freelancer1
    freelancer2 = freelancer2
    r1 = r1
    b1 = b1
    seeded = {b1, b2}
    User = {publisher, freelancer1, freelancer2}
    Role <- MCRole
    RequirementId = {r1}
    BidId = {b1, b2}
    Session = {s1, s2}
    SubmittedStatus = {"open"}
    SeedRequirement <- MCSeedRequirement
    SeedBid <- MCSeedBid
SPECIFICATION Spec
INVARIANTS
    OneContractPerRequirement
