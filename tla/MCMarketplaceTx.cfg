CONSTANTS
    None = None
    publisher = publisher
    freelancer1 = freelancer1
    freelancer2 = freelancer2
    r1 = r1
    b1 = b1
    b2 = b2
    seeded = {b1}
    User = {publisher, freelancer1}
    Role <- MCRole
    RequirementId = {r1}
    BidId = {b1, b2}
    Session = {s1, s2}
    SubmittedStatus = {"completed"}
    SeedRequirement <- MCSeedRequirement
    SeedBid <- MCSeedBid
SPECIFICATION TxFairSpec
INVARIANTS
    TxTypeOK
    ChecksStayTrue
PROPERTIES
    SignaturesTellTheOther
    ImplementsMarketplace
    RequestsFinish
