CONSTANTS
    None = None
    ann = ann
    bea = bea
    cy = cy
    r1 = r1
    r2 = r2
    User = {ann, bea, cy}
    RequirementId = {r1, r2}
    BidId = {1, 2, 3}
    Session = {s1, s2, s3}
    Publisher <- MCPublisher
    Bid <- MCBid
    BidsOn <- MCBidsOn
    Request <- MCRequest
SPECIFICATION FairSpec
INVARIANTS
    TypeOK
    DeadlocksPassThroughUsers
    OneRequirementIsOrdered
PROPERTIES
    EveryTransactionEnds
