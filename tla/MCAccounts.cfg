CONSTANTS
    None = None
    user = user
    admin = admin
    Person = {demo, ann}
    Demo = demo
    Name = {user, admin, nick}
    SeedName <- MCSeedName
    SeedData = 2
    Field = {bio}
    Value = {v}
    Session = {s1, s2}
    Retries = 1
    MaxFailures = 2
SPECIFICATION FairSpec
INVARIANTS
    TypeOK
    TokensHoldNames
    ProfilesAsAsked
PROPERTY
    ServesAgain
