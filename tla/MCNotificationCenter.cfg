CONSTANTS
    None = None
    alice = alice
    bob = bob
    e1 = e1
    User = {alice, bob}
    Event = {e1}
    Recipient <- MCRecipient
    Tab = {t1}
    Slot = {q1, q2}
SPECIFICATION FairSpec
INVARIANT
    TypeOK
PROPERTIES
    ReadForGood
    ReadByRecipient
    OnlyLateAnswersMix
    ShownReadIsRead
    BadgeSettles
