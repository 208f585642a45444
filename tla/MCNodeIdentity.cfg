CONSTANT Limit <- DeviceLife
SPECIFICATION FairSpec
INVARIANTS IdentityIsKept UserStaysAsked
PROPERTY ExpiryIsHandled
CHECK_DEADLOCK FALSE
