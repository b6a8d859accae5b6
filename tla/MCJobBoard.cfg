CONSTANTS
    alice = alice
    bob = bob
    Users <- MCUsers
    Jobs = {j1, j2, j3, j4}
    NoUser = NoUser
    InvitedBy <- MCInvitedBy
    Bounties = {20}
SPECIFICATION Spec
INVARIANTS
    TypeOK
    ClaimsWithinTier
    OneRunPerJob
    AccountsAddUp
PROPERTIES
    WebClaimsFinish
    KeepsContract
CHECK_DEADLOCK FALSE
