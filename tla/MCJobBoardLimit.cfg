CONSTANTS
    alice = alice
    bob = bob
    Users <- MCUsers
    Jobs = {j1, j2}
    NoUser = NoUser
    InvitedBy <- MCInvitedBy
    Bounties = {0}
SPECIFICATION Spec
PROPERTY LimitIsTemporary
CHECK_DEADLOCK FALSE
