CONSTANTS
    hub = hub
    a1 = a1
    a2 = a2
    Agents = {hub, a1, a2}
    SelfListed = {a2}
    AddressOf <- MCAddressOf
    Bootstrap <- MCBootstrap
    MaxFaults = 1
    MaxLists = 2
SPECIFICATION Spec
INVARIANTS
    TypeOK
    NeverOwnPeer
    RegisteredHadReason
PROPERTIES
    KeysAreKept
    EveryoneMeets
CHECK_DEADLOCK FALSE
