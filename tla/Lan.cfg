CONSTANTS
    ARP_VALID_TIME = 3
    ARP_REQ_BLOCKING_TIME = 2
    ETHERNET_BROADCAST = ETHERNET_BROADCAST
    Hosts = {a, b}
    MaxSends = 3
    MaxLosses = 1
    MaxRestarts = 1
SPECIFICATION FairSpec
INVARIANTS NoneDoubledOrDropped NoFlood
PROPERTY Arrives
