CONSTANTS
    ARP_VALID_TIME = 2
    ARP_REQ_BLOCKING_TIME = 1
    ETHERNET_BROADCAST = ETHERNET_BROADCAST
    AddressBits = 3
    TtlMod = 8
    NoHop = NoHop
    Hosts = {"h1", "h2", "h3"}
    Routers = {"r1", "r2"}
    Ports <- MCPorts
    AddressOf <- MCAddressOf
    LinkOf <- MCLinkOf
    Gateway <- MCGateway
    RouteTable <- MCRouteTable
    Targets = {1, 5, 7}
    Ttls = {0, 3}
    MaxSends = 2
SPECIFICATION FairSpec
INVARIANT TtlPaid
PROPERTIES ComesToRest ReachesHost
CHECK_DEADLOCK FALSE
