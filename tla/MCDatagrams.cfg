CONSTANTS
    Server <- MCServer
    Clients <- MCClients
    TapClient <- MCTapClient
    Segments <- MCSegments
    Changes = {1, 128, 255}
    MaxLength = 57
    MaxHeld = 1
    ETHERNET_BROADCAST <- MCBroadcast
    ARP_VALID_TIME = 2
    ARP_REQ_BLOCKING_TIME = 1
SPECIFICATION Spec
INVARIANTS
    AcceptedAsSent
    OnePeer
    WholeIsAccepted
