\* Metadata without a TTL, as in the example.
SPECIFICATION FairSpec
CONSTANTS
    None = None
    Garbage = Garbage
    Err = Err
    Forever = Forever
    s1 = s1
    s2 = s2
    mal = mal
    x = x
    k1 = k1
    k2 = k2
    k3 = k3
    Peers = {s1, s2, mal}
    Pollers = {s1, s2}
    Hung = {}
    PeerOf <- Where
    BodyOf <- What
    Bodies = {x}
    Timestamp <- Stamps
    Ttl <- NoTtl
    Updates = {k1}
    Paid = {k1}
    Prompt = {k1}
    Delay = 1
    Horizon = 2
    MaxFaults = 0
PROPERTIES PeeredAfterDelay
