\* Two servers that poll each other and a peer that answers anything, with faults of the stream and of the servers.
SPECIFICATION FairSpec
CONSTANTS
    None = None
    Garbage = Garbage
    Err = Err
    Forever = Forever
    s1 = s1
    s2 = s2
    mal = mal
    x = x
    k1 = k1
    k2 = k2
    k3 = k3
    Paid = {k1, k2}
    Peers = {s1, s2, mal}
    Pollers = {s1, s2}
    Hung = {}
    PeerOf <- Where
    BodyOf <- What
    Bodies = {x}
    Timestamp <- Stamps
    Ttl <- Lives
    Updates = {k1, k2, k3}
    Prompt = {k1}
    Delay = 1
    Horizon = 2
    MaxFaults = 1
INVARIANTS TypeOK PromptFound NoneSkipped
PROPERTIES RolledBackOnlyByRace Converges
