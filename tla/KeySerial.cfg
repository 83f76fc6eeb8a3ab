\* One thread: the store as its client knows it.
SPECIFICATION Spec
CONSTANTS
    None = None
    Garbage = Garbage
    k1 = k1
    k2 = k2
    b1 = b1
    b2 = b2
    e1 = e1
    PubKeys = {k1, k2}
    Bodies = {b1, b2}
    Entries = {e1}
    Schemes = {0, 1}
    MaxI64 = 3
    AddrStrs = {"cashaddr", "base58", "invalid"}
    RawAddress <- MCRawAddress
    AddrBody <- MCAddrBody
    Workers = {w1}
    Pollers = {}
    MaxTime = 3
    Inputs <- RaceInputs
PROPERTIES StoreSpec
