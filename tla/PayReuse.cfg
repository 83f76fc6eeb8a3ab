\* One token, two updates.
SPECIFICATION Spec
CONSTANTS
    None = None
    Garbage = Garbage
    NotPop = NotPop
    t1 = t1
    t2 = t2
    t3 = t3
    w1 = w1
    w2 = w2
    a1 = a1
    a2 = a2
    u1 = u1
    u2 = u2
    Tasks = {t1}
    Workers = {w1}
    WorkerOf <- OneWorker
    Addrs = {a1}
    Urls = {u1, u2}
    Decodable = {u1}
    Txs <- PayOne
    Posts <- PostOne
    MaxPasses = 2
    MaxCrashes = 0
INVARIANTS EveryUpdateCharged
