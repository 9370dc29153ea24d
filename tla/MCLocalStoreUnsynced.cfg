CONSTANTS
    t1 = t1  t2 = t2  t3 = t3
    s1 = s1  s2 = s2
    h1 = h1  h2 = h2
    w1 = w1  w2 = w2
    Threads = {t1, t3}
    Stores = {s1, s2}
    StoreOf <- HandlerAndImport
    Hashes = {h1}
    Size <- Sizes
    Quota <- Unlimited
    Writers = {w1, w2}
    NoWriter = NoWriter
    NoThread = NoThread
    Faults <- IOAndPower
SPECIFICATION Spec
INVARIANTS PromisedShardsStay
