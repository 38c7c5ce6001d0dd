\* One name, two chains: restart, health-check respawn, socket registration, signal.
SPECIFICATION Spec
CONSTANTS
    n1 = n1
    o1 = o1
    o2 = o2
    Names = {n1}
    Objs <- MCObjs
    NameOf <- OneName
    BridgePrefixed = {}
    Tools = {t1}
    Invokers = {i1}
    Handlers = {h1}
    Closers = {main}
    Main = main
    NoObj = NoObj
    Remote = Remote
    Nobody = Nobody
SYMMETRY MCSymmetry
INVARIANTS TypeOK NoStaleEntry InactiveEntryLeaves InvokePinsEntry StdoutSharedOnlyAfterRegister
