\* One connection; nothing ever blocks but the shutdown itself.
SPECIFICATION FairSpec
CONSTANTS
    Conns = {c1}
    Names = {x}
    Prompts = {}
    Stallers = {}
    Events = {"wake", "idle", "security", "reset", "signal", "timer", "audit"}
    Main = Main
    NoConn = NoConn
    NoName = NoName
CHECK_DEADLOCK FALSE
PROPERTIES SecurityPowersOff
