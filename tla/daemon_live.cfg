\* One connection whose client may stop reading; goroutines that can
\* move do.
SPECIFICATION FairSpec
CONSTANTS
    Conns = {c1}
    Names = {x}
    Prompts = {}
    Stallers = {c1}
    Events = {"wake", "idle", "security", "reset", "signal", "timer", "audit"}
    Main = Main
    NoConn = NoConn
    NoName = NoName
CHECK_DEADLOCK FALSE
PROPERTIES LoopsComeBack
