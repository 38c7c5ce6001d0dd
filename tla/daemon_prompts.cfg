\* Two connections, two names, two prompts in flight, the code and the timer that
\* set the state to idle beside them; shutdowns and the wake code are left to the proof.
\* A client that does not read is one whose answers are slow here.
SPECIFICATION Spec
CONSTANTS
    Conns = {c1, c2}
    Names = {x, y}
    Prompts = {p1, p2}
    Stallers = {}
    Events = {"idle", "timer"}
    Main = Main
    NoConn = NoConn
    NoName = NoName
SYMMETRY MCSymmetry
CHECK_DEADLOCK FALSE
INVARIANTS ProcessingHasPrompt AnswerGoesToItsName
