------------------------------- MODULE RawRpc -------------------------------
(***************************************************************************)
(* What the rest of cognitiveosd may rely on when it asks the raw model    *)
(* (the guardrail process behind RawModelClient): a call ends with the     *)
(* answer to its own question or with an error, a caller that tests        *)
(* IsReady goes ahead without asking only while the link is not up, and    *)
(* the link comes up at most once and, once lost, never again.             *)
(***************************************************************************)
CONSTANT Callers

VARIABLES
    link,     \* "new" until Connect has ended, then "up" or "down"
    asking,   \* callers inside a call
    outcome   \* how a caller's last call ended

vars == <<link, asking, outcome>>

TypeOK ==
    /\ link \in {"new", "up", "down"}
    /\ asking \subseteq Callers
    /\ outcome \in [Callers -> {"none", "own", "error", "skipped"}]

Init ==
    /\ link = "new"
    /\ asking = {}
    /\ outcome = [c \in Callers |-> "none"]

\* Connect ends.
Connected == link = "new" /\ link' \in {"up", "down"} /\ UNCHANGED <<asking, outcome>>

\* The link is closed.
Closed == link = "up" /\ link' = "down" /\ UNCHANGED <<asking, outcome>>

Ask(c) ==
    /\ c \notin asking
    /\ asking' = asking \cup {c}
    /\ outcome' = [outcome EXCEPT ![c] = "none"]
    /\ UNCHANGED link

Ends(c, how) ==
    /\ c \in asking
    /\ asking' = asking \ {c}
    /\ outcome' = [outcome EXCEPT ![c] = how]

\* The answer to the caller's own question.
Answered(c) == link = "up" /\ Ends(c, "own") /\ UNCHANGED link

\* An error, which may be the end of the link.
Failed(c) ==
    /\ Ends(c, "error")
    /\ link' = link \/ (link = "up" /\ link' = "down")

\* The caller saw that the raw model is not ready and does not ask.
Skipped(c) == link # "up" /\ Ends(c, "skipped") /\ UNCHANGED link

Next ==
    \/ Connected \/ Closed
    \/ \E c \in Callers : Ask(c) \/ Answered(c) \/ Failed(c) \/ Skipped(c)

Spec == Init /\ [][Next]_vars
=============================================================================
