---------------------------- MODULE PromptPromise ----------------------------
(***************************************************************************)
(* What the client, the tools and the raw model may rely on of one prompt: *)
(* the model answers a bounded number of times; between answers tools run, *)
(* one at a time, a reserved one on a permit given for this run; once the  *)
(* client is told anything no tool runs any more; it is told of the tools  *)
(* that ran and then once of the answer, or else of a refusal or an error, *)
(* and then the model has not answered.                                    *)
(***************************************************************************)
EXTENDS Naturals, Sequences

CONSTANTS
    MaxAnswers, \* how often the model may answer
    Reserved    \* the tools that run on a permit only

VARIABLES
    phase,   \* "new", then "working" from the first answer on, "telling", "over", or "down"
    answers, \* how often the model has answered
    running, \* the tool that runs, if one does
    permit,  \* this run has been permitted
    ran,     \* the tools the client is to be told of
    told     \* what the client was told

vars == <<phase, answers, running, permit, ran, told>>

Init ==
    /\ phase = "new"
    /\ answers = 0
    /\ running = {}
    /\ permit = FALSE
    /\ ran = <<>>
    /\ told = <<>>

\* Denied, or the model fails.
Refused ==
    /\ phase = "new"
    /\ phase' = "over"
    /\ told' \in {<<"guardrail">>, <<"error">>}
    /\ UNCHANGED <<answers, running, permit, ran>>

Answered ==
    /\ phase \in {"new", "working"}
    /\ running = {}
    /\ answers < MaxAnswers
    /\ answers' = answers + 1
    /\ phase' = "working"
    /\ UNCHANGED <<running, permit, ran, told>>

RunBegins ==
    /\ phase = "working"
    /\ running = {}
    /\ \E tool \in running' : running' = {tool} /\ permit' = (tool \in Reserved)
    /\ UNCHANGED <<phase, answers, ran, told>>

\* With a result, or without.
RunEnds ==
    /\ running # {}
    /\ running' = {}
    /\ permit' = FALSE
    /\ ran' = ran \/ \E tool \in running : ran' = Append(ran, tool)
    /\ UNCHANGED <<phase, answers, told>>

\* The run takes the daemon down.
RunCrashes ==
    /\ running # {}
    /\ running' = {}
    /\ permit' = FALSE
    /\ phase' = "down"
    /\ UNCHANGED <<answers, ran, told>>

\* The answer stands, or the daemon goes down on it.
Settled ==
    /\ phase = "working"
    /\ running = {}
    /\ phase' \in {"telling", "down"}
    /\ UNCHANGED <<answers, running, permit, ran, told>>

ToolTold ==
    /\ phase = "telling"
    /\ Len(told) < Len(ran)
    /\ told' = Append(told, "tool_result")
    /\ UNCHANGED <<phase, answers, running, permit, ran>>

AnswerTold ==
    /\ phase = "telling"
    /\ Len(told) = Len(ran)
    /\ told' = Append(told, "text")
    /\ phase' = "over"
    /\ UNCHANGED <<answers, running, permit, ran>>

Next ==
    \/ Refused \/ Answered \/ RunBegins \/ RunEnds \/ RunCrashes
    \/ Settled \/ ToolTold \/ AnswerTold

Spec == Init /\ [][Next]_vars
=============================================================================
