--------------------------- MODULE PromptPipeline ---------------------------
(***************************************************************************)
(* One prompt (src/internal/daemon/handlers.go: processPrompt, toolLoop):  *)
(* the guardrail, the inference, the calls the answer makes, up to         *)
(* MaxLoops turns of them, and what is delivered.  Everything here is      *)
(* local to the prompt's goroutine; the raw model, the engine, the package *)
(* registry and the tools answer as they like, or fail.                    *)
(***************************************************************************)
EXTENDS ToolCallParser

CONSTANTS
    Responses, \* what the Wide Model may answer to a prompt, a bound of the model
    Further,   \* what it may say when it is told results, a bound of the model
    Calls,     \* calls it may write as it should
    MaxLoops   \* maxLoops of toolLoop, 10 in the code

ASSUME ResponsesAssumption == \A said \in Responses : said \in Seq(Seq(Token))
ASSUME CallsAssumption == \A call \in Calls : IsProper(call)
ASSUME FurtherAssumption == Further \subseteq Responses
ASSUME MaxLoopsAssumption == MaxLoops \in Nat

VARIABLES
    pc,          \* where the prompt is
    response,    \* currentResponse
    calls,       \* the lines of the response whose calls have not been dealt with
    turn,        \* i
    results,     \* what the model will be told of this turn's calls
    toolResults, \* the tools whose results the client will be sent
    delivered,   \* what was sent to the client
    approved,    \* history: the call that was approved last, by turn and place
    cut          \* history: the turns ended with a failed inference

history == <<approved, cut>>
vars == <<pc, response, calls, turn, results, toolResults, delivered, history>>

Outcomes == {"unchecked", "denied", "failed", "ran"}

TypeOK ==
    /\ pc \in {"validate", "deny", "generate", "fail", "parse", "call", "invoke", "deliver",
               "listen", "done", "crashed", "panicked"}
    /\ response \in Responses \cup {<<>>}
    /\ \A line \in ToSet(calls) : IsCall(line)
    /\ turn \in 0 .. MaxLoops
    /\ \A r \in ToSet(results) : r.outcome \in Outcomes
    /\ ToSet(delivered) \subseteq {"guardrail", "error", "tool_result", "text"}
    /\ approved \in ((0 .. MaxLoops) \X Nat) \cup {<<>>}
    /\ cut \in BOOLEAN

Init ==
    /\ pc = "validate"
    /\ response = <<>>
    /\ calls = <<>>
    /\ turn = 0
    /\ results = <<>>
    /\ toolResults = <<>>
    /\ delivered = <<>>
    /\ approved = <<>>
    /\ cut = FALSE

Deliver(what) == delivered' = Append(delivered, what)

-----------------------------------------------------------------------------
(* processPrompt up to the first inference                                 *)

\* The raw model cannot be asked, or says "deny".
GuardrailStops ==
    /\ pc = "validate"
    /\ pc' = "deny"
    /\ UNCHANGED <<response, calls, turn, results, toolResults, delivered, history>>

\* It says anything else, with another wording of the prompt or without; a swap
\* that fails does not stop the prompt.
GuardrailPasses ==
    /\ pc = "validate"
    /\ pc' = "generate"
    /\ UNCHANGED <<response, calls, turn, results, toolResults, delivered, history>>

Answer ==
    /\ pc = "generate"
    /\ response' \in Responses
    /\ pc' = "parse"
    /\ UNCHANGED <<calls, turn, results, toolResults, delivered, history>>

AnswerFails ==
    /\ pc = "generate"
    /\ pc' = "fail"
    /\ UNCHANGED <<response, calls, turn, results, toolResults, delivered, history>>

\* Mutant of DeliverRefusal: a denial is reported and the prompt goes on.
DeliverWarning ==
    /\ \/ pc = "deny" /\ Deliver("guardrail") /\ pc' \in {"listen", "generate"}
       \/ pc = "fail" /\ Deliver("error") /\ pc' = "listen"
    /\ UNCHANGED <<response, calls, turn, results, toolResults, history>>

\* The client is told of the denial, or of the error.
DeliverRefusal ==
    /\ \/ pc = "deny" /\ Deliver("guardrail")
       \/ pc = "fail" /\ Deliver("error")
    /\ pc' = "listen"
    /\ UNCHANGED <<response, calls, turn, results, toolResults, history>>

-----------------------------------------------------------------------------
(* toolLoop                                                                *)

\* Mutants of LastTurn: one turn too few, one too many.
LastTurnEarly == turn + 1 >= MaxLoops
LastTurnLate == turn > MaxLoops

\* The response of the last turn is not parsed any more.
LastTurn == turn = MaxLoops

Parse ==
    /\ pc = "parse"
    /\ \/ LastTurn /\ pc' = "deliver" /\ UNCHANGED calls
       \/ /\ ~LastTurn
          /\ \E i \in DOMAIN response : Panics(response[i])
          /\ pc' = "crashed"
          /\ UNCHANGED calls
       \/ /\ ~LastTurn
          /\ \A i \in DOMAIN response : ~Panics(response[i])
          /\ calls' = CallLines(response)
          /\ pc' = IF calls' = <<>> THEN "deliver" ELSE "call"
    /\ results' = <<>>
    /\ UNCHANGED <<response, turn, toolResults, delivered, history>>

\* Mutant of IsToolValidated: only the namespace itself.
IsNamespace(tool) == tool = <<"cognitiveos.package">>

\* A prefix of the name.
IsToolValidated(tool) == tool # <<>> /\ Head(tool) = "cognitiveos.package"

\* Mutant of Note: the result of the call before it is told again.
NoteTwice(outcome) ==
    /\ results' = Append(Append(results, [tool |-> Tool(Head(calls)), outcome |-> outcome]),
                         [tool |-> Tool(Head(calls)), outcome |-> outcome])
    /\ calls' = Tail(calls)
    /\ pc' = "call"

\* What the model is told of the call, and on to the next one.
Note(outcome) ==
    /\ results' = Append(results, [tool |-> Tool(Head(calls)), outcome |-> outcome])
    /\ calls' = Tail(calls)
    /\ pc' = "call"

\* Mutant of Validate: who was given one approval needs no other.
ValidateOnce ==
    /\ pc = "call"
    /\ calls # <<>>
    /\ IsToolValidated(Tool(Head(calls)))
    /\ approved' = IF approved = <<>> THEN <<turn, Len(calls)>> ELSE approved
    /\ pc' = "invoke"
    /\ UNCHANGED <<response, calls, turn, results, toolResults, delivered, cut>>

\* ValidatePackageRequest: an error, a denial, or an approval.
Validate ==
    /\ pc = "call"
    /\ calls # <<>>
    /\ IsToolValidated(Tool(Head(calls)))
    /\ \/ /\ \E outcome \in {"unchecked", "denied"} : Note(outcome)
          /\ UNCHANGED approved
       \/ /\ approved' = <<turn, Len(calls)>>
          /\ pc' = "invoke"
          /\ UNCHANGED <<calls, results>>
    /\ UNCHANGED <<response, turn, toolResults, delivered, cut>>

NeedsNoValidation ==
    /\ pc = "call"
    /\ calls # <<>>
    /\ ~IsToolValidated(Tool(Head(calls)))
    /\ pc' = "invoke"
    /\ UNCHANGED <<response, calls, turn, results, toolResults, delivered, history>>

\* Invoke returns a result, be it that the tool failed, or a Go error.
Invoke ==
    /\ pc = "invoke"
    /\ \/ Note("failed") /\ UNCHANGED toolResults
       \/ Note("ran") /\ toolResults' = Append(toolResults, Tool(Head(calls)))
    /\ UNCHANGED <<response, turn, delivered, history>>

\* The call takes the daemon down, in this goroutine: the tool is one of a server that
\* is known from mcp_register only, whose Stdin is nil, or answers with an "error"
\* that is not an object.
InvokePanics ==
    /\ pc = "invoke"
    /\ pc' = "panicked"
    /\ UNCHANGED <<response, calls, turn, results, toolResults, delivered, history>>

\* Mutant of Regenerate: a turn that is not counted.
RegenerateUncounted ==
    /\ pc = "call"
    /\ calls = <<>>
    /\ response' \in Further
    /\ pc' = "parse"
    /\ UNCHANGED <<calls, turn, results, toolResults, delivered, history>>

\* The model is told the results and answers anew ...
Regenerate ==
    /\ pc = "call"
    /\ calls = <<>>
    /\ response' \in Further
    /\ turn' = turn + 1
    /\ pc' = "parse"
    /\ UNCHANGED <<calls, results, toolResults, delivered, history>>

\* ... or fails to, and the answer with the calls in it stands.
RegenerateFails ==
    /\ pc = "call"
    /\ calls = <<>>
    /\ cut' = TRUE
    /\ pc' = "deliver"
    /\ UNCHANGED <<response, calls, turn, results, toolResults, delivered, approved>>

-----------------------------------------------------------------------------
(* The end of processPrompt; a send that fails is logged.  SendToClient    *)
(* waits for clientsMu and writes without a deadline: it may not return.   *)

\* Up to here nothing but the results of tools.
Sent == Len(delivered)

DeliverToolResult ==
    /\ pc = "deliver"
    /\ Sent < Len(toolResults)
    /\ Deliver("tool_result")
    /\ UNCHANGED <<pc, response, calls, turn, results, toolResults, history>>

DeliverFinal ==
    /\ pc = "deliver"
    /\ Sent = Len(toolResults)
    /\ Deliver("text")
    /\ pc' = "listen"
    /\ UNCHANGED <<response, calls, turn, results, toolResults, history>>

\* SetState(Listening).
Listen ==
    /\ pc = "listen"
    /\ pc' = "done"
    /\ UNCHANGED <<response, calls, turn, results, toolResults, delivered, history>>

-----------------------------------------------------------------------------

Ended == pc \in {"done", "crashed", "panicked"} /\ UNCHANGED vars

Next ==
    \/ GuardrailStops \/ GuardrailPasses \/ Answer \/ AnswerFails \/ DeliverRefusal
    \/ Parse \/ Validate \/ NeedsNoValidation \/ Invoke \/ InvokePanics
    \/ Regenerate \/ RegenerateFails
    \/ DeliverToolResult \/ DeliverFinal \/ Listen \/ Ended

Delivering == pc \in {"deny", "fail", "deliver"}

\* The goroutine goes on: the requests to the raw model and to the engine have
\* timeouts.  A tool's answer is waited for without one, and so is a client.
Spec == Init /\ [][Next]_vars /\ WF_vars(pc # "invoke" /\ ~Delivering /\ Next)

-----------------------------------------------------------------------------
(* Properties                                                              *)

\* No package tool is invoked but on an approval of this very call: not of an
\* earlier call of the tool in this turn or another, nor when the raw model could
\* not be asked.
PackageToolsAreApproved ==
    pc = "invoke" /\ IsPrefix(<<"cognitiveos.package">>, Tool(Head(calls)))
        => approved = <<turn, Len(calls)>>

\* The model is told the outcome of each call it made, once and in order, before
\* it is asked again, whatever became of the call.
EveryCallIsReported ==
    pc = "call" /\ calls = <<>> =>
        LET made == CallLines(response)
        IN  [i \in DOMAIN results |-> results[i].tool] = [i \in DOMAIN made |-> Tool(made[i])]

\* A prompt ends with exactly one final message, after the results of all tools
\* that ran and nothing else; a prompt the guardrail stops has run none.
OneFinalMessage ==
    pc = "done" =>
        \/ delivered \in {<<"guardrail">>, <<"error">>} /\ toolResults = <<>>
        \/ delivered = [i \in DOMAIN toolResults |-> "tool_result"] \o <<"text">>

\* The client is shown a call as text only if the model was still making calls
\* in the last turn, or could not be asked again.
CallsAreNotAnswers ==
    pc = "done" /\ (\E i \in DOMAIN response : IsCall(response[i])) =>
        turn = MaxLoops \/ cut

\* A call that is written as it should be is read as it was meant, whatever the
\* other lines are.
CallsAreReadAsWritten ==
    pc = "call" =>
        \A call \in Calls, i \in DOMAIN response :
            response[i] = Written(call) => ToolCall(response[i]) = Meant(call)

\* parseToolCalls takes the daemon down (a slice out of range) only on a fenced line
\* that is no proper call.  What Invoke does with a proper call is another matter: see
\* InvokePanics.
CrashNeedsBrokenFence ==
    pc = "crashed" =>
        \E i \in DOMAIN response :
            IsFenced(response[i]) /\ \A call \in Calls : response[i] # Written(call)

\* How far a prompt is from its end within a turn: the place, then the steps there.
Place ==
    [validate |-> 8, generate |-> 7, parse |-> 6, call |-> 5, invoke |-> 5, deliver |-> 4,
     deny |-> 3, fail |-> 3, listen |-> 2, done |-> 1, crashed |-> 1, panicked |-> 1]

Steps ==
    IF pc = "call" THEN 2 * Len(calls) + 1
    ELSE IF pc = "invoke" THEN 2 * Len(calls)
    ELSE IF pc = "deliver" THEN Len(toolResults) - Sent
    ELSE 0

\* There are MaxLoops turns at most; in a turn the places come in order; at a place
\* the steps run out.
Nearer ==
    \/ turn < turn' /\ turn' <= MaxLoops
    \/ turn' = turn /\ Place[pc'] < Place[pc]
    \/ turn' = turn /\ Place[pc'] = Place[pc] /\ Steps' \in 0 .. Steps - 1

\* Every step takes the prompt nearer to its end, whatever the model says, the raw
\* model denies and the tools answer: no prompt goes through a state twice, and the
\* number of its steps has a bound that only its answers and MaxLoops determine.
EveryStepIsNearer == [][Nearer]_vars

\* The prompt ends, or takes the daemon down, however many calls the model makes:
\* neither denials nor failed calls keep the loop going for good.  What may hold it for
\* ever is one tool that does not answer and one delivery that does not return, because
\* of a client that does not read or a shutdown that waits for itself.
PromptEnds ==
    <>(pc \in {"done", "crashed", "panicked"}) \/ <>[](pc = "invoke") \/ <>[]Delivering

\* A prompt as others see it.
Phase ==
    CASE pc \in {"validate", "deny", "generate", "fail"} -> "new"
      [] pc \in {"parse", "call", "invoke"} -> "working"
      [] pc = "deliver" -> "telling"
      [] pc \in {"listen", "done"} -> "over"
      [] pc \in {"crashed", "panicked"} -> "down"

NotAnswered ==
    \/ pc \in {"validate", "deny", "generate", "fail"}
    \/ delivered \in {<<"guardrail">>, <<"error">>}
Answers == IF NotAnswered THEN 0 ELSE turn + 1

Running == IF pc = "invoke" THEN {Tool(Head(calls))} ELSE {}
Permit == pc = "invoke" /\ approved = <<turn, Len(calls)>>

\* Names that begin like the namespace of the package manager.
PackageTools == {tool \in Seq(Token) : IsPrefix(<<"cognitiveos.package">>, tool)}

Promise == INSTANCE PromptPromise WITH
    MaxAnswers <- MaxLoops + 1, Reserved <- PackageTools,
    phase <- Phase, answers <- Answers, running <- Running, permit <- Permit,
    ran <- toolResults, told <- delivered

\* The prompt keeps PromptPromise: the permit of a run is the approval of this very
\* call, the model answers at most MaxLoops + 1 times, and whatever fails on the way,
\* nothing runs after the client was told anything.
KeepsPromise == Promise!Spec
=============================================================================
