------------------------ MODULE PromptPipelineProofs ------------------------
(***************************************************************************)
(* Proofs about PromptPipeline, for every set of responses and of calls    *)
(* and every number of turns.                                              *)
(***************************************************************************)
EXTENDS PromptPipeline, ToolCallParserProofs, SequenceTheorems, TLAPS

-----------------------------------------------------------------------------
(* Package tools                                                           *)

\* Where a validated tool is invoked, the approval is of this call.
Approval ==
    pc = "invoke" /\ IsToolValidated(Tool(Head(calls))) => approved = <<turn, Len(calls)>>

\* What has the prefix is validated.
LEMMA PrefixIsValidated ==
    ASSUME NEW tool, IsPrefix(<<"cognitiveos.package">>, tool)
    PROVE  IsToolValidated(tool)
<1>1. Len(tool) >= 1 /\ tool[1] = "cognitiveos.package"
    BY DEF IsPrefix
<1>2. tool # <<>>
    BY <1>1
<1> QED
    BY <1>1, <1>2 DEF IsToolValidated

\* Every step leaves a validated tool with its own approval.
LEMMA ApprovalStep == Approval /\ [Next]_vars => Approval'
<1> SUFFICES ASSUME Approval, [Next]_vars PROVE Approval'
    OBVIOUS
<1> USE DEF Approval
<1>1. CASE GuardrailStops
    BY <1>1 DEF GuardrailStops
<1>2. CASE GuardrailPasses
    BY <1>2 DEF GuardrailPasses
<1>3. CASE Answer
    BY <1>3 DEF Answer
<1>4. CASE AnswerFails
    BY <1>4 DEF AnswerFails
<1>5. CASE Parse
    BY <1>5 DEF Parse
<1>6. CASE Validate
    BY <1>6 DEF Validate, Note
<1>7. CASE NeedsNoValidation
    BY <1>7 DEF NeedsNoValidation
<1>8. CASE Invoke
    BY <1>8 DEF Invoke, Note
<1>9. CASE Regenerate
    BY <1>9 DEF Regenerate
<1>10. CASE RegenerateFails
    BY <1>10 DEF RegenerateFails
<1>11. CASE DeliverToolResult
    BY <1>11 DEF DeliverToolResult, Deliver
<1>12. CASE DeliverFinal
    BY <1>12 DEF DeliverFinal, Deliver
<1>13. CASE Listen
    BY <1>13 DEF Listen
<1>14. CASE Ended
    BY <1>14 DEF Ended, vars, history
<1>15. CASE UNCHANGED vars
    BY <1>15 DEF vars, history
<1>16. CASE InvokePanics
    BY <1>16 DEF InvokePanics
<1>17. CASE DeliverRefusal
    BY <1>17 DEF DeliverRefusal
<1> QED
    BY <1>1, <1>2, <1>3, <1>4, <1>5, <1>6, <1>7, <1>8,
       <1>9, <1>10, <1>11, <1>12, <1>13, <1>14, <1>15, <1>16, <1>17
    DEF Next

\* No package tool runs without an approval of this very call.
THEOREM PackageToolsNeedApproval == Spec => []PackageToolsAreApproved
<1>1. Init => Approval
    BY DEF Init, Approval
<1>2. Approval => PackageToolsAreApproved
    BY PrefixIsValidated DEF Approval, PackageToolsAreApproved
<1> QED
    BY <1>1, <1>2, ApprovalStep, PTL DEF Spec

-----------------------------------------------------------------------------
(* What the client is sent                                                 *)

Kinds == {"guardrail", "error", "tool_result", "text"}

\* What the client has been sent by each place of the prompt.
Sending ==
    /\ \E S : toolResults \in Seq(S)
    /\ delivered \in Seq(Kinds)
    /\ pc \in {"validate", "deny", "generate", "fail"} => toolResults = <<>>
    /\ pc \in {"validate", "deny", "generate", "fail", "parse", "call", "invoke"} =>
          delivered = <<>>
    /\ pc = "deliver" => /\ Len(delivered) <= Len(toolResults)
                         /\ \A i \in 1 .. Len(delivered) : delivered[i] = "tool_result"
    /\ pc \in {"listen", "done"} =>
          \/ delivered \in {<<"guardrail">>, <<"error">>} /\ toolResults = <<>>
          \/ delivered = [i \in DOMAIN toolResults |-> "tool_result"] \o <<"text">>

\* A sequence stays one when something is appended to it.
LEMMA AppendToAny ==
    ASSUME NEW s, \E S : s \in Seq(S), NEW e
    PROVE  \E S : Append(s, e) \in Seq(S)
<1>1. PICK S : s \in Seq(S)
    OBVIOUS
<1>2. s \in Seq(S \cup {e})
    BY <1>1, SeqMonotonic
<1>3. Append(s, e) \in Seq(S \cup {e})
    BY <1>2, AppendProperties
<1> QED
    BY <1>3

\* Every step keeps what is sent in order.
LEMMA SendingStep == Sending /\ [Next]_vars => Sending'
<1> SUFFICES ASSUME Sending, [Next]_vars PROVE Sending'
    OBVIOUS
<1> USE DEF Sending, Kinds
<1>1. CASE GuardrailStops
    BY <1>1 DEF GuardrailStops
<1>2. CASE GuardrailPasses
    BY <1>2 DEF GuardrailPasses
<1>3. CASE Answer
    BY <1>3 DEF Answer
<1>4. CASE AnswerFails
    BY <1>4 DEF AnswerFails
<1>5. CASE Parse
    BY <1>5 DEF Parse
<1>6. CASE Validate
    BY <1>6 DEF Validate, Note
<1>7. CASE NeedsNoValidation
    BY <1>7 DEF NeedsNoValidation
<1>8. CASE Invoke
  <2>1. \E S : Append(toolResults, Tool(Head(calls))) \in Seq(S)
      BY AppendToAny
  <2>2. toolResults' \in {toolResults, Append(toolResults, Tool(Head(calls)))}
      BY <1>8 DEF Invoke
  <2> QED
      BY <1>8, <2>1, <2>2 DEF Invoke, Note
<1>9. CASE Regenerate
    BY <1>9 DEF Regenerate
<1>10. CASE RegenerateFails
    BY <1>10 DEF RegenerateFails
<1>11. CASE DeliverToolResult
  <2>1. PICK S : toolResults \in Seq(S)
      OBVIOUS
  <2>2. delivered' = Append(delivered, "tool_result") /\ UNCHANGED <<pc, toolResults>>
      BY <1>11 DEF DeliverToolResult, Deliver
  <2>3. /\ delivered' \in Seq(Kinds) /\ Len(delivered') = Len(delivered) + 1
        /\ \A i \in 1 .. Len(delivered') : delivered'[i] = "tool_result"
      BY <1>11, <2>2, AppendProperties DEF DeliverToolResult
  <2>4. Len(delivered') <= Len(toolResults')
      BY <1>11, <2>1, <2>2, <2>3, LenProperties DEF DeliverToolResult, Sent
  <2> QED
      BY <1>11, <2>2, <2>3, <2>4 DEF DeliverToolResult
<1>12. CASE DeliverFinal
  <2>1. PICK S : toolResults \in Seq(S)
      OBVIOUS
  <2>2. Len(delivered) = Len(toolResults) /\ DOMAIN toolResults = 1 .. Len(toolResults)
      BY <1>12, <2>1, LenProperties DEF DeliverFinal, Sent
  <2>3. delivered = [i \in DOMAIN toolResults |-> "tool_result"]
      BY <1>12, <2>2, LenProperties DEF DeliverFinal
  <2>4. delivered' = delivered \o <<"text">> /\ delivered' \in Seq(Kinds)
      BY <1>12, AppendIsConcat, AppendProperties DEF DeliverFinal, Deliver
  <2> QED
      BY <1>12, <2>3, <2>4 DEF DeliverFinal
<1>13. CASE Listen
    BY <1>13 DEF Listen
<1>14. CASE Ended
    BY <1>14 DEF Ended, vars, history
<1>15. CASE UNCHANGED vars
    BY <1>15 DEF vars, history
<1>16. CASE InvokePanics
    BY <1>16 DEF InvokePanics
<1>17. CASE DeliverRefusal
    BY <1>17, AppendProperties DEF DeliverRefusal, Deliver
<1> QED
    BY <1>1, <1>2, <1>3, <1>4, <1>5, <1>6, <1>7, <1>8,
       <1>9, <1>10, <1>11, <1>12, <1>13, <1>14, <1>15, <1>16, <1>17
    DEF Next

\* What is sent stays in order, always.
LEMMA SendingInvariant == Spec => []Sending
<1>1. Init => Sending
    BY EmptySeq DEF Init, Sending
<1> QED
    BY <1>1, SendingStep, PTL DEF Spec

\* Every prompt that ends has one final message, after the results of its tools.
THEOREM PromptHasOneFinalMessage == Spec => []OneFinalMessage
<1>1. Sending => OneFinalMessage
    BY DEF Sending, OneFinalMessage
<1> QED
    BY <1>1, SendingInvariant, PTL

-----------------------------------------------------------------------------
(* The calls of a response                                                 *)

\* A line that is taken for a call, and what the model is told of one.
CallLine == {line \in Seq(Token) : IsCall(line)}
Notes == [tool : Seq(Token), outcome : Outcomes]

\* The types, as sets of sequences.
Typed ==
    /\ pc \in {"validate", "deny", "generate", "fail", "parse", "call", "invoke", "deliver",
               "listen", "done", "crashed", "panicked"}
    /\ response \in Responses \cup {<<>>}
    /\ calls \in Seq(CallLine)
    /\ turn \in 0 .. MaxLoops
    /\ results \in Seq(Notes)
    /\ approved \in ((0 .. MaxLoops) \X Nat) \cup {<<>>}
    /\ cut \in BOOLEAN

\* The first calls of these have been noted, the others are left.
Noted(noted, left, made) ==
    /\ Len(noted) + Len(left) = Len(made)
    /\ \A i \in 1 .. Len(noted) : noted[i].tool = Tool(made[i])
    /\ \A i \in 1 .. Len(left) : left[i] = made[Len(noted) + i]

\* A response whose calls were all dealt with, or could not be.
Final == (\A i \in DOMAIN response : ~IsCall(response[i])) \/ turn = MaxLoops \/ cut

\* Where the prompt is with the response.
Parsing ==
    /\ pc \in {"validate", "deny", "generate", "fail"} => response = <<>>
    /\ pc \in {"call", "invoke"} => turn < MaxLoops /\ Noted(results, calls, CallLines(response))
    /\ pc = "invoke" => calls # <<>>
    /\ pc \in {"deliver", "listen", "done"} => Final
    /\ pc = "crashed" => \E i \in DOMAIN response : Panics(response[i])

\* A place found in a text is one of the text.
LEMMA IndexIsPlace ==
    ASSUME NEW text, NEW token, Len(text) \in Nat
    PROVE  Index(text, token) \in 0 .. Len(text)
<1> DEFINE I == {j \in 1 .. Len(text) : text[j] = token}
<1>1. Index(text, token) = IF I # {} THEN Min(I) ELSE 0
    BY DEF Index, SelectInSeq
<1>2. CASE I # {}
  <2>1. I \in SUBSET Nat
      OBVIOUS
  <2> HIDE DEF I
  <2>2. PICK x \in I : \A y \in I : x <= y
      BY <1>2, <2>1, LeastNumber
  <2>3. Min(I) = x
      BY <2>1, <2>2, MinIsLeast
  <2> QED
      BY <1>1, <1>2, <2>2, <2>3 DEF I
<1>3. CASE I = {}
  <2> HIDE DEF I
  <2> QED
      BY <1>1, <1>3
<1> QED
    BY <1>2, <1>3

\* The name of a tool is a text.
LEMMA ToolIsText ==
    ASSUME NEW line \in CallLine
    PROVE  Tool(line) \in Seq(Token)
<1> DEFINE inner == Inner(line)
           paren == ParenIn(inner)
<1>1. line \in Seq(Token) /\ Len(line) \in Nat
    BY LenProperties DEF CallLine
<1>2. inner \in Seq(Token) /\ Len(inner) \in Nat
  <2>1. \A i \in 3 .. Len(line) - 2 : line[i] \in Token
      BY <1>1, ElementOfSeq
  <2>2. inner \in Seq(Token)
      BY <1>1, <2>1, SubSeqProperties DEF Inner
  <2> QED
      BY <2>2, LenProperties
<1> HIDE DEF inner
<1>3. paren \in 0 .. Len(inner)
    BY <1>2, IndexIsPlace DEF ParenIn
<1>4. \A i \in 1 .. paren - 1 : inner[i] \in Token
    BY <1>2, <1>3, ElementOfSeq
<1>5. SubSeq(inner, 1, paren - 1) \in Seq(Token)
  <2> HIDE DEF paren
  <2> QED
      BY <1>2, <1>3, <1>4, SubSeqProperties
<1> QED
    BY <1>5 DEF Tool, inner

\* A response is a sequence of lines, of which some are calls.
LEMMA ResponsesAreLines ==
    ASSUME NEW said \in Responses \cup {<<>>}
    PROVE  /\ said \in Seq(Seq(Token))
           /\ CallLines(said) \in Seq(CallLine)
           /\ CallLines(said) = <<>> => \A i \in DOMAIN said : ~IsCall(said[i])
<1>1. said \in Seq(Seq(Token))
    BY ResponsesAssumption, EmptySeq
<1> QED
    BY <1>1, CallLinesAreTheCalls DEF CallLine

\* A call is noted, and taken from those that are left.
LEMMA NoteStep ==
    ASSUME Typed, calls # <<>>, NEW outcome \in Outcomes, Note(outcome),
           NEW made, Len(made) \in Nat, Noted(results, calls, made)
    PROVE  /\ calls' \in Seq(CallLine)
           /\ results' \in Seq(Notes)
           /\ Noted(results', calls', made)
<1> DEFINE entry == [tool |-> Tool(Head(calls)), outcome |-> outcome]
<1>1. /\ Head(calls) \in CallLine
      /\ Head(calls) = calls[1]
      /\ calls' \in Seq(CallLine)
      /\ Len(calls') = Len(calls) - 1
      /\ \A i \in 1 .. Len(calls') : calls'[i] = calls[i + 1]
    BY HeadTailProperties DEF Typed, Note
<1>2. entry \in Notes
  <2>1. Tool(Head(calls)) \in Seq(Token)
      BY <1>1, ToolIsText
  <2> QED
      BY <2>1 DEF Notes
<1>3. results \in Seq(Notes) /\ results' = Append(results, entry)
    BY DEF Typed, Note
<1> HIDE DEF entry
<1>4. /\ results' \in Seq(Notes)
      /\ Len(results') = Len(results) + 1
      /\ \A i \in 1 .. Len(results) : results'[i] = results[i]
      /\ results'[Len(results) + 1] = entry
    BY <1>2, <1>3, AppendProperties
<1>5. PICK n \in Nat, m \in Nat \ {0} : Len(results) = n /\ Len(calls) = m
  <2>1. calls \in Seq(CallLine)
      BY DEF Typed
  <2>2. Len(calls) \in Nat /\ Len(calls) # 0
      BY <2>1, LenProperties, EmptySeq
  <2> QED
      BY <1>3, <2>2, LenProperties
<1>6. Head(calls) = made[n + 1]
  <2>1. 1 \in 1 .. m
      OBVIOUS
  <2> QED
      BY <1>1, <1>5, <2>1 DEF Noted
<1>7. ASSUME NEW i \in 1 .. n + 1 PROVE results'[i].tool = Tool(made[i])
  <2>1. CASE i <= n
      BY <1>4, <1>5, <2>1 DEF Noted
  <2>2. CASE i = n + 1
      BY <1>4, <1>5, <1>6, <2>2 DEF entry
  <2> QED
      BY <2>1, <2>2
<1>8. ASSUME NEW i \in 1 .. m - 1 PROVE calls'[i] = made[n + 1 + i]
  <2>1. PICK j \in 1 .. m : j = i + 1 /\ n + j = n + 1 + i
      OBVIOUS
  <2>2. calls[j] = made[n + j]
      BY <1>5 DEF Noted
  <2> QED
      BY <1>1, <1>5, <2>1, <2>2
<1>9. Len(results') + Len(calls') = Len(made)
  <2>1. Len(results') = n + 1 /\ Len(calls') = m - 1
      BY <1>1, <1>4, <1>5
  <2>2. n + m = Len(made)
      BY <1>5 DEF Noted
  <2> QED
      BY <2>1, <2>2
<1> QED
    BY <1>1, <1>4, <1>5, <1>7, <1>8, <1>9 DEF Noted

\* Every step keeps the types, and keeps to the calls of the response.
LEMMA ParsingStep == Typed /\ Parsing /\ [Next]_vars => Typed' /\ Parsing'
<1> SUFFICES ASSUME Typed, Parsing, [Next]_vars PROVE Typed' /\ Parsing'
    OBVIOUS
<1> USE MaxLoopsAssumption
<1>1. CASE GuardrailStops
    BY <1>1 DEF GuardrailStops, history, Typed, Parsing, Final
<1>2. CASE GuardrailPasses
    BY <1>2 DEF GuardrailPasses, history, Typed, Parsing, Final
<1>3. CASE Answer
    BY <1>3 DEF Answer, history, Typed, Parsing, Final
<1>4. CASE AnswerFails
    BY <1>4 DEF AnswerFails, history, Typed, Parsing, Final
<1>5. CASE Parse
  <2> DEFINE made == CallLines(response)
  <2>1. /\ response' = response /\ turn' = turn /\ cut' = cut /\ approved' = approved
        /\ results' = <<>>
      BY <1>5 DEF Parse, history
  <2>2. /\ response \in Seq(Seq(Token)) /\ made \in Seq(CallLine)
        /\ made = <<>> => \A i \in DOMAIN response : ~IsCall(response[i])
      BY ResponsesAreLines DEF Typed
  <2>3. results' \in Seq(Notes) /\ Len(results') = 0
      BY <2>1, EmptySeq
  <2>4. CASE LastTurn /\ pc' = "deliver" /\ UNCHANGED calls
      BY <2>1, <2>3, <2>4 DEF LastTurn, Typed, Parsing, Final
  <2>5. CASE (\E i \in DOMAIN response : Panics(response[i])) /\ pc' = "crashed" /\ UNCHANGED calls
      BY <2>1, <2>3, <2>5 DEF Typed, Parsing, Final
  <2>6. CASE /\ ~LastTurn
             /\ calls' = CallLines(response)
             /\ pc' = IF calls' = <<>> THEN "deliver" ELSE "call"
    <3>1. calls' = made
        BY <2>6
    <3> HIDE DEF made
    <3>2. Len(made) \in Nat
        BY <2>2, LenProperties
    <3>3. Noted(results', calls', made)
        BY <2>3, <3>1, <3>2 DEF Noted
    <3>4. turn < MaxLoops
        BY <2>6 DEF Typed, LastTurn
    <3>5. Typed'
        BY <2>1, <2>2, <2>3, <2>6, <3>1 DEF Typed
    <3>6. made = CallLines(response')
        BY <2>1 DEF made
    <3>7. Parsing'
        BY <2>1, <2>2, <2>6, <3>1, <3>3, <3>4, <3>6 DEF Parsing, Final
    <3> QED
        BY <3>5, <3>7
  <2> QED
      BY <1>5, <2>4, <2>5, <2>6 DEF Parse
<1>6. CASE Validate
  <2>1. /\ pc = "call" /\ calls # <<>>
        /\ response' = response /\ turn' = turn /\ cut' = cut
      BY <1>6 DEF Validate
  <2>2. turn < MaxLoops /\ Noted(results, calls, CallLines(response))
      BY <2>1 DEF Parsing
  <2>3. ASSUME NEW outcome \in Outcomes, Note(outcome), UNCHANGED approved
        PROVE  Typed' /\ Parsing'
    <3>1. Len(CallLines(response)) \in Nat
        BY ResponsesAreLines, LenProperties DEF Typed
    <3>2. /\ calls' \in Seq(CallLine) /\ results' \in Seq(Notes)
          /\ Noted(results', calls', CallLines(response))
        BY <2>1, <2>2, <2>3, <3>1, NoteStep
    <3>3. pc' = "call"
        BY <2>3 DEF Note
    <3> QED
        BY <2>1, <2>2, <2>3, <3>2, <3>3 DEF Typed, Parsing
  <2>4. CASE approved' = <<turn, Len(calls)>> /\ pc' = "invoke" /\ UNCHANGED <<calls, results>>
    <3>1. Len(calls) \in Nat
        BY LenProperties DEF Typed
    <3> QED
        BY <2>1, <2>2, <2>4, <3>1 DEF Typed, Parsing
  <2> QED
      BY <1>6, <2>3, <2>4 DEF Validate, Outcomes
<1>7. CASE NeedsNoValidation
    BY <1>7 DEF NeedsNoValidation, history, Typed, Parsing, Final
<1>8. CASE Invoke
  <2>1. /\ pc = "invoke" /\ calls # <<>>
        /\ response' = response /\ turn' = turn /\ cut' = cut /\ approved' = approved
      BY <1>8 DEF Invoke, Parsing, history
  <2>2. turn < MaxLoops /\ Noted(results, calls, CallLines(response))
      BY <2>1 DEF Parsing
  <2>3. PICK outcome \in Outcomes : Note(outcome)
      BY <1>8 DEF Invoke, Outcomes
  <2>4. Len(CallLines(response)) \in Nat
      BY ResponsesAreLines, LenProperties DEF Typed
  <2>5. /\ calls' \in Seq(CallLine) /\ results' \in Seq(Notes)
        /\ Noted(results', calls', CallLines(response))
      BY <2>1, <2>2, <2>3, <2>4, NoteStep
  <2>6. pc' = "call"
      BY <2>3 DEF Note
  <2> QED
      BY <2>1, <2>2, <2>5, <2>6 DEF Typed, Parsing
<1>9. CASE Regenerate
  <2>1. turn < MaxLoops /\ turn' = turn + 1
      BY <1>9 DEF Regenerate, Parsing
  <2> QED
      BY <1>9, <2>1, FurtherAssumption DEF Regenerate, history, Typed, Parsing, Final
<1>10. CASE RegenerateFails
    BY <1>10 DEF RegenerateFails, history, Typed, Parsing, Final
<1>11. CASE DeliverToolResult
    BY <1>11 DEF DeliverToolResult, Deliver, history, Typed, Parsing, Final
<1>12. CASE DeliverFinal
    BY <1>12 DEF DeliverFinal, Deliver, history, Typed, Parsing, Final
<1>13. CASE Listen
    BY <1>13 DEF Listen, history, Typed, Parsing, Final
<1>14. CASE Ended
    BY <1>14 DEF Ended, vars, history, Typed, Parsing, Final
<1>15. CASE UNCHANGED vars
    BY <1>15 DEF vars, history, Typed, Parsing, Final
<1>16. CASE InvokePanics
    BY <1>16 DEF InvokePanics, history, Typed, Parsing, Final
<1>17. CASE DeliverRefusal
    BY <1>17 DEF DeliverRefusal, Deliver, history, Typed, Parsing, Final
<1> QED
    BY <1>1, <1>2, <1>3, <1>4, <1>5, <1>6, <1>7, <1>8,
       <1>9, <1>10, <1>11, <1>12, <1>13, <1>14, <1>15, <1>16, <1>17
    DEF Next

\* Wherever the prompt is, it is there as it should be with its response.
LEMMA ParsingInvariant == Spec => [](Typed /\ Parsing)
<1>1. Init => Typed /\ Parsing
  <2> SUFFICES ASSUME Init PROVE Typed /\ Parsing
      OBVIOUS
  <2>1. <<>> \in Seq(CallLine) /\ <<>> \in Seq(Notes)
      BY EmptySeq
  <2>2. 0 \in 0 .. MaxLoops
      BY MaxLoopsAssumption
  <2>3. Typed
      BY <2>1, <2>2 DEF Init, Typed
  <2>4. Parsing
      BY DEF Init, Parsing
  <2> QED
      BY <2>3, <2>4
<1> QED
    BY <1>1, ParsingStep, PTL DEF Spec

\* The state keeps its types, whatever the model answers and the tools do.
THEOREM TypeCorrect == Spec => []TypeOK
<1>1. Typed /\ Sending => TypeOK
  <2> SUFFICES ASSUME Typed, Sending PROVE TypeOK
      OBVIOUS
  <2>1. \A line \in ToSet(calls) : IsCall(line)
      BY ElementOfSeq, LenProperties DEF Typed, ToSet, CallLine
  <2>2. \A r \in ToSet(results) : r.outcome \in Outcomes
    <3>1. \A r \in ToSet(results) : r \in Notes
        BY ElementOfSeq, LenProperties DEF Typed, ToSet
    <3> QED
        BY <3>1 DEF Notes
  <2>3. ToSet(delivered) \subseteq {"guardrail", "error", "tool_result", "text"}
      BY ElementOfSeq, LenProperties DEF Sending, Kinds, ToSet
  <2> QED
      BY <2>1, <2>2, <2>3 DEF Typed, TypeOK
<1> QED
    BY <1>1, SendingInvariant, ParsingInvariant, PTL

\* When the model is asked again it has been told of all calls of its response,
\* each once and in order.
THEOREM ModelIsToldOfEveryCall == Spec => []EveryCallIsReported
<1>1. Typed /\ Parsing => EveryCallIsReported
  <2> SUFFICES ASSUME Typed, Parsing, pc = "call", calls = <<>>
               PROVE  LET made == CallLines(response)
                      IN  [i \in DOMAIN results |-> results[i].tool]
                              = [i \in DOMAIN made |-> Tool(made[i])]
      BY DEF EveryCallIsReported
  <2> DEFINE made == CallLines(response)
  <2>1. made \in Seq(CallLine) /\ results \in Seq(Notes) /\ Noted(results, calls, made)
      BY ResponsesAreLines DEF Typed, Parsing
  <2> HIDE DEF made
  <2>2. DOMAIN made = 1 .. Len(made) /\ DOMAIN results = 1 .. Len(results)
      BY <2>1, LenProperties
  <2>3. Len(results) = Len(made)
      BY <2>1, LenProperties DEF Noted
  <2>4. \A i \in 1 .. Len(made) : results[i].tool = Tool(made[i])
      BY <2>1, <2>3 DEF Noted
  <2> QED
      BY <2>2, <2>3, <2>4 DEF made
<1> QED
    BY <1>1, ParsingInvariant, PTL

\* A call reaches the client as text only after the last turn, or when the model
\* could not be asked again.
THEOREM CallsAreKeptFromTheClient == Spec => []CallsAreNotAnswers
<1>1. Parsing => CallsAreNotAnswers
    BY DEF Parsing, Final, CallsAreNotAnswers
<1> QED
    BY <1>1, ParsingInvariant, PTL

\* Proper calls are read as they were meant, in every response.
THEOREM ProperCallsAreRead == Spec => []CallsAreReadAsWritten
<1>1. CallsAreReadAsWritten
    BY CallsAssumption, ProperCallIsReadAsMeant DEF CallsAreReadAsWritten
<1> QED
    BY <1>1, PTL

\* What makes the parser take the daemon down is a fenced line that is no proper call:
\* of whatever length a proper call is, and whatever lines are around it, it gets as far
\* as Invoke.
THEOREM ParserSurvivesProperCalls == Spec => []CrashNeedsBrokenFence
<1>1. Parsing => CrashNeedsBrokenFence
  <2> SUFFICES ASSUME Parsing, pc = "crashed"
               PROVE  \E i \in DOMAIN response :
                          IsFenced(response[i]) /\ \A call \in Calls : response[i] # Written(call)
      BY DEF CrashNeedsBrokenFence
  <2>1. PICK i \in DOMAIN response : Panics(response[i])
      BY DEF Parsing
  <2>2. IsFenced(response[i])
      BY <2>1 DEF Panics
  <2>3. \A call \in Calls : response[i] # Written(call)
      BY <2>1, CallsAssumption, ProperCallIsReadAsMeant
  <2> QED
      BY <2>2, <2>3
<1> QED
    BY <1>1, ParsingInvariant, PTL

-----------------------------------------------------------------------------
(* A bound on the steps                                                    *)

\* One call fewer, at the place of the calls.
LEMMA NoteIsNearer ==
    ASSUME Typed, Sending, Typed', Sending', calls # <<>>, NEW outcome, Note(outcome),
           turn' = turn, pc \in {"call", "invoke"}
    PROVE  Nearer
<1>1. PICK n \in Nat : Len(calls) = n /\ n # 0
    BY LenProperties, EmptySeq DEF Typed
<1>2. Len(calls') = n - 1 /\ pc' = "call"
    BY <1>1, HeadTailProperties DEF Typed, Note
<1>3. Steps' = 2 * (n - 1) + 1
    BY <1>2 DEF Steps
<1>4. Steps \in {2 * n, 2 * n + 1}
    BY <1>1 DEF Steps
<1>5. Steps' \in 0 .. Steps - 1
    BY <1>1, <1>3, <1>4
<1> QED
    BY <1>2, <1>5 DEF Nearer, Place

\* Every step takes the prompt nearer to its end.
LEMMA NearerStep ==
    ASSUME Typed, Parsing, Sending, Typed', Sending', [Next]_vars
    PROVE  [Nearer]_vars
<1> USE DEF Nearer, Place
<1>1. CASE GuardrailStops
    BY <1>1 DEF GuardrailStops
<1>2. CASE GuardrailPasses
    BY <1>2 DEF GuardrailPasses
<1>3. CASE Answer
    BY <1>3 DEF Answer
<1>4. CASE AnswerFails
    BY <1>4 DEF AnswerFails
<1>5. CASE Parse
  <2>1. pc = "parse" /\ pc' \in {"deliver", "crashed", "call"} /\ turn' = turn
      BY <1>5 DEF Parse
  <2> QED
      BY <2>1
<1>6. CASE Validate
  <2>1. pc = "call" /\ calls # <<>> /\ turn' = turn
      BY <1>6 DEF Validate
  <2>2. CASE \E outcome \in {"unchecked", "denied"} : Note(outcome)
      BY <2>1, <2>2, NoteIsNearer
  <2>3. CASE pc' = "invoke" /\ UNCHANGED <<calls, results>>
    <3>1. PICK n \in Nat : Len(calls) = n
        BY LenProperties DEF Typed
    <3>2. Steps = 2 * n + 1 /\ Steps' = 2 * n
        BY <2>1, <2>3, <3>1 DEF Steps
    <3>3. Steps' \in 0 .. Steps - 1
        BY <3>1, <3>2
    <3> QED
        BY <2>1, <2>3, <3>3
  <2> QED
      BY <1>6, <2>2, <2>3 DEF Validate
<1>7. CASE NeedsNoValidation
  <2>1. pc = "call" /\ pc' = "invoke" /\ turn' = turn /\ calls' = calls
      BY <1>7 DEF NeedsNoValidation
  <2>2. PICK n \in Nat : Len(calls) = n
      BY LenProperties DEF Typed
  <2>3. Steps = 2 * n + 1 /\ Steps' = 2 * n
      BY <2>1, <2>2 DEF Steps
  <2>4. Steps' \in 0 .. Steps - 1
      BY <2>2, <2>3
  <2> QED
      BY <2>1, <2>4
<1>8. CASE Invoke
  <2>1. pc = "invoke" /\ calls # <<>> /\ turn' = turn
      BY <1>8 DEF Invoke, Parsing
  <2>2. PICK outcome : Note(outcome)
      BY <1>8 DEF Invoke
  <2> QED
      BY <2>1, <2>2, NoteIsNearer
<1>9. CASE Regenerate
  <2>1. turn' = turn + 1 /\ turn < MaxLoops /\ turn \in Nat /\ MaxLoops \in Nat
      BY <1>9, MaxLoopsAssumption DEF Regenerate, Parsing, Typed
  <2> QED
      BY <2>1
<1>10. CASE RegenerateFails
    BY <1>10 DEF RegenerateFails
<1>11. CASE DeliverToolResult
  <2>1. /\ pc = "deliver" /\ pc' = "deliver" /\ turn' = turn /\ toolResults' = toolResults
        /\ delivered' = Append(delivered, "tool_result")
      BY <1>11 DEF DeliverToolResult, Deliver
  <2>2. Len(delivered') = Len(delivered) + 1
      BY <2>1, AppendProperties DEF Sending, Kinds
  <2>3. PICK S : toolResults \in Seq(S)
      BY DEF Sending
  <2>4. PICK r \in Nat, d \in Nat : Len(toolResults) = r /\ Len(delivered) = d
      BY <2>3, LenProperties DEF Sending
  <2>5. Steps = r - d /\ Steps' = r - (d + 1) /\ d < r
      BY <1>11, <2>1, <2>2, <2>4 DEF Steps, Sent, DeliverToolResult
  <2>6. Steps' \in 0 .. Steps - 1
      BY <2>4, <2>5
  <2> QED
      BY <2>1, <2>6
<1>12. CASE DeliverFinal
    BY <1>12 DEF DeliverFinal
<1>13. CASE Listen
    BY <1>13 DEF Listen
<1>14. CASE Ended
    BY <1>14 DEF Ended
<1>15. CASE UNCHANGED vars
    BY <1>15
<1>16. CASE InvokePanics
    BY <1>16 DEF InvokePanics
<1>17. CASE DeliverRefusal
    BY <1>17 DEF DeliverRefusal
<1> QED
    BY <1>1, <1>2, <1>3, <1>4, <1>5, <1>6, <1>7, <1>8,
       <1>9, <1>10, <1>11, <1>12, <1>13, <1>14, <1>15, <1>16, <1>17
    DEF Next

\* However many turns and calls there are, the prompt runs out of steps: turns, places
\* and steps left are natural numbers, and each step makes the first that changes smaller.
THEOREM StepsRunOut == Spec => EveryStepIsNearer
<1>1. Typed /\ Parsing /\ Sending /\ Typed' /\ Sending' /\ [Next]_vars => [Nearer]_vars
    BY NearerStep
<1> QED
    BY <1>1, ParsingInvariant, SendingInvariant, PTL DEF Spec, EveryStepIsNearer

-----------------------------------------------------------------------------
(* The promise                                                             *)

\* The last approval was of an earlier turn, or of a call before the n last ones.
Spent(n) ==
    \/ approved = <<>>
    \/ approved[1] < turn
    \/ approved[1] = turn /\ n < approved[2]

\* An approval counts for the call it was given for and no other.
Permitting ==
    /\ pc \in {"validate", "generate"} => turn = 0
    /\ pc \in {"validate", "generate", "parse"} => approved = <<>> \/ approved[1] < turn
    /\ pc = "call" => Spent(Len(calls))
    /\ pc = "invoke" => IF IsToolValidated(Tool(Head(calls)))
                        THEN approved = <<turn, Len(calls)>>
                        ELSE Spent(Len(calls))

\* Dealing with a call leaves the last approval behind.
LEMMA NoteSpends ==
    ASSUME Typed, Typed', calls # <<>>, NEW outcome, Note(outcome), turn' = turn,
           Spent(Len(calls)) \/ approved = <<turn, Len(calls)>>, approved' = approved
    PROVE  Spent(Len(calls))'
<1>1. PICK n \in Nat : Len(calls) = n /\ n # 0
    BY LenProperties, EmptySeq DEF Typed
<1>2. Len(calls') = n - 1
    BY <1>1, HeadTailProperties DEF Typed, Note
<1>3. approved # <<>> => approved \in (0 .. MaxLoops) \X Nat
    BY DEF Typed
<1>4. approved # <<>> => approved[1] \in Nat /\ approved[2] \in Nat
    BY <1>3, MaxLoopsAssumption
<1> QED
    BY <1>1, <1>2, <1>4 DEF Spent

\* Every step keeps approvals to the call they were given for.
LEMMA PermittingStep ==
    ASSUME Typed, Parsing, Permitting, Typed', [Next]_vars
    PROVE  Permitting'
<1> USE DEF Permitting, Spent
<1>1. CASE GuardrailStops
    BY <1>1 DEF GuardrailStops
<1>2. CASE GuardrailPasses
    BY <1>2 DEF GuardrailPasses, history
<1>3. CASE Answer
    BY <1>3 DEF Answer, history
<1>4. CASE AnswerFails
    BY <1>4 DEF AnswerFails
<1>5. CASE Parse
  <2>1. pc = "parse" /\ pc' \in {"deliver", "crashed", "call"} /\ UNCHANGED <<turn, approved>>
      BY <1>5 DEF Parse, history
  <2> QED
      BY <2>1
<1>6. CASE Validate
  <2>1. pc = "call" /\ calls # <<>> /\ turn' = turn /\ IsToolValidated(Tool(Head(calls)))
      BY <1>6 DEF Validate
  <2>2. CASE (\E outcome \in {"unchecked", "denied"} : Note(outcome)) /\ UNCHANGED approved
    <3>1. pc' = "call"
        BY <2>2 DEF Note
    <3>2. Spent(Len(calls))'
      <4> HIDE DEF Spent
      <4> QED
          BY <2>1, <2>2, NoteSpends
    <3> QED
        BY <3>1, <3>2
  <2>3. CASE approved' = <<turn, Len(calls)>> /\ pc' = "invoke" /\ UNCHANGED <<calls, results>>
      BY <2>1, <2>3
  <2> QED
      BY <1>6, <2>2, <2>3 DEF Validate
<1>7. CASE NeedsNoValidation
    BY <1>7 DEF NeedsNoValidation, history
<1>8. CASE Invoke
  <2>1. pc = "invoke" /\ calls # <<>> /\ turn' = turn /\ approved' = approved
      BY <1>8 DEF Invoke, Parsing, history
  <2>2. PICK outcome : Note(outcome)
      BY <1>8 DEF Invoke
  <2>3. Spent(Len(calls)) \/ approved = <<turn, Len(calls)>>
      BY <2>1
  <2>4. Spent(Len(calls))'
    <3> HIDE DEF Spent
    <3> QED
        BY <2>1, <2>2, <2>3, NoteSpends
  <2>5. pc' = "call"
      BY <2>2 DEF Note
  <2> QED
      BY <2>4, <2>5
<1>9. CASE Regenerate
  <2>1. /\ pc = "call" /\ pc' = "parse" /\ turn' = turn + 1 /\ approved' = approved
        /\ turn \in Nat
      BY <1>9, MaxLoopsAssumption DEF Regenerate, history, Typed
  <2>2. approved # <<>> => approved[1] \in Nat
    <3>1. approved # <<>> => approved \in (0 .. MaxLoops) \X Nat
        BY DEF Typed
    <3> QED
        BY <3>1, MaxLoopsAssumption
  <2> QED
      BY <2>1, <2>2
<1>10. CASE RegenerateFails
    BY <1>10 DEF RegenerateFails
<1>11. CASE DeliverToolResult
    BY <1>11 DEF DeliverToolResult
<1>12. CASE DeliverFinal
    BY <1>12 DEF DeliverFinal
<1>13. CASE Listen
    BY <1>13 DEF Listen
<1>14. CASE Ended
    BY <1>14 DEF Ended, vars, history
<1>15. CASE UNCHANGED vars
    BY <1>15 DEF vars, history
<1>16. CASE InvokePanics
    BY <1>16 DEF InvokePanics
<1>17. CASE DeliverRefusal
    BY <1>17 DEF DeliverRefusal
<1> QED
    BY <1>1, <1>2, <1>3, <1>4, <1>5, <1>6, <1>7, <1>8,
       <1>9, <1>10, <1>11, <1>12, <1>13, <1>14, <1>15, <1>16, <1>17
    DEF Next

\* An approval is for one call, always.
LEMMA PermittingInvariant == Spec => []Permitting
<1>1. Init => Permitting
    BY DEF Init, Permitting
<1>2. Typed /\ Parsing /\ Permitting /\ Typed' /\ [Next]_vars => Permitting'
    BY PermittingStep
<1> QED
    BY <1>1, <1>2, ParsingInvariant, PTL DEF Spec

\* The tools that are validated are the package tools.
LEMMA ValidatedArePackageTools ==
    ASSUME NEW tool \in Seq(Token)
    PROVE  IsToolValidated(tool) <=> tool \in PackageTools
<1>1. tool \in PackageTools => IsToolValidated(tool)
    BY PrefixIsValidated DEF PackageTools
<1>2. ASSUME IsToolValidated(tool) PROVE tool \in PackageTools
  <2>1. tool # <<>> /\ tool[1] = "cognitiveos.package"
      BY <1>2, HeadTailProperties DEF IsToolValidated
  <2>2. Len(tool) \in Nat /\ Len(tool) # 0
      BY <2>1, LenProperties, EmptySeq
  <2>3. IsPrefix(<<"cognitiveos.package">>, tool)
      BY <2>1, <2>2 DEF IsPrefix
  <2> QED
      BY <2>3 DEF PackageTools
<1> QED
    BY <1>1, <1>2

\* What was told says whether the model has answered.
LEMMA ToldIsClear ==
    ASSUME Sending
    PROVE  /\ pc \in {"validate", "deny", "generate", "fail"} => NotAnswered
           /\ pc \in {"parse", "call", "invoke", "deliver"} => ~NotAnswered
<1>1. pc \in {"parse", "call", "invoke"} => delivered = <<>>
    BY DEF Sending
<1>2. ASSUME pc = "deliver" PROVE delivered # <<"guardrail">> /\ delivered # <<"error">>
  <2>1. Len(delivered) = 1 => delivered[1] = "tool_result"
      BY <1>2 DEF Sending
  <2> QED
      BY <2>1
<1> QED
    BY <1>1, <1>2 DEF NotAnswered

\* Every step is one of the promise, or one nobody sees.
LEMMA StepKeepsPromise ==
    ASSUME Typed, Parsing, Sending, Permitting, Sending', Permitting', [Next]_vars
    PROVE  [Promise!Next]_Promise!vars
<1> USE DEF Phase, Running, Permit
<1>1. CASE GuardrailStops
    BY <1>1 DEF GuardrailStops, Promise!vars, Answers, NotAnswered
<1>2. CASE GuardrailPasses
    BY <1>2 DEF GuardrailPasses, Promise!vars, Answers, NotAnswered
<1>3. CASE Answer
  <2>1. Answers = 0 /\ Answers' = 1
      BY <1>3, ToldIsClear DEF Answer, Answers, NotAnswered, Sending, Permitting
  <2>2. Promise!Answered
      BY <1>3, <2>1, MaxLoopsAssumption DEF Answer, Promise!Answered
  <2> QED
      BY <2>2 DEF Promise!Next
<1>4. CASE AnswerFails
    BY <1>4 DEF AnswerFails, Promise!vars, Answers, NotAnswered
<1>5. CASE Parse
  <2>1. /\ pc = "parse" /\ pc' \in {"deliver", "crashed", "call"}
        /\ UNCHANGED <<turn, approved, delivered, toolResults>>
      BY <1>5 DEF Parse, history
  <2>2. Answers' = Answers
      BY <2>1, ToldIsClear DEF Answers, NotAnswered
  <2>3. CASE pc' = "call"
      BY <2>1, <2>2, <2>3 DEF Promise!vars
  <2>4. CASE pc' \in {"deliver", "crashed"}
    <3>1. Promise!Settled
        BY <2>1, <2>2, <2>4 DEF Promise!Settled
    <3> QED
        BY <3>1 DEF Promise!Next
  <2> QED
      BY <2>1, <2>3, <2>4
<1>6. CASE Validate
  <2>1. /\ pc = "call" /\ calls # <<>> /\ IsToolValidated(Tool(Head(calls)))
        /\ UNCHANGED <<turn, delivered, toolResults>>
      BY <1>6 DEF Validate
  <2>2. CASE \E outcome \in {"unchecked", "denied"} : Note(outcome)
    <3>1. pc' = "call"
        BY <2>2 DEF Note
    <3>2. Answers' = Answers
        BY <2>1, <3>1, ToldIsClear DEF Answers, NotAnswered
    <3> QED
        BY <2>1, <3>1, <3>2 DEF Promise!vars
  <2>3. CASE approved' = <<turn, Len(calls)>> /\ pc' = "invoke" /\ UNCHANGED <<calls, results>>
    <3>1. Tool(Head(calls)) \in PackageTools
      <4>1. Head(calls) \in CallLine
          BY <2>1, HeadTailProperties DEF Typed
      <4> QED
          BY <2>1, <4>1, ToolIsText, ValidatedArePackageTools
    <3>2. Answers' = Answers
        BY <2>1, <2>3, ToldIsClear DEF Answers, NotAnswered
    <3>3. Promise!RunBegins
        BY <2>1, <2>3, <3>1, <3>2 DEF Promise!RunBegins
    <3> QED
        BY <3>3 DEF Promise!Next
  <2> QED
      BY <1>6, <2>2, <2>3 DEF Validate
<1>7. CASE NeedsNoValidation
  <2>1. /\ pc = "call" /\ pc' = "invoke" /\ calls # <<>> /\ ~IsToolValidated(Tool(Head(calls)))
        /\ UNCHANGED <<turn, calls, delivered, toolResults, approved>>
      BY <1>7 DEF NeedsNoValidation, history
  <2>2. Tool(Head(calls)) \notin PackageTools
    <3>1. Head(calls) \in CallLine
        BY <2>1, HeadTailProperties DEF Typed
    <3> QED
        BY <2>1, <3>1, ToolIsText, ValidatedArePackageTools
  <2>3. approved # <<turn, Len(calls)>>
    <3>1. PICK t \in Nat : turn = t
        BY MaxLoopsAssumption DEF Typed
    <3>2. PICK n \in Nat : Len(calls) = n
        BY LenProperties DEF Typed
    <3>3. approved = <<>> \/ approved[1] < t \/ n < approved[2]
        BY <2>1, <3>1, <3>2 DEF Permitting, Spent
    <3>4. <<t, n>> # <<>> /\ <<t, n>>[1] = t /\ <<t, n>>[2] = n /\ ~(t < t) /\ ~(n < n)
        OBVIOUS
    <3>5. approved # <<t, n>>
        BY <3>3, <3>4
    <3> QED
        BY <3>1, <3>2, <3>5
  <2>4. Answers' = Answers
      BY <2>1, ToldIsClear DEF Answers, NotAnswered
  <2>5. Promise!RunBegins
      BY <2>1, <2>2, <2>3, <2>4 DEF Promise!RunBegins
  <2> QED
      BY <2>5 DEF Promise!Next
<1>8. CASE Invoke
  <2>1. pc = "invoke" /\ UNCHANGED <<turn, delivered>>
      BY <1>8 DEF Invoke
  <2>2. pc' = "call" /\ toolResults' \in {toolResults, Append(toolResults, Tool(Head(calls)))}
      BY <1>8 DEF Invoke, Note
  <2>3. Answers' = Answers
      BY <2>1, <2>2, ToldIsClear DEF Answers, NotAnswered
  <2>4. Promise!RunEnds
      BY <2>1, <2>2, <2>3 DEF Promise!RunEnds
  <2> QED
      BY <2>4 DEF Promise!Next
<1>9. CASE Regenerate
  <2>1. /\ pc = "call" /\ pc' = "parse" /\ turn' = turn + 1 /\ turn < MaxLoops
        /\ UNCHANGED <<delivered, toolResults>>
      BY <1>9 DEF Regenerate, Parsing
  <2>2. Answers = turn + 1 /\ Answers' = turn + 2 /\ turn \in Nat
      BY <2>1, ToldIsClear, MaxLoopsAssumption DEF Answers, NotAnswered, Typed
  <2>3. Promise!Answered
      BY <2>1, <2>2, MaxLoopsAssumption DEF Promise!Answered
  <2> QED
      BY <2>3 DEF Promise!Next
<1>10. CASE RegenerateFails
  <2>1. Answers' = Answers
      BY <1>10, ToldIsClear DEF RegenerateFails, Answers, NotAnswered
  <2>2. Promise!Settled
      BY <1>10, <2>1 DEF RegenerateFails, Promise!Settled
  <2> QED
      BY <2>2 DEF Promise!Next
<1>11. CASE DeliverToolResult
  <2>1. /\ pc = "deliver" /\ UNCHANGED <<pc, turn, toolResults, calls, approved>>
        /\ delivered' = Append(delivered, "tool_result") /\ Len(delivered) < Len(toolResults)
      BY <1>11 DEF DeliverToolResult, Deliver, Sent, history
  <2>2. ~NotAnswered'
    <3>1. delivered' # <<"guardrail">> /\ delivered' # <<"error">>
      <4>1. Len(delivered') = 1 => delivered'[1] = "tool_result"
          BY <2>1 DEF Sending
      <4> QED
          BY <4>1
    <3> QED
        BY <2>1, <3>1 DEF NotAnswered
  <2>3. Answers' = Answers
      BY <2>1, <2>2, ToldIsClear DEF Answers
  <2>4. Promise!ToolTold
      BY <2>1, <2>3 DEF Promise!ToolTold
  <2> QED
      BY <2>4 DEF Promise!Next
<1>12. CASE DeliverFinal
  <2>1. /\ pc = "deliver" /\ pc' = "listen" /\ UNCHANGED <<turn, toolResults, calls, approved>>
        /\ delivered' = Append(delivered, "text") /\ Len(delivered) = Len(toolResults)
      BY <1>12 DEF DeliverFinal, Deliver, Sent, history
  <2>2. ~NotAnswered'
    <3>1. /\ Len(delivered') = Len(delivered) + 1
          /\ delivered'[Len(delivered) + 1] = "text"
        BY <2>1, AppendProperties DEF Sending, Kinds
    <3>2. delivered' # <<"guardrail">> /\ delivered' # <<"error">>
      <4>1. Len(delivered') = 1 => delivered'[1] = "text"
          BY <3>1
      <4> QED
          BY <4>1
    <3> QED
        BY <2>1, <3>2 DEF NotAnswered
  <2>3. Answers' = Answers
      BY <2>1, <2>2, ToldIsClear DEF Answers
  <2>4. Promise!AnswerTold
      BY <2>1, <2>3 DEF Promise!AnswerTold
  <2> QED
      BY <2>4 DEF Promise!Next
<1>13. CASE Listen
    BY <1>13 DEF Listen, Promise!vars, Answers, NotAnswered
<1>14. CASE Ended
    BY <1>14 DEF Ended, vars, history, Promise!vars, Answers, NotAnswered
<1>15. CASE UNCHANGED vars
    BY <1>15 DEF vars, history, Promise!vars, Answers, NotAnswered
<1>16. CASE InvokePanics
  <2>1. pc = "invoke" /\ pc' = "panicked" /\ UNCHANGED <<turn, delivered, toolResults>>
      BY <1>16 DEF InvokePanics
  <2>2. Answers' = Answers
      BY <2>1, ToldIsClear DEF Answers, NotAnswered
  <2>3. Promise!RunCrashes
      BY <2>1, <2>2 DEF Promise!RunCrashes
  <2> QED
      BY <2>3 DEF Promise!Next
<1>17. CASE DeliverRefusal
  <2>1. Promise!Refused
      BY <1>17 DEF DeliverRefusal, Deliver, Sending, Promise!Refused, Answers, NotAnswered
  <2> QED
      BY <2>1 DEF Promise!Next
<1> QED
    BY <1>1, <1>2, <1>3, <1>4, <1>5, <1>6, <1>7, <1>8,
       <1>9, <1>10, <1>11, <1>12, <1>13, <1>14, <1>15, <1>16, <1>17
    DEF Next

\* A prompt keeps its promise, whatever the model answers and the tools do: no run
\* without its permit, no more than MaxLoops + 1 answers, nothing after the client was told.
THEOREM PromptKeepsPromise == Spec => KeepsPromise
<1>1. Init => Promise!Init
    BY DEF Init, Promise!Init, Phase, Running, Permit, Answers, NotAnswered
<1>2. Typed /\ Parsing /\ Sending /\ Permitting /\ Sending' /\ Permitting' /\ [Next]_vars
          => [Promise!Next]_Promise!vars
    BY StepKeepsPromise
<1> QED
    BY <1>1, <1>2, ParsingInvariant, SendingInvariant, PermittingInvariant, PTL
    DEF Spec, KeepsPromise, Promise!Spec
=============================================================================
