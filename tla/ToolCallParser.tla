--------------------------- MODULE ToolCallParser ---------------------------
(***************************************************************************)
(* parseToolCalls (src/internal/daemon/handlers.go) on responses that are  *)
(* sequences of lines, lines that are sequences of tokens: the characters  *)
(* the parser looks for, and names, keys and values in between.  White     *)
(* space and the quotes it trims are left out.  A slice that is out of     *)
(* range is a panic.                                                       *)
(***************************************************************************)
EXTENDS SequencesExt

CONSTANT Token \* what a line consists of

Comma == ","

ASSUME SignsAssumption == {"@", "(", ")", Comma, "="} \subseteq Token

Fence == <<"@", "@">>

IsFenced(line) == IsPrefix(Fence, line) /\ IsSuffix(Fence, line)

Inner(line) == SubSeq(line, 3, Len(line) - 2)

\* strings.Index, counted from 1, and 0 if there is none.
Index(text, token) == SelectInSeq(text, LAMBDA t : t = token)

ParenIn(inner) == Index(inner, "(")

\* Mutant of Panics: one character more is skipped after the parenthesis.
PanicsOneOff(line) ==
    /\ IsFenced(line)
    /\ \/ Len(line) < 4
       \/ ParenIn(Inner(line)) # 0 /\ ParenIn(Inner(line)) + 1 >= Len(Inner(line))

\* line[2 : len-2] of "@@" and "@@@", inner[paren+1 : len-1] when it ends there.
Panics(line) ==
    /\ IsFenced(line)
    /\ \/ Len(line) < 4
       \/ Inner(line) # <<>> /\ ParenIn(Inner(line)) = Len(Inner(line))

IsCall(line) == IsFenced(line) /\ ParenIn(Inner(line)) # 0

\* What follows the parenthesis; the last character is taken for the closing one.
ArgsText(inner) == SubSeq(inner, ParenIn(inner) + 1, Len(inner) - 1)

\* strings.Split(text, ","): the places after which a piece begins, and a piece.
Commas(text) == {i \in 1 .. Len(text) : text[i] = Comma}

Piece(text, i) ==
    SubSeq(text, i + 1, Min({j \in Commas(text) \cup {Len(text) + 1} : j > i}) - 1)

Equals(piece) == Index(piece, "=")

\* Mutant of Key: cut one too far.
KeyAndEquals(piece) == SubSeq(piece, 1, Equals(piece))

Key(piece) == SubSeq(piece, 1, Equals(piece) - 1)
Value(piece) == SubSeq(piece, Equals(piece) + 1, Len(piece))

\* Pieces without "=" are skipped; of two with one key the later one counts.
Arguments(text) ==
    LET starts == {i \in {0} \cup Commas(text) : Equals(Piece(text, i)) # 0}
        Named(k) == {i \in starts : Key(Piece(text, i)) = k}
    IN  [k \in {Key(Piece(text, i)) : i \in starts} |-> Value(Piece(text, Max(Named(k))))]

Tool(line) == SubSeq(Inner(line), 1, ParenIn(Inner(line)) - 1)

ToolCall(line) == [tool |-> Tool(line), arguments |-> Arguments(ArgsText(Inner(line)))]

\* parseToolCalls, up to ToolCall of each line: the calls among the first lines.
CallsUpTo(response) ==
    LET read[n \in 0 .. Len(response)] ==
            IF n = 0 THEN <<>>
            ELSE IF IsCall(response[n]) THEN Append(read[n - 1], response[n])
            ELSE read[n - 1]
    IN  read

CallLines(response) == CallsUpTo(response)[Len(response)]

-----------------------------------------------------------------------------
(* The reference: a call as it is written, [tool, pairs], and what it means *)

\* Names without a parenthesis, keys without "=" and ",", values without ",".
IsProper(call) ==
    /\ call.tool \in Seq(Token \ {"("})
    /\ call.pairs \in Seq(Seq(Token \ {"=", Comma}) \X Seq(Token \ {Comma}))

Entry(pair) == pair[1] \o <<"=">> \o pair[2]

\* The first pairs, as they are written.
WrittenUpTo(pairs) ==
    LET text[n \in 0 .. Len(pairs)] ==
            IF n = 0 THEN <<>>
            ELSE IF n = 1 THEN Entry(pairs[n])
            ELSE text[n - 1] \o <<Comma>> \o Entry(pairs[n])
    IN  text

WrittenPairs(pairs) == WrittenUpTo(pairs)[Len(pairs)]

Line(tool, text) == Fence \o tool \o <<"(">> \o text \o <<")">> \o Fence

Written(call) == Line(call.tool, WrittenPairs(call.pairs))

Meant(call) ==
    LET last(k) == Max({i \in DOMAIN call.pairs : call.pairs[i][1] = k})
    IN  [tool |-> call.tool,
         arguments |-> [k \in {p[1] : p \in ToSet(call.pairs)} |-> call.pairs[last(k)][2]]]
=============================================================================
