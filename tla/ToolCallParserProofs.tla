------------------------ MODULE ToolCallParserProofs ------------------------
(***************************************************************************)
(* Proofs about ToolCallParser, for responses and calls of any length.     *)
(* The library's induction theorems take an operator; here induction is    *)
(* over a set of numbers instead, from the well-foundedness of <.          *)
(***************************************************************************)
EXTENDS ToolCallParser, SequenceTheorems, WellFoundedInduction, TLAPS

-----------------------------------------------------------------------------
(* Induction, least numbers                                                *)

\* A set of natural numbers that is not empty has a least one.
LEMMA LeastNumber ==
    ASSUME NEW T \in SUBSET Nat, T # {}
    PROVE  \E x \in T : \A y \in T : x <= y
<1> DEFINE R == {p \in Nat \X Nat : p[1] < p[2]}
<1>1. OpToRel(<, Nat) = R
    BY DEF OpToRel
<1>2. IsWellFoundedOn(R, Nat)
  <2> HIDE DEF R
  <2> QED
      BY <1>1, NatLessThanWellFounded
<1>3. PICK x \in T : \A y \in T : <<y, x>> \notin R
  <2> HIDE DEF R
  <2> QED
      BY <1>2, WFMin
<1>4. ASSUME NEW y \in T PROVE x <= y
  <2>1. <<y, x>> \in Nat \X Nat /\ <<y, x>> \notin R
      BY <1>3
  <2> QED
      BY <2>1
<1> QED
    BY <1>4

\* Induction up to a bound.
LEMMA InductionUpTo ==
    ASSUME NEW N \in Nat, NEW T,
           0 \in T,
           \A n \in 0 .. N - 1 : n \in T => n + 1 \in T
    PROVE  \A n \in 0 .. N : n \in T
<1> DEFINE U == {n \in 0 .. N : n \notin T}
<1> SUFFICES U = {}
    OBVIOUS
<1>1. SUFFICES ASSUME U # {} PROVE FALSE
    OBVIOUS
<1>2. PICK x \in U : \A y \in U : x <= y
  <2>1. U \in SUBSET Nat
      OBVIOUS
  <2> HIDE DEF U
  <2> QED
      BY <1>1, <2>1, LeastNumber
<1>3. x # 0 /\ x \in 0 .. N
    BY <1>2
<1>4. x - 1 \in 0 .. N - 1 /\ x - 1 \notin U
    BY <1>2, <1>3
<1> QED
    BY <1>2, <1>3, <1>4

-----------------------------------------------------------------------------
(* The lines that are calls                                                *)

\* CallsUpTo is what its recursive definition says.
LEMMA CallsUpToDef ==
    ASSUME NEW response, Len(response) \in Nat
    PROVE  CallsUpTo(response) =
               [n \in 0 .. Len(response) |->
                   IF n = 0 THEN <<>>
                   ELSE IF IsCall(response[n])
                        THEN Append(CallsUpTo(response)[n - 1], response[n])
                   ELSE CallsUpTo(response)[n - 1]]
<1> DEFINE N == Len(response)
           Next(read, n) == IF n = 0 THEN <<>>
                            ELSE IF IsCall(response[n]) THEN Append(read[n - 1], response[n])
                            ELSE read[n - 1]
           Is(read, m) == read = [n \in 0 .. m |-> Next(read, n)]
           T == {m \in 0 .. N : \E read : Is(read, m)}
<1> HIDE DEF N
<1>1. 0 \in T
  <2> DEFINE read == [n \in 0 .. 0 |-> <<>>]
  <2>1. Is(read, 0)
      OBVIOUS
  <2>2. 0 \in 0 .. N
      BY DEF N
  <2> HIDE DEF Is
  <2> QED
      BY <2>1, <2>2
<1>2. ASSUME NEW m \in 0 .. N - 1, m \in T PROVE m + 1 \in T
  <2>1. PICK read : Is(read, m)
      BY <1>2
  <2>2. m \in Nat /\ m + 1 \in 0 .. N
      BY DEF N
  <2> DEFINE more == [n \in 0 .. m + 1 |-> IF n <= m THEN read[n] ELSE Next(read, n)]
  <2>3. ASSUME NEW n \in 0 .. m + 1 PROVE more[n] = Next(more, n)
    <3>1. n # 0 => more[n - 1] = read[n - 1]
        BY <2>2
    <3>2. CASE n <= m
      <4>1. n \in 0 .. m
          BY <2>2, <3>2
      <4>2. more[n] = read[n]
          BY <3>2
      <4>3. read[n] = Next(read, n)
        <5> HIDE DEF Next
        <5> QED
            BY <2>1, <4>1
      <4> QED
          BY <4>2, <4>3
    <3>3. CASE ~(n <= m)
        BY <3>3
    <3>4. more[n] = Next(read, n)
        BY <3>2, <3>3
    <3> HIDE DEF more
    <3> QED
        BY <3>1, <3>4
  <2>4. more = [n \in 0 .. m + 1 |-> more[n]]
      OBVIOUS
  <2>5. Is(more, m + 1)
    <3> HIDE DEF Next, more
    <3> QED
        BY <2>3, <2>4
  <2> HIDE DEF Is, more
  <2> QED
      BY <2>2, <2>5
<1>3. \A n \in 0 .. N : n \in T
  <2> HIDE DEF T
  <2>1. N \in Nat
      BY DEF N
  <2> QED
      BY <1>1, <1>2, <2>1, InductionUpTo
<1>4. \E read : Is(read, N)
  <2>1. N \in 0 .. N
      BY DEF N
  <2> HIDE DEF Is
  <2> QED
      BY <1>3, <2>1
<1> QED
    BY <1>4 DEF CallsUpTo, N

\* The calls of a response are lines of it that are calls, and there are none only
\* if no line is one.
LEMMA CallLinesAreTheCalls ==
    ASSUME NEW S, NEW response \in Seq(S)
    PROVE  /\ CallLines(response) \in Seq({line \in S : IsCall(line)})
           /\ CallLines(response) = <<>> => \A i \in DOMAIN response : ~IsCall(response[i])
<1> DEFINE Q == {line \in S : IsCall(line)}
           read == CallsUpTo(response)
           N == Len(response)
           T == {n \in 0 .. N : /\ read[n] \in Seq(Q)
                                /\ read[n] = <<>> => \A i \in 1 .. n : ~IsCall(response[i])}
<1>1. N \in Nat /\ DOMAIN response = 1 .. N /\ \A i \in 1 .. N : response[i] \in S
    BY LenProperties, ElementOfSeq
<1>2. \A n \in 0 .. N : read[n] = IF n = 0 THEN <<>>
                                  ELSE IF IsCall(response[n])
                                       THEN Append(read[n - 1], response[n])
                                  ELSE read[n - 1]
    BY <1>1, CallsUpToDef
<1> HIDE DEF read, N
<1>3. 0 \in T
  <2>1. read[0] = <<>> /\ 0 \in 0 .. N
      BY <1>1, <1>2
  <2>2. <<>> \in Seq(Q)
    <3> HIDE DEF Q
    <3> QED
        BY EmptySeq
  <2>3. \A i \in 1 .. 0 : ~IsCall(response[i])
      OBVIOUS
  <2> HIDE DEF Q
  <2> QED
      BY <2>1, <2>2, <2>3, Zenon
<1>4. ASSUME NEW n \in 0 .. N - 1, n \in T PROVE n + 1 \in T
  <2>1. read[n + 1] = IF IsCall(response[n + 1]) THEN Append(read[n], response[n + 1])
                      ELSE read[n]
      BY <1>1, <1>2
  <2>2. CASE IsCall(response[n + 1])
    <3>1. response[n + 1] \in Q
        BY <1>1, <2>2
    <3> HIDE DEF Q
    <3>2. read[n] \in Seq(Q) /\ n + 1 \in 0 .. N
        BY <1>1, <1>4
    <3>3. read[n + 1] \in Seq(Q) /\ read[n + 1] # <<>>
        BY <2>1, <2>2, <3>1, <3>2, AppendProperties
    <3> QED
        BY <3>2, <3>3
  <2>3. CASE ~IsCall(response[n + 1])
    <3> HIDE DEF Q
    <3> QED
        BY <1>1, <1>4, <2>1, <2>3
  <2> QED
      BY <2>2, <2>3
<1>5. \A n \in 0 .. N : n \in T
  <2> HIDE DEF T
  <2> QED
      BY <1>1, <1>3, <1>4, InductionUpTo
<1>6. N \in T
    BY <1>1, <1>5
<1> QED
    BY <1>1, <1>6 DEF CallLines, read, N

\* These are the calls among the first n lines of the response, at these places.
AreCallsOf(made, response, n, place) ==
    /\ place \in [1 .. Len(made) -> 1 .. n]
    /\ \A j \in 1 .. Len(made) : made[j] = response[place[j]]
    /\ \A j, k \in 1 .. Len(made) : j < k => place[j] < place[k]
    /\ \A i \in 1 .. n : IsCall(response[i]) <=> \E j \in 1 .. Len(made) : place[j] = i

\* One more line that is a call is one more call.
LEMMA OneMoreCall ==
    ASSUME NEW S, NEW made \in Seq(S), NEW line \in S, NEW response, NEW n \in Nat,
           response[n + 1] = line, IsCall(line),
           \E place : AreCallsOf(made, response, n, place)
    PROVE  \E place : AreCallsOf(Append(made, line), response, n + 1, place)
<1> DEFINE more == Append(made, line)
<1>1. PICK place : AreCallsOf(made, response, n, place)
    OBVIOUS
<1>2. PICK m \in Nat : Len(made) = m
    BY LenProperties
<1>3. /\ Len(more) = m + 1
      /\ \A j \in 1 .. m : more[j] = made[j]
      /\ more[m + 1] = line
    BY <1>2, AppendProperties
<1> HIDE DEF more
<1> DEFINE next == [j \in 1 .. m + 1 |-> IF j <= m THEN place[j] ELSE n + 1]
<1>4. /\ place \in [1 .. m -> 1 .. n]
      /\ \A j \in 1 .. m : made[j] = response[place[j]]
      /\ \A j, k \in 1 .. m : j < k => place[j] < place[k]
      /\ \A i \in 1 .. n : IsCall(response[i]) <=> \E j \in 1 .. m : place[j] = i
    BY <1>1, <1>2 DEF AreCallsOf
<1>5. next \in [1 .. m + 1 -> 1 .. n + 1]
    BY <1>4
<1>6. (\A j \in 1 .. m : next[j] = place[j] /\ next[j] \in 1 .. n) /\ next[m + 1] = n + 1
    BY <1>4
<1> HIDE DEF next
<1>7. \A j \in 1 .. m + 1 : more[j] = response[next[j]]
  <2> TAKE j \in 1 .. m + 1
  <2>1. CASE j <= m
    <3>1. j \in 1 .. m
        BY <2>1
    <3> QED
        BY <1>3, <1>4, <1>6, <3>1, Zenon
  <2>2. CASE j = m + 1
      BY <1>3, <1>6, <2>2
  <2> QED
      BY <2>1, <2>2
<1>8. \A j, k \in 1 .. m + 1 : j < k => next[j] < next[k]
  <2> SUFFICES ASSUME NEW j \in 1 .. m + 1, NEW k \in 1 .. m + 1, j < k
               PROVE  next[j] < next[k]
      OBVIOUS
  <2>1. j \in 1 .. m
      OBVIOUS
  <2>2. CASE k <= m
      BY <1>4, <1>6, <2>1, <2>2
  <2>3. CASE k = m + 1
      BY <1>6, <2>1, <2>3
  <2> QED
      BY <2>2, <2>3
<1>9. \A i \in 1 .. n + 1 : IsCall(response[i]) <=> \E j \in 1 .. m + 1 : next[j] = i
  <2> TAKE i \in 1 .. n + 1
  <2>1. CASE i <= n
    <3>1. (\E j \in 1 .. m + 1 : next[j] = i) <=> \E j \in 1 .. m : place[j] = i
      <4>1. i # n + 1
          BY <2>1
      <4>2. \A j \in 1 .. m + 1 : j \in 1 .. m \/ j = m + 1
          OBVIOUS
      <4>3. \A j \in 1 .. m : j \in 1 .. m + 1
          OBVIOUS
      <4> QED
          BY <1>6, <4>1, <4>2, <4>3
    <3> QED
        BY <1>4, <2>1, <3>1
  <2>2. CASE i = n + 1
    <3>1. m + 1 \in 1 .. m + 1
        OBVIOUS
    <3> QED
        BY <1>6, <2>2, <3>1
  <2> QED
      BY <2>1, <2>2
<1>10. AreCallsOf(more, response, n + 1, next)
    BY <1>3, <1>5, <1>7, <1>8, <1>9 DEF AreCallsOf
<1> QED
    BY <1>10 DEF more

\* The calls of a response are its lines that are calls, in their order: none is
\* left out, made twice or moved before another (parseToolCalls appends them).
THEOREM CallsAreReadInOrder ==
    ASSUME NEW S, NEW response \in Seq(S)
    PROVE  \E place : AreCallsOf(CallLines(response), response, Len(response), place)
<1> DEFINE read == CallsUpTo(response)
           N == Len(response)
           Is(n) == \E place : AreCallsOf(read[n], response, n, place)
           T == {n \in 0 .. N : read[n] \in Seq(S) /\ Is(n)}
<1>1. N \in Nat /\ \A i \in 1 .. N : response[i] \in S
    BY LenProperties, ElementOfSeq
<1>2. \A n \in 0 .. N : read[n] = IF n = 0 THEN <<>>
                                  ELSE IF IsCall(response[n])
                                       THEN Append(read[n - 1], response[n])
                                  ELSE read[n - 1]
    BY <1>1, CallsUpToDef
<1> HIDE DEF read, N
<1>3. 0 \in T
  <2>1. read[0] = <<>> /\ 0 \in 0 .. N
      BY <1>1, <1>2
  <2>2. read[0] \in Seq(S) /\ Len(read[0]) = 0
      BY <2>1, EmptySeq
  <2>3. AreCallsOf(read[0], response, 0, [j \in 1 .. 0 |-> 0])
      BY <2>2 DEF AreCallsOf
  <2>4. Is(0)
      BY <2>3
  <2> HIDE DEF Is
  <2> QED
      BY <2>1, <2>2, <2>4
<1>4. ASSUME NEW n \in 0 .. N - 1, n \in T PROVE n + 1 \in T
  <2>1. n \in Nat /\ n + 1 \in 1 .. N /\ n + 1 \in 0 .. N
      BY <1>1
  <2>2. read[n + 1] = IF IsCall(response[n + 1]) THEN Append(read[n], response[n + 1])
                      ELSE read[n]
      BY <1>2, <2>1
  <2>3. read[n] \in Seq(S) /\ Is(n) /\ response[n + 1] \in S
      BY <1>1, <1>4, <2>1
  <2>4. CASE IsCall(response[n + 1])
    <3>1. Is(n + 1)
        BY <2>1, <2>2, <2>3, <2>4, OneMoreCall
    <3> HIDE DEF Is
    <3>2. read[n + 1] \in Seq(S)
        BY <2>2, <2>3, <2>4, AppendProperties
    <3> QED
        BY <2>1, <3>1, <3>2
  <2>5. CASE ~IsCall(response[n + 1])
    <3>1. PICK place : AreCallsOf(read[n], response, n, place)
        BY <2>3
    <3>2. Len(read[n]) \in Nat
        BY <2>3, LenProperties
    <3>3. AreCallsOf(read[n], response, n + 1, place)
      <4>1. \A j \in 1 .. Len(read[n]) : place[j] \in 1 .. n /\ place[j] # n + 1
        <5>1. \A j \in 1 .. Len(read[n]) : place[j] \in 1 .. n
            BY <3>1 DEF AreCallsOf
        <5> QED
            BY <2>1, <5>1
      <4>2. \A i \in 1 .. n + 1 : i \in 1 .. n \/ i = n + 1
          BY <2>1
      <4>3. \A i \in 1 .. n + 1 :
                IsCall(response[i]) <=> \E j \in 1 .. Len(read[n]) : place[j] = i
          BY <2>5, <3>1, <4>1, <4>2 DEF AreCallsOf
      <4>4. place \in [1 .. Len(read[n]) -> 1 .. n + 1]
          BY <2>1, <3>1, <4>1 DEF AreCallsOf
      <4> QED
          BY <3>1, <4>3, <4>4 DEF AreCallsOf
    <3>4. Is(n + 1)
        BY <2>2, <2>5, <3>3
    <3> HIDE DEF Is
    <3> QED
        BY <2>1, <2>2, <2>3, <2>5, <3>4
  <2> QED
      BY <2>4, <2>5
<1>5. \A n \in 0 .. N : n \in T
  <2> HIDE DEF T
  <2> QED
      BY <1>1, <1>3, <1>4, InductionUpTo
<1>6. N \in T
    BY <1>1, <1>5
<1> QED
    BY <1>6 DEF CallLines, read, N

-----------------------------------------------------------------------------
(* The first of a token                                                    *)

\* Min is the least number of a set.
LEMMA MinIsLeast ==
    ASSUME NEW T \in SUBSET Nat, NEW x \in T, \A y \in T : x <= y
    PROVE  Min(T) = x
<1>1. Min(T) \in T /\ \A y \in T : Min(T) <= y
    BY DEF Min
<1>2. Min(T) <= x /\ x <= Min(T) /\ Min(T) \in Nat
    BY <1>1
<1> QED
    BY <1>2

\* Max is the greatest number of a set.
LEMMA MaxIsGreatest ==
    ASSUME NEW T \in SUBSET Nat, NEW x \in T, \A y \in T : y <= x
    PROVE  Max(T) = x
<1>1. Max(T) \in T /\ \A y \in T : Max(T) >= y
    BY DEF Max
<1>2. Max(T) <= x /\ x <= Max(T) /\ Max(T) \in Nat
    BY <1>1
<1> QED
    BY <1>2

\* A set of natural numbers up to a bound that is not empty has a greatest one.
LEMMA GreatestNumber ==
    ASSUME NEW N \in Nat, NEW T \in SUBSET (0 .. N), T # {}
    PROVE  \E x \in T : \A y \in T : y <= x
<1> DEFINE U == {n \in 0 .. N : N - n \in T}
<1>1. PICK x \in U : \A y \in U : x <= y
  <2>1. PICK t \in T : TRUE
      OBVIOUS
  <2>2. N - t \in U
      BY <2>1
  <2>3. U \in SUBSET Nat /\ U # {}
      BY <2>2
  <2> HIDE DEF U
  <2> QED
      BY <2>3, LeastNumber
<1>2. N - x \in T
    BY <1>1
<1>3. ASSUME NEW y \in T PROVE y <= N - x
  <2>1. N - y \in U
      OBVIOUS
  <2>2. x <= N - y /\ x \in Nat /\ y \in Nat
      BY <1>1, <2>1
  <2> QED
      BY <2>2
<1> QED
    BY <1>2, <1>3

\* Index is the first place of the token, ...
LEMMA IndexIsFirst ==
    ASSUME NEW text, Len(text) \in Nat, NEW token,
           NEW i \in 1 .. Len(text), text[i] = token,
           \A j \in 1 .. i - 1 : text[j] # token
    PROVE  Index(text, token) = i
<1> DEFINE I == {j \in 1 .. Len(text) : text[j] = token}
<1>1. I \in SUBSET Nat /\ i \in I /\ \A y \in I : i <= y
    OBVIOUS
<1>2. Index(text, token) = IF I # {} THEN Min(I) ELSE 0
    BY DEF Index, SelectInSeq
<1> HIDE DEF I
<1>3. Min(I) = i
    BY <1>1, MinIsLeast
<1> QED
    BY <1>1, <1>2, <1>3

\* ... or 0.
LEMMA IndexOfNone ==
    ASSUME NEW text, NEW token, \A j \in 1 .. Len(text) : text[j] # token
    PROVE  Index(text, token) = 0
BY DEF Index, SelectInSeq
-----------------------------------------------------------------------------
(* The line a proper call is written on                                    *)

\* A fence is two tokens.
LEMMA FenceIsTwo ==
    Fence \in Seq(Token) /\ Len(Fence) = 2 /\ \A i \in 1 .. 2 : Fence[i] = "@"
<1>1. "@" \in Token
    BY SignsAssumption
<1>2. \A c \in Token : <<c, c>> \in Seq(Token) /\ Len(<<c, c>>) = 2
    OBVIOUS
<1>3. Fence \in Seq(Token) /\ Len(Fence) = 2
    BY <1>1, <1>2 DEF Fence
<1> QED
    BY <1>3 DEF Fence

\* Where the tokens of two texts are when they are put together.
LEMMA Joined ==
    ASSUME NEW s \in Seq(Token), NEW t \in Seq(Token)
    PROVE  /\ s \o t \in Seq(Token)
           /\ Len(s \o t) = Len(s) + Len(t)
           /\ \A j \in 1 .. Len(s) + Len(t) :
                 (s \o t)[j] = IF j <= Len(s) THEN s[j] ELSE t[j - Len(s)]
BY ConcatProperties

\* The same, when one token is put behind a text.
LEMMA JoinedToken ==
    ASSUME NEW s \in Seq(Token), NEW c \in Token
    PROVE  /\ s \o <<c>> \in Seq(Token)
           /\ Len(s \o <<c>>) = Len(s) + 1
           /\ \A j \in 1 .. Len(s) + 1 : (s \o <<c>>)[j] = IF j <= Len(s) THEN s[j] ELSE c
<1>1. <<c>> \in Seq(Token) /\ Len(<<c>>) = 1 /\ <<c>>[1] = c
    OBVIOUS
<1> DEFINE t == <<c>>
<1> HIDE DEF t
<1>2. t \in Seq(Token) /\ Len(t) = 1 /\ t[1] = c
    BY <1>1 DEF t
<1>3. /\ s \o t \in Seq(Token)
      /\ Len(s \o t) = Len(s) + Len(t)
      /\ \A j \in 1 .. Len(s) + Len(t) :
            (s \o t)[j] = IF j <= Len(s) THEN s[j] ELSE t[j - Len(s)]
    BY <1>2, Joined
<1>4. Len(s) \in Nat /\ \A j \in 1 .. Len(s) + 1 : ~(j <= Len(s)) => j - Len(s) = 1
    BY LenProperties
<1> QED
    BY <1>2, <1>3, <1>4 DEF t

\* Where the tokens of a line are.
LEMMA LineIsPutTogether ==
    ASSUME NEW tool \in Seq(Token), NEW text \in Seq(Token),
           NEW a \in Nat, Len(tool) = a, NEW b \in Nat, Len(text) = b
    PROVE  /\ Line(tool, text) \in Seq(Token)
           /\ Len(Line(tool, text)) = a + b + 6
           /\ \A j \in 1 .. a + b + 6 :
                 Line(tool, text)[j] =
                     IF j <= 2 THEN "@"
                     ELSE IF j <= a + 2 THEN tool[j - 2]
                     ELSE IF j <= a + 3 THEN "("
                     ELSE IF j <= a + b + 3 THEN text[j - (a + 3)]
                     ELSE IF j <= a + b + 4 THEN ")"
                     ELSE "@"
<1> DEFINE f == Fence
           s1 == f \o tool
           s2 == s1 \o <<"(">>
           s3 == s2 \o text
           s4 == s3 \o <<")">>
           s5 == s4 \o f
<1>1. f \in Seq(Token) /\ Len(f) = 2 /\ \A i \in 1 .. 2 : f[i] = "@"
    BY FenceIsTwo
<1>2. "(" \in Token /\ ")" \in Token
    BY SignsAssumption
<1> HIDE DEF f
<1>3. /\ s1 \in Seq(Token) /\ Len(s1) = 2 + a
      /\ \A j \in 1 .. 2 + a : s1[j] = IF j <= 2 THEN f[j] ELSE tool[j - 2]
  <2>1. /\ s1 \in Seq(Token) /\ Len(s1) = Len(f) + Len(tool)
        /\ \A j \in 1 .. Len(f) + Len(tool) :
              s1[j] = IF j <= Len(f) THEN f[j] ELSE tool[j - Len(f)]
      BY <1>1, Joined
  <2> HIDE DEF s1
  <2> QED
      BY <1>1, <2>1
<1> HIDE DEF s1
<1>4. /\ s2 \in Seq(Token) /\ Len(s2) = 2 + a + 1
      /\ \A j \in 1 .. 2 + a + 1 : s2[j] = IF j <= 2 + a THEN s1[j] ELSE "("
  <2>1. /\ s2 \in Seq(Token) /\ Len(s2) = Len(s1) + 1
        /\ \A j \in 1 .. Len(s1) + 1 : s2[j] = IF j <= Len(s1) THEN s1[j] ELSE "("
      BY <1>2, <1>3, JoinedToken
  <2> HIDE DEF s2
  <2> QED
      BY <1>3, <2>1
<1> HIDE DEF s2
<1>5. /\ s3 \in Seq(Token) /\ Len(s3) = a + 3 + b
      /\ \A j \in 1 .. a + 3 + b : s3[j] = IF j <= a + 3 THEN s2[j] ELSE text[j - (a + 3)]
  <2>1. /\ s3 \in Seq(Token) /\ Len(s3) = Len(s2) + Len(text)
        /\ \A j \in 1 .. Len(s2) + Len(text) :
              s3[j] = IF j <= Len(s2) THEN s2[j] ELSE text[j - Len(s2)]
      BY <1>4, Joined
  <2>2. Len(s2) = a + 3
      BY <1>4
  <2> HIDE DEF s3
  <2> QED
      BY <2>1, <2>2
<1> HIDE DEF s3
<1>6. /\ s4 \in Seq(Token) /\ Len(s4) = a + 3 + b + 1
      /\ \A j \in 1 .. a + 3 + b + 1 : s4[j] = IF j <= a + 3 + b THEN s3[j] ELSE ")"
  <2>1. /\ s4 \in Seq(Token) /\ Len(s4) = Len(s3) + 1
        /\ \A j \in 1 .. Len(s3) + 1 : s4[j] = IF j <= Len(s3) THEN s3[j] ELSE ")"
      BY ZenonT(40), <1>2, <1>5, JoinedToken
  <2> HIDE DEF s4
  <2> QED
      BY <1>5, <2>1
<1> HIDE DEF s4
<1>7. /\ s5 \in Seq(Token) /\ Len(s5) = a + b + 4 + 2
      /\ \A j \in 1 .. a + b + 4 + 2 : s5[j] = IF j <= a + b + 4 THEN s4[j] ELSE f[j - (a + b + 4)]
  <2>1. /\ s5 \in Seq(Token) /\ Len(s5) = Len(s4) + Len(f)
        /\ \A j \in 1 .. Len(s4) + Len(f) :
              s5[j] = IF j <= Len(s4) THEN s4[j] ELSE f[j - Len(s4)]
      BY <1>1, <1>6, Joined
  <2>2. Len(s4) = a + b + 4
      BY <1>6
  <2> HIDE DEF s5
  <2> QED
      BY <1>1, <2>1, <2>2
<1> HIDE DEF s5
<1>8. ASSUME NEW j \in 1 .. a + b + 6
      PROVE  s5[j] = IF j <= 2 THEN "@"
                     ELSE IF j <= a + 2 THEN tool[j - 2]
                     ELSE IF j <= a + 3 THEN "("
                     ELSE IF j <= a + b + 3 THEN text[j - (a + 3)]
                     ELSE IF j <= a + b + 4 THEN ")"
                     ELSE "@"
  <2>1. CASE j <= a + 3
    <3>1. s5[j] = s4[j] /\ s4[j] = s3[j] /\ s3[j] = s2[j]
        BY <1>5, <1>6, <1>7, <2>1
    <3>2. s2[j] = IF j <= 2 + a THEN s1[j] ELSE "("
        BY <1>4, <2>1
    <3>3. j <= a + 2 => s1[j] = IF j <= 2 THEN f[j] ELSE tool[j - 2]
        BY <1>3
    <3> QED
        BY <1>1, <2>1, <3>1, <3>2, <3>3
  <2>2. CASE ~(j <= a + 3) /\ j <= a + b + 4
    <3>1. s5[j] = s4[j]
        BY <1>7, <2>2
    <3>2. s4[j] = IF j <= a + 3 + b THEN s3[j] ELSE ")"
        BY <1>6, <2>2
    <3>3. j <= a + 3 + b => s3[j] = text[j - (a + 3)]
        BY <1>5, <2>2
    <3> QED
        BY <2>2, <3>1, <3>2, <3>3
  <2>3. CASE ~(j <= a + b + 4)
    <3>1. s5[j] = f[j - (a + b + 4)] /\ j - (a + b + 4) \in 1 .. 2
        BY <1>7, <2>3
    <3> QED
        BY <1>1, <2>3, <3>1
  <2> QED
      BY <2>1, <2>2, <2>3
<1>9. Line(tool, text) = s5
    BY DEF Line, s5, s4, s3, s2, s1, f
<1> QED
    BY <1>7, <1>8, <1>9

\* A tool's name and its arguments are found again in the line.
LEMMA LineIsTakenApart ==
    ASSUME NEW tool \in Seq(Token), NEW text \in Seq(Token),
           \A i \in 1 .. Len(tool) : tool[i] # "("
    PROVE  /\ IsFenced(Line(tool, text))
           /\ Len(Line(tool, text)) = Len(tool) + Len(text) + 6
           /\ Len(Inner(Line(tool, text))) = Len(tool) + Len(text) + 2
           /\ ParenIn(Inner(Line(tool, text))) = Len(tool) + 1
           /\ Tool(Line(tool, text)) = tool
           /\ ArgsText(Inner(Line(tool, text))) = text
<1> DEFINE line == Line(tool, text)
           inner == Inner(line)
<1>1. PICK a \in Nat, b \in Nat : Len(tool) = a /\ Len(text) = b
    BY LenProperties
<1>2. /\ line \in Seq(Token)
      /\ Len(line) = a + b + 6
      /\ \A j \in 1 .. a + b + 6 :
            line[j] = IF j <= 2 THEN "@"
                      ELSE IF j <= a + 2 THEN tool[j - 2]
                      ELSE IF j <= a + 3 THEN "("
                      ELSE IF j <= a + b + 3 THEN text[j - (a + 3)]
                      ELSE IF j <= a + b + 4 THEN ")"
                      ELSE "@"
    BY <1>1, LineIsPutTogether
<1> HIDE DEF line
<1>3. IsFenced(line)
  <2>1. IsPrefix(Fence, line)
      BY <1>2, FenceIsTwo DEF IsPrefix
  <2>2. IsSuffix(Fence, line)
      BY <1>2, FenceIsTwo DEF IsSuffix, IsPrefix, Reverse
  <2> QED
      BY <2>1, <2>2 DEF IsFenced
<1>4. inner = SubSeq(line, 3, a + b + 4)
    BY <1>2 DEF Inner, inner
<1> HIDE DEF inner
<1>5. /\ Len(inner) = a + b + 2
      /\ inner \in Seq(Token)
      /\ \A i \in 1 .. a + b + 2 : inner[i] = line[i + 2]
    BY <1>2, <1>4, ElementOfSeq, SubSeqProperties
<1>6. \A i \in 1 .. a + b + 2 :
          inner[i] = IF i <= a THEN tool[i]
                     ELSE IF i <= a + 1 THEN "("
                     ELSE IF i <= a + b + 1 THEN text[i - (a + 1)]
                     ELSE ")"
  <2> SUFFICES ASSUME NEW i \in 1 .. a + b + 2
               PROVE  line[i + 2] = IF i <= a THEN tool[i]
                                    ELSE IF i <= a + 1 THEN "("
                                    ELSE IF i <= a + b + 1 THEN text[i - (a + 1)]
                                    ELSE ")"
      BY <1>5
  <2>1. i + 2 \in 1 .. a + b + 6 /\ i + 2 - 2 = i /\ i + 2 - (a + 3) = i - (a + 1)
      OBVIOUS
  <2> QED
      BY <1>2, <2>1
<1>7. ParenIn(inner) = a + 1
  <2>1. a + 1 \in 1 .. a + b + 2 /\ a + b + 2 \in Nat
      OBVIOUS
  <2>2. inner[a + 1] = "("
      BY <1>6, <2>1
  <2>3. \A j \in 1 .. a + 1 - 1 : inner[j] # "("
      BY <1>1, <1>6
  <2>4. a + 1 \in 1 .. Len(inner) /\ Len(inner) \in Nat
      BY <1>5, <2>1
  <2>5. Index(inner, "(") = a + 1
      BY <2>2, <2>3, <2>4, IndexIsFirst
  <2> QED
      BY <2>5 DEF ParenIn
<1>8. Tool(line) = tool
  <2>1. Tool(line) = SubSeq(inner, 1, a)
      BY <1>7 DEF Tool, inner
  <2>2. \A i \in 1 .. a : inner[i] = tool[i]
      BY <1>6
  <2> QED
      BY <1>1, <1>5, <2>1, <2>2, SubSeqProperties, SeqEqual
<1>9. ArgsText(inner) = text
  <2> DEFINE args == SubSeq(inner, a + 2, a + b + 1)
  <2>1. ArgsText(inner) = args
    <3>1. a + 1 + 1 = a + 2 /\ a + b + 2 - 1 = a + b + 1
        OBVIOUS
    <3> QED
        BY <1>5, <1>7, <3>1 DEF ArgsText
  <2>2. \A i \in a + 2 .. a + b + 1 : inner[i] \in Token /\ inner[i] = text[i - (a + 1)]
      BY <1>5, <1>6, ElementOfSeq
  <2>3. /\ args \in Seq(Token)
        /\ Len(args) = IF a + 2 <= a + b + 1 THEN a + b + 1 - (a + 2) + 1 ELSE 0
        /\ \A i \in 1 .. a + b + 1 - (a + 2) + 1 : args[i] = inner[a + 2 + i - 1]
      BY <2>2, SubSeqProperties
  <2> HIDE DEF args
  <2>4. Len(args) = b /\ \A i \in 1 .. b : args[i] = inner[a + 2 + i - 1]
      BY <2>3
  <2>5. ASSUME NEW i \in 1 .. b PROVE args[i] = text[i]
    <3>1. PICK k \in a + 2 .. a + b + 1 : k = a + 2 + i - 1 /\ k - (a + 1) = i
      <4> WITNESS a + 1 + i \in a + 2 .. a + b + 1
      <4> QED
          OBVIOUS
    <3>2. args[i] = inner[k] /\ inner[k] = text[k - (a + 1)]
        BY <2>2, <2>4, <3>1
    <3> QED
        BY <3>1, <3>2
  <2> QED
      BY <1>1, <2>1, <2>3, <2>4, <2>5, SeqEqual
<1> QED
    BY <1>1, <1>2, <1>3, <1>5, <1>7, <1>8, <1>9 DEF inner, line

-----------------------------------------------------------------------------
(* The pairs of a call                                                     *)

\* An entry behind a text and a comma.
LEMMA JoinedEntry ==
    ASSUME NEW s \in Seq(Token), NEW e \in Seq(Token)
    PROVE  /\ s \o <<Comma>> \o e \in Seq(Token)
           /\ Len(s \o <<Comma>> \o e) = Len(s) + 1 + Len(e)
           /\ \A j \in 1 .. Len(s) + 1 + Len(e) :
                 (s \o <<Comma>> \o e)[j] = IF j <= Len(s) THEN s[j]
                                           ELSE IF j <= Len(s) + 1 THEN Comma
                                           ELSE e[j - (Len(s) + 1)]
<1>0. PICK a \in Nat, b \in Nat : Len(s) = a /\ Len(e) = b
    BY LenProperties
<1> DEFINE c == s \o <<Comma>>
           v == c \o e
<1>1. /\ c \in Seq(Token) /\ Len(c) = a + 1
      /\ \A j \in 1 .. a + 1 : c[j] = IF j <= a THEN s[j] ELSE Comma
  <2>1. Comma \in Token
      BY SignsAssumption
  <2> QED
      BY <1>0, <2>1, JoinedToken
<1> HIDE DEF c
<1>2. /\ v \in Seq(Token) /\ Len(v) = a + 1 + b
      /\ \A j \in 1 .. a + 1 + b : v[j] = IF j <= a + 1 THEN c[j] ELSE e[j - (a + 1)]
  <2>1. /\ v \in Seq(Token) /\ Len(v) = Len(c) + Len(e)
        /\ \A j \in 1 .. Len(c) + Len(e) : v[j] = IF j <= Len(c) THEN c[j] ELSE e[j - Len(c)]
      BY <1>1, Joined
  <2> HIDE DEF v
  <2> QED
      BY <1>0, <1>1, <2>1
<1> HIDE DEF v
<1>3. s \o <<Comma>> \o e = v
    BY DEF c, v
<1>4. ASSUME NEW j \in 1 .. a + 1 + b
      PROVE  v[j] = IF j <= a THEN s[j] ELSE IF j <= a + 1 THEN Comma ELSE e[j - (a + 1)]
  <2>1. CASE j <= a + 1
      BY <1>1, <1>2, <2>1
  <2>2. CASE ~(j <= a + 1)
      BY <1>2, <2>2
  <2> QED
      BY <2>1, <2>2
<1> QED
    BY <1>0, <1>2, <1>3, <1>4

\* The place after which each entry begins when N of them are put together with
\* commas in between, and one place past the end.
StartOf(W, N) == [k \in 1 .. N + 1 |-> IF k = 1 THEN 0 ELSE Len(W[k - 1]) + 1]

\* W[n] is the first n entries put together with commas; no entry has one in it.
AreJoined(E, W, N) ==
    /\ \A k \in 1 .. N : E[k] \in Seq(Token)
    /\ \A k \in 1 .. N : \A j \in 1 .. Len(E[k]) : E[k][j] # Comma
    /\ W[1] = E[1]
    /\ \A n \in 1 .. N - 1 : W[n + 1] = W[n] \o <<Comma>> \o E[n + 1]

\* What is known of the first n entries.
Laid(E, W, start, n) ==
    /\ W[n] \in Seq(Token)
    /\ Len(W[n]) = start[n] + Len(E[n])
    /\ \A k \in 1 .. n : start[k] \in Nat /\ start[k] < start[n + 1]
    /\ \A j \in 1 .. Len(W[n]) : (W[n][j] = Comma) <=> (\E k \in 2 .. n : j = start[k])
    /\ \A k \in 1 .. n : start[k] + Len(E[k]) <= Len(W[n])
    /\ \A k \in 1 .. n : \A j \in 1 .. Len(E[k]) : W[n][start[k] + j] = E[k][j]

\* Entries without commas, put together with commas, are laid out one after another.
LEMMA EntriesAreLaid ==
    ASSUME NEW N \in Nat \ {0}, NEW E, NEW W, AreJoined(E, W, N)
    PROVE  \A n \in 1 .. N : Laid(E, W, StartOf(W, N), n)
<1> DEFINE start == StartOf(W, N)
           T == {m \in 0 .. N - 1 : Laid(E, W, start, m + 1)}
<1>1. start[1] = 0 /\ \A n \in 1 .. N : start[n + 1] = Len(W[n]) + 1
  <2>1. 1 \in 1 .. N + 1
      OBVIOUS
  <2>2. ASSUME NEW n \in 1 .. N PROVE start[n + 1] = Len(W[n]) + 1
    <3>1. n + 1 \in 1 .. N + 1 /\ n + 1 # 1 /\ n + 1 - 1 = n
        OBVIOUS
    <3> QED
        BY <3>1 DEF StartOf
  <2> QED
      BY <2>1, <2>2 DEF StartOf
<1> HIDE DEF start
<1>2. \A k \in 1 .. N : E[k] \in Seq(Token) /\ Len(E[k]) \in Nat
    BY LenProperties DEF AreJoined
<1>3. 0 \in T
  <2>1. W[1] = E[1] /\ 1 \in 1 .. N /\ \A j \in 1 .. Len(E[1]) : E[1][j] # Comma
    <3>1. 1 \in 1 .. N
        OBVIOUS
    <3> QED
        BY <3>1 DEF AreJoined
  <2>2. W[1] \in Seq(Token)
      BY <1>2, <2>1
  <2>3. PICK a \in Nat : Len(W[1]) = a
      BY <1>2, <2>1
  <2>4. start[1] = 0 /\ start[1 + 1] = a + 1
      BY <1>1, <2>1, <2>3
  <2>5. /\ \A j \in 1 .. a : (W[1][j] = Comma) <=> (\E k \in 2 .. 1 : j = start[k])
        /\ \A j \in 1 .. a : W[1][0 + j] = E[1][j]
      BY <2>1, <2>3
  <2>6. Laid(E, W, start, 1)
      BY <2>1, <2>2, <2>3, <2>4, <2>5 DEF Laid
  <2>7. 0 + 1 = 1 /\ 0 \in 0 .. N - 1
      OBVIOUS
  <2> QED
      BY <2>6, <2>7
<1>4. ASSUME NEW m \in 0 .. N - 1 - 1, m \in T PROVE m + 1 \in T
  <2> DEFINE n == m + 1
             p == n + 1
  <2>1. n \in 1 .. N - 1 /\ n \in 1 .. N /\ p \in 1 .. N /\ n \in Nat /\ p \in Nat /\ p = n + 1
      OBVIOUS
  <2>2. Laid(E, W, start, n)
      BY <1>4
  <2>3. W[p] = W[n] \o <<Comma>> \o E[p]
      BY <2>1 DEF AreJoined
  <2> SUFFICES Laid(E, W, start, p)
      BY <2>1
  <2> HIDE DEF n, p
  <2>4. W[n] \in Seq(Token) /\ E[p] \in Seq(Token)
      BY <1>2, <2>1, <2>2 DEF Laid
  <2>5. PICK a \in Nat, b \in Nat : Len(W[n]) = a /\ Len(E[p]) = b
      BY <2>4, LenProperties
  <2>6. /\ W[p] \in Seq(Token)
        /\ Len(W[p]) = a + 1 + b
        /\ \A j \in 1 .. a + 1 + b : W[p][j] = IF j <= a THEN W[n][j]
                                              ELSE IF j <= a + 1 THEN Comma
                                              ELSE E[p][j - (a + 1)]
    <3> DEFINE s == W[n]
               e == E[p]
               w == s \o <<Comma>> \o e
    <3> HIDE DEF s, e
    <3>1. /\ w \in Seq(Token)
          /\ Len(w) = Len(s) + 1 + Len(e)
          /\ \A j \in 1 .. Len(s) + 1 + Len(e) : w[j] = IF j <= Len(s) THEN s[j]
                                                     ELSE IF j <= Len(s) + 1 THEN Comma
                                                     ELSE e[j - (Len(s) + 1)]
        BY <2>4, JoinedEntry DEF s, e
    <3>2. W[p] = w /\ Len(s) = a /\ Len(e) = b
        BY <2>3, <2>5 DEF s, e
    <3> HIDE DEF w
    <3>3. /\ w \in Seq(Token)
          /\ Len(w) = a + 1 + b
          /\ \A j \in 1 .. a + 1 + b : w[j] = IF j <= a THEN s[j]
                                            ELSE IF j <= a + 1 THEN Comma
                                            ELSE e[j - (a + 1)]
        BY <3>1, <3>2
    <3> QED
        BY <3>2, <3>3 DEF s, e
  <2>7. start[p] = a + 1 /\ start[p + 1] = a + 1 + b + 1
    <3>1. start[p] = Len(W[n]) + 1 /\ start[p + 1] = Len(W[p]) + 1
        BY <1>1, <2>1
    <3> QED
        BY <2>5, <2>6, <3>1
  <2>8. \A k \in 1 .. p : k \in 1 .. n \/ k = p
      BY <2>1
  <2>9. /\ \A k \in 1 .. n : start[k] \in Nat /\ start[k] < a + 1
        /\ \A j \in 1 .. a : (W[n][j] = Comma) <=> (\E k \in 2 .. n : j = start[k])
        /\ \A k \in 1 .. n : start[k] + Len(E[k]) <= a
        /\ \A k \in 1 .. n : \A j \in 1 .. Len(E[k]) : W[n][start[k] + j] = E[k][j]
      BY <2>1, <2>2, <2>5, <2>7 DEF Laid
  <2>10. \A j \in 1 .. b : E[p][j] # Comma
      BY <2>1, <2>5 DEF AreJoined
  <2>11. ASSUME NEW k \in 1 .. p PROVE start[k] \in Nat /\ start[k] < start[p + 1]
      BY <2>7, <2>8, <2>9
  <2>12. ASSUME NEW j \in 1 .. a + 1 + b
         PROVE  (W[p][j] = Comma) <=> (\E k \in 2 .. p : j = start[k])
    <3>1. CASE j <= a
      <4>1. j # start[p] /\ W[p][j] = W[n][j] /\ j \in 1 .. a
          BY <2>6, <2>7, <3>1
      <4>2. (\E k \in 2 .. p : j = start[k]) <=> (\E k \in 2 .. n : j = start[k])
          BY <2>1, <2>8, <4>1
      <4> QED
          BY <2>9, <4>1, <4>2
    <3>2. CASE j = a + 1
      <4>1. W[p][j] = Comma /\ j = start[p] /\ p \in 2 .. p
          BY <2>1, <2>6, <2>7, <3>2
      <4> QED
          BY <4>1
    <3>3. CASE j > a + 1
      <4>1. W[p][j] = E[p][j - (a + 1)] /\ j - (a + 1) \in 1 .. b
          BY <2>6, <3>3
      <4>2. \A k \in 1 .. p : start[k] <= a + 1
          BY <2>7, <2>8, <2>9
      <4>3. \A k \in 2 .. p : j # start[k]
          BY <2>11, <3>3, <4>2
      <4> QED
          BY <2>10, <4>1, <4>3
    <3> QED
        BY <3>1, <3>2, <3>3
  <2>13. ASSUME NEW k \in 1 .. p PROVE start[k] + Len(E[k]) <= a + 1 + b
      BY SMTT(20), <1>2, <2>1, <2>5, <2>7, <2>8, <2>9
  <2>14. ASSUME NEW k \in 1 .. p, NEW j \in 1 .. Len(E[k]) PROVE W[p][start[k] + j] = E[k][j]
    <3>1. CASE k \in 1 .. n
      <4>1. W[n][start[k] + j] = E[k][j]
          BY <2>9, <3>1
      <4>2. PICK i \in 1 .. a : i = start[k] + j
          BY <1>2, <2>1, <2>9, <3>1
      <4>3. W[p][i] = W[n][i]
          BY <2>6
      <4> QED
          BY <4>1, <4>2, <4>3
    <3>2. CASE k = p
      <4>1. PICK i \in 1 .. a + 1 + b : i = a + 1 + j /\ i - (a + 1) = j /\ i > a + 1
          BY <2>5, <3>2
      <4>2. W[p][i] = E[p][i - (a + 1)]
          BY <2>6, <4>1
      <4> QED
          BY <2>7, <3>2, <4>1, <4>2
    <3> QED
        BY <2>8, <3>1, <3>2
  <2> QED
      BY <2>1, <2>5, <2>6, <2>7, <2>11, <2>12, <2>13, <2>14 DEF Laid
<1>5. \A m \in 0 .. N - 1 : m \in T
  <2> HIDE DEF T
  <2>1. N - 1 \in Nat
      OBVIOUS
  <2> QED
      BY <1>3, <1>4, <2>1, InductionUpTo
<1>6. ASSUME NEW n \in 1 .. N PROVE Laid(E, W, start, n)
  <2>1. n - 1 \in 0 .. N - 1 /\ n - 1 + 1 = n
      OBVIOUS
  <2> QED
      BY <1>5, <2>1
<1> QED
    BY <1>6 DEF start

\* The pieces of a text begin at these places, and are these entries.
Split(text, E, start, N) ==
    /\ {0} \cup Commas(text) = {start[k] : k \in 1 .. N}
    /\ \A k \in 1 .. N : start[k] \in Nat
    /\ \A k \in 1 .. N : \A m \in 1 .. N : m < k => start[m] < start[k]
    /\ \A k \in 1 .. N : Piece(text, start[k]) = E[k]

\* A text of entries is split where it was put together.
LEMMA PiecesAreEntries ==
    ASSUME NEW N \in Nat \ {0}, NEW E, NEW W, AreJoined(E, W, N),
           NEW start, start = StartOf(W, N)
    PROVE  Split(W[N], E, start, N)
<1> DEFINE text == W[N]
           len == Len(text)
<1>1. \A n \in 1 .. N : Laid(E, W, start, n)
    BY EntriesAreLaid
<1>2. start[1] = 0 /\ \A n \in 1 .. N : start[n + 1] = Len(W[n]) + 1
  <2>1. 1 \in 1 .. N + 1
      OBVIOUS
  <2>2. ASSUME NEW n \in 1 .. N PROVE start[n + 1] = Len(W[n]) + 1
    <3>1. n + 1 \in 1 .. N + 1 /\ n + 1 # 1 /\ n + 1 - 1 = n
        OBVIOUS
    <3> QED
        BY <3>1 DEF StartOf
  <2> QED
      BY <2>1, <2>2 DEF StartOf
<1>3. text \in Seq(Token) /\ len \in Nat /\ N \in 1 .. N /\ start[N + 1] = len + 1
    BY <1>1, <1>2, LenProperties DEF Laid
<1>4. \A k \in 1 .. N : start[k] \in Nat /\ start[k + 1] \in Nat
  <2>1. \A k \in 1 .. N : k \in 1 .. k
      OBVIOUS
  <2>2. \A k \in 1 .. N : start[k] \in Nat
      BY <1>1, <2>1 DEF Laid
  <2>3. \A k \in 1 .. N : k + 1 \in 1 .. N \/ k = N
      OBVIOUS
  <2> QED
      BY <1>3, <2>2, <2>3
<1>5. \A k \in 1 .. N : \A m \in 1 .. k : start[m] < start[k + 1]
    BY <1>1 DEF Laid
<1>6. \A k \in 1 .. N : \A m \in 1 .. N : m < k => start[m] < start[k]
  <2> SUFFICES ASSUME NEW k \in 1 .. N, NEW m \in 1 .. N, m < k PROVE start[m] < start[k]
      OBVIOUS
  <2>1. k - 1 \in 1 .. N /\ m \in 1 .. k - 1 /\ k - 1 + 1 = k
      OBVIOUS
  <2> QED
      BY <1>5, <2>1
<1>7. /\ \A j \in 1 .. len : (text[j] = Comma) <=> (\E k \in 2 .. N : j = start[k])
      /\ \A k \in 1 .. N : start[k] + Len(E[k]) <= len
      /\ \A k \in 1 .. N : \A j \in 1 .. Len(E[k]) : text[start[k] + j] = E[k][j]
    BY <1>1, <1>3 DEF Laid
<1> HIDE DEF len, text
<1>8. \A k \in 2 .. N : start[k] \in 1 .. len
  <2> SUFFICES ASSUME NEW k \in 2 .. N PROVE start[k] \in 1 .. len
      OBVIOUS
  <2>1. start[1] < start[k] /\ start[k] < start[N + 1]
      BY <1>3, <1>5, <1>6
  <2> QED
      BY <1>2, <1>3, <1>4, <2>1
<1>9. Commas(text) = {start[k] : k \in 2 .. N}
  <2>1. Commas(text) = {i \in 1 .. len : text[i] = Comma}
      BY DEF Commas, len
  <2> QED
      BY <1>7, <1>8, <2>1
<1>10. {0} \cup Commas(text) = {start[k] : k \in 1 .. N}
  <2>1. \A k \in 1 .. N : k = 1 \/ k \in 2 .. N
      OBVIOUS
  <2>2. 1 \in 1 .. N /\ \A k \in 2 .. N : k \in 1 .. N
      OBVIOUS
  <2> QED
      BY <1>2, <1>9, <2>1, <2>2
<1>11. ASSUME NEW k \in 1 .. N PROVE Piece(text, start[k]) = E[k]
  <2> DEFINE ends == {j \in Commas(text) \cup {len + 1} : j > start[k]}
             e == E[k]
             s == start[k]
  <2>1. ends \subseteq Nat /\ start[k + 1] \in ends
    <3>1. k + 1 \in 2 .. N \/ k = N
        OBVIOUS
    <3>2. start[k] < start[k + 1]
        BY <1>5
    <3>3. start[k + 1] \in Commas(text) \cup {len + 1}
        BY <1>3, <1>9, <3>1
    <3>4. ends \subseteq Nat
        BY <1>3, <1>4, <1>9
    <3> QED
        BY <1>4, <3>2, <3>3, <3>4
  <2>2. ASSUME NEW j \in ends PROVE start[k + 1] <= j
    <3>1. CASE j = len + 1
      <4>1. k = N \/ k + 1 \in 2 .. N
          OBVIOUS
      <4> QED
          BY <1>3, <1>4, <1>8, <3>1, <4>1
    <3>2. CASE j \in Commas(text)
      <4>1. PICK m \in 2 .. N : j = start[m]
          BY <1>9, <3>2
      <4>2. start[k] < start[m]
          BY <4>1
      <4>3. k < m
        <5>1. start[k] \in Nat /\ start[m] \in Nat
            BY <1>4
        <5>2. ~(m < k)
            BY <1>6, <4>2, <5>1
        <5>3. m # k
            BY <4>2, <5>1
        <5> QED
            BY <5>2, <5>3
      <4>4. m = k + 1 \/ k + 1 < m
          BY <4>3
      <4> QED
          BY <1>4, <1>6, <4>1, <4>4
    <3> QED
        BY <3>1, <3>2
  <2>3. Min(ends) = start[k + 1]
    <3> HIDE DEF ends
    <3> QED
        BY <2>1, <2>2, MinIsLeast
  <2>4. Piece(text, s) = SubSeq(text, s + 1, start[k + 1] - 1)
      BY <2>3 DEF Piece, len
  <2>5. e \in Seq(Token) /\ Len(e) \in Nat /\ s \in Nat
      BY <1>4, LenProperties DEF AreJoined
  <2>6. start[k + 1] - 1 = s + Len(e)
    <3>1. Laid(E, W, start, k) /\ start[k + 1] = Len(W[k]) + 1
        BY <1>1, <1>2
    <3>2. Len(W[k]) = start[k] + Len(E[k])
        BY <3>1 DEF Laid
    <3> QED
        BY <2>5, <3>1, <3>2
  <2>7. /\ s + Len(e) <= len
        /\ \A j \in 1 .. Len(e) : text[s + j] = e[j]
      BY <1>7
  <2> HIDE DEF e, s
  <2>8. PICK b \in Nat : Len(e) = b
      BY <2>5
  <2> DEFINE piece == SubSeq(text, s + 1, s + b)
  <2>9. \A i \in s + 1 .. s + b : text[i] \in Token
    <3>1. \A i \in 1 .. len : text[i] \in Token
        BY <1>3, ElementOfSeq DEF len
    <3> QED
        BY <1>3, <2>5, <2>7, <2>8, <3>1
  <2>10. /\ piece \in Seq(Token)
         /\ Len(piece) = IF s + 1 <= s + b THEN s + b - (s + 1) + 1 ELSE 0
         /\ \A i \in 1 .. s + b - (s + 1) + 1 : piece[i] = text[s + 1 + i - 1]
      BY <2>5, <2>8, <2>9, SubSeqProperties
  <2> HIDE DEF piece
  <2>11. Len(piece) = b
      BY <2>5, <2>10
  <2>12. ASSUME NEW i \in 1 .. b PROVE piece[i] = e[i]
    <3>1. PICK j \in Nat : j = s + i /\ j = s + 1 + i - 1
        BY <2>5
    <3>2. i \in 1 .. s + b - (s + 1) + 1
        BY <2>5
    <3>3. piece[i] = text[j]
        BY <2>10, <3>1, <3>2
    <3>4. text[j] = e[i]
        BY <2>7, <2>8, <3>1
    <3> QED
        BY <3>3, <3>4
  <2>13. piece = e
      BY <2>5, <2>8, <2>10, <2>11, <2>12, SeqEqual
  <2> QED
      BY <2>4, <2>6, <2>8, <2>13 DEF piece, e, s
<1> QED
    BY <1>4, <1>6, <1>10, <1>11 DEF Split, text

\* WrittenUpTo is what its recursive definition says.
LEMMA WrittenUpToDef ==
    ASSUME NEW pairs, Len(pairs) \in Nat
    PROVE  WrittenUpTo(pairs) =
               [n \in 0 .. Len(pairs) |->
                   IF n = 0 THEN <<>>
                   ELSE IF n = 1 THEN Entry(pairs[n])
                   ELSE WrittenUpTo(pairs)[n - 1] \o <<Comma>> \o Entry(pairs[n])]
<1> DEFINE N == Len(pairs)
           Next(text, n) == IF n = 0 THEN <<>>
                            ELSE IF n = 1 THEN Entry(pairs[n])
                            ELSE text[n - 1] \o <<Comma>> \o Entry(pairs[n])
           Is(text, m) == text = [n \in 0 .. m |-> Next(text, n)]
           T == {m \in 0 .. N : \E text : Is(text, m)}
<1> HIDE DEF N
<1>1. 0 \in T
  <2> DEFINE text == [n \in 0 .. 0 |-> <<>>]
  <2>1. Is(text, 0)
      OBVIOUS
  <2>2. 0 \in 0 .. N
      BY DEF N
  <2> HIDE DEF Is
  <2> QED
      BY <2>1, <2>2
<1>2. ASSUME NEW m \in 0 .. N - 1, m \in T PROVE m + 1 \in T
  <2>1. PICK text : Is(text, m)
      BY <1>2
  <2>2. m \in Nat /\ m + 1 \in 0 .. N
      BY DEF N
  <2> DEFINE more == [n \in 0 .. m + 1 |-> IF n <= m THEN text[n] ELSE Next(text, n)]
  <2>3. ASSUME NEW n \in 0 .. m + 1 PROVE more[n] = Next(more, n)
    <3>1. n # 0 => more[n - 1] = text[n - 1]
        BY <2>2
    <3>2. CASE n <= m
      <4>1. n \in 0 .. m
          BY <2>2, <3>2
      <4>2. more[n] = text[n]
          BY <3>2
      <4>3. text[n] = Next(text, n)
        <5> HIDE DEF Next
        <5> QED
            BY <2>1, <4>1
      <4> QED
          BY <4>2, <4>3
    <3>3. CASE ~(n <= m)
        BY <3>3
    <3>4. more[n] = Next(text, n)
        BY <3>2, <3>3
    <3> HIDE DEF more
    <3> QED
        BY <3>1, <3>4
  <2>4. more = [n \in 0 .. m + 1 |-> more[n]]
      OBVIOUS
  <2>5. Is(more, m + 1)
    <3> HIDE DEF Next, more
    <3> QED
        BY <2>3, <2>4
  <2> HIDE DEF Is, more
  <2> QED
      BY <2>2, <2>5
<1>3. \A n \in 0 .. N : n \in T
  <2> HIDE DEF T
  <2>1. N \in Nat
      BY DEF N
  <2> QED
      BY <1>1, <1>2, <2>1, InductionUpTo
<1>4. \E text : Is(text, N)
  <2>1. N \in 0 .. N
      BY DEF N
  <2> HIDE DEF Is
  <2> QED
      BY <1>3, <2>1
<1> QED
    BY <1>4 DEF WrittenUpTo, N

\* An entry has no comma, and its key and its value are found again.
LEMMA EntryIsRead ==
    ASSUME NEW key \in Seq(Token \ {"=", Comma}), NEW value \in Seq(Token \ {Comma}),
           NEW pair, pair[1] = key, pair[2] = value
    PROVE  /\ Entry(pair) \in Seq(Token)
           /\ \A j \in 1 .. Len(Entry(pair)) : Entry(pair)[j] # Comma
           /\ Equals(Entry(pair)) # 0
           /\ Key(Entry(pair)) = key
           /\ Value(Entry(pair)) = value
<1> DEFINE s == key \o <<"=">>
           e == s \o value
<1>1. PICK a \in Nat, b \in Nat : Len(key) = a /\ Len(value) = b
    BY LenProperties
<1>2. /\ key \in Seq(Token) /\ \A j \in 1 .. a : key[j] \in Token \ {"=", Comma}
      /\ value \in Seq(Token) /\ \A j \in 1 .. b : value[j] \in Token \ {Comma}
    BY <1>1, SeqMonotonic, ElementOfSeq
<1>3. "=" \in Token /\ "=" # Comma
    BY SignsAssumption DEF Comma
<1>4. /\ s \in Seq(Token) /\ Len(s) = a + 1
      /\ \A j \in 1 .. a + 1 : s[j] = IF j <= a THEN key[j] ELSE "="
    BY <1>1, <1>2, <1>3, JoinedToken
<1> HIDE DEF s
<1>5. /\ e \in Seq(Token) /\ Len(e) = a + 1 + b
      /\ \A j \in 1 .. a + 1 + b : e[j] = IF j <= a + 1 THEN s[j] ELSE value[j - (a + 1)]
  <2>1. /\ e \in Seq(Token) /\ Len(e) = Len(s) + Len(value)
        /\ \A j \in 1 .. Len(s) + Len(value) :
              e[j] = IF j <= Len(s) THEN s[j] ELSE value[j - Len(s)]
      BY <1>2, <1>4, Joined
  <2> HIDE DEF e
  <2> QED
      BY <1>1, <1>4, <2>1
<1>6. Entry(pair) = e
    BY DEF Entry, s
<1> HIDE DEF e
<1>7. \A j \in 1 .. a + 1 + b : e[j] = IF j <= a THEN key[j] ELSE IF j <= a + 1 THEN "="
                                     ELSE value[j - (a + 1)]
    BY <1>4, <1>5
<1>8. ASSUME NEW j \in 1 .. a + 1 + b PROVE e[j] # Comma
  <2>1. ~(j <= a + 1) => j - (a + 1) \in 1 .. b
      OBVIOUS
  <2> QED
      BY <1>2, <1>3, <1>7, <2>1
<1>9. Equals(e) = a + 1
  <2>1. a + 1 \in 1 .. a + 1 + b /\ a + 1 \in 1 .. Len(e) /\ Len(e) \in Nat
      BY <1>5
  <2>2. e[a + 1] = "="
      BY <1>7, <2>1
  <2>3. \A j \in 1 .. a + 1 - 1 : e[j] # "="
      BY <1>2, <1>7
  <2>4. Index(e, "=") = a + 1
      BY <2>1, <2>2, <2>3, IndexIsFirst
  <2> QED
      BY <2>4 DEF Equals
<1>10. Key(e) = key
  <2>1. Key(e) = SubSeq(e, 1, a)
      BY <1>9 DEF Key
  <2>2. \A i \in 1 .. a : e[i] = key[i] /\ e[i] \in Token
      BY <1>2, <1>7
  <2> QED
      BY <1>1, <1>2, <2>1, <2>2, SubSeqProperties, SeqEqual
<1>11. Value(e) = value
  <2> DEFINE piece == SubSeq(e, a + 2, a + 1 + b)
  <2>1. Value(e) = piece
    <3>1. a + 1 + 1 = a + 2
        OBVIOUS
    <3> QED
        BY <1>5, <1>9, <3>1 DEF Value
  <2>2. \A i \in a + 2 .. a + 1 + b : e[i] \in Token /\ e[i] = value[i - (a + 1)]
      BY <1>5, <1>7, ElementOfSeq
  <2>3. /\ piece \in Seq(Token)
        /\ Len(piece) = IF a + 2 <= a + 1 + b THEN a + 1 + b - (a + 2) + 1 ELSE 0
        /\ \A i \in 1 .. a + 1 + b - (a + 2) + 1 : piece[i] = e[a + 2 + i - 1]
      BY <2>2, SubSeqProperties
  <2> HIDE DEF piece
  <2>4. Len(piece) = b /\ \A i \in 1 .. b : piece[i] = e[a + 2 + i - 1]
      BY <2>3
  <2>5. ASSUME NEW i \in 1 .. b PROVE piece[i] = value[i]
    <3>1. PICK k \in a + 2 .. a + 1 + b : k = a + 2 + i - 1 /\ k - (a + 1) = i
      <4> WITNESS a + 1 + i \in a + 2 .. a + 1 + b
      <4> QED
          OBVIOUS
    <3>2. piece[i] = e[k] /\ e[k] = value[k - (a + 1)]
        BY <2>2, <2>4, <3>1
    <3> QED
        BY <3>1, <3>2
  <2> QED
      BY <1>1, <1>2, <2>1, <2>3, <2>4, <2>5, SeqEqual
<1> QED
    BY <1>5, <1>6, <1>8, <1>9, <1>10, <1>11

\* What the pairs of a call say: of two with one key the later one counts.
LastOf(pairs) ==
    [k \in {p[1] : p \in ToSet(pairs)} |->
        pairs[Max({i \in DOMAIN pairs : pairs[i][1] = k})][2]]

\* The entries of a call's pairs, and the text they are put together to.
LEMMA PairsAreJoined ==
    ASSUME NEW pairs \in Seq(Seq(Token \ {"=", Comma}) \X Seq(Token \ {Comma})),
           NEW N \in Nat \ {0}, Len(pairs) = N
    PROVE  /\ AreJoined([k \in 1 .. N |-> Entry(pairs[k])], WrittenUpTo(pairs), N)
           /\ \A k \in 1 .. N : /\ Equals(Entry(pairs[k])) # 0
                                /\ Key(Entry(pairs[k])) = pairs[k][1]
                                /\ Value(Entry(pairs[k])) = pairs[k][2]
<1> DEFINE E == [k \in 1 .. N |-> Entry(pairs[k])]
           W == WrittenUpTo(pairs)
<1>1. ASSUME NEW k \in 1 .. N
      PROVE  /\ Entry(pairs[k]) \in Seq(Token)
             /\ \A j \in 1 .. Len(Entry(pairs[k])) : Entry(pairs[k])[j] # Comma
             /\ Equals(Entry(pairs[k])) # 0
             /\ Key(Entry(pairs[k])) = pairs[k][1]
             /\ Value(Entry(pairs[k])) = pairs[k][2]
  <2>1. pairs[k] \in Seq(Token \ {"=", Comma}) \X Seq(Token \ {Comma})
      BY ElementOfSeq
  <2>2. pairs[k][1] \in Seq(Token \ {"=", Comma}) /\ pairs[k][2] \in Seq(Token \ {Comma})
      BY <2>1
  <2> QED
      BY <2>2, EntryIsRead
<1>2. \A n \in 0 .. N : W[n] = IF n = 0 THEN <<>>
                               ELSE IF n = 1 THEN Entry(pairs[n])
                               ELSE W[n - 1] \o <<Comma>> \o Entry(pairs[n])
  <2>1. N = Len(pairs) /\ Len(pairs) \in Nat
      OBVIOUS
  <2>2. W = [n \in 0 .. N |-> IF n = 0 THEN <<>>
                              ELSE IF n = 1 THEN Entry(pairs[n])
                              ELSE W[n - 1] \o <<Comma>> \o Entry(pairs[n])]
      BY <2>1, WrittenUpToDef, Zenon
  <2> HIDE DEF W
  <2> QED
      BY <2>2, Zenon
<1> HIDE DEF W
<1>3. W[1] = Entry(pairs[1])
    BY <1>2
<1>4. ASSUME NEW n \in 1 .. N - 1 PROVE W[n + 1] = W[n] \o <<Comma>> \o Entry(pairs[n + 1])
  <2>1. PICK m \in 0 .. N : m = n + 1 /\ m # 0 /\ m # 1 /\ m - 1 = n
      OBVIOUS
  <2>2. W[m] = W[m - 1] \o <<Comma>> \o Entry(pairs[m])
      BY <1>2, <2>1, Zenon
  <2> QED
      BY <2>1, <2>2
<1>5. AreJoined(E, W, N)
  <2>1. \A k \in 1 .. N : E[k] = Entry(pairs[k])
      OBVIOUS
  <2>2. \A n \in 1 .. N - 1 : n + 1 \in 1 .. N
      OBVIOUS
  <2>3. W[1] = E[1]
      BY <1>3
  <2> HIDE DEF E
  <2>4. \A n \in 1 .. N - 1 : W[n + 1] = W[n] \o <<Comma>> \o E[n + 1]
      BY <1>4, <2>1, <2>2
  <2>5. \A k \in 1 .. N : E[k] \in Seq(Token) /\ \A j \in 1 .. Len(E[k]) : E[k][j] # Comma
    <3> SUFFICES ASSUME NEW k \in 1 .. N
                 PROVE  E[k] \in Seq(Token) /\ \A j \in 1 .. Len(E[k]) : E[k][j] # Comma
        OBVIOUS
    <3>1. E[k] = Entry(pairs[k])
        BY <2>1
    <3>2. /\ Entry(pairs[k]) \in Seq(Token)
          /\ \A j \in 1 .. Len(Entry(pairs[k])) : Entry(pairs[k])[j] # Comma
        BY <1>1
    <3> QED
        BY <3>1, <3>2, Zenon
  <2> QED
      BY <2>3, <2>4, <2>5 DEF AreJoined
<1> QED
    BY <1>1, <1>5 DEF W, E

\* The arguments of a call are read as its pairs say.
LEMMA ArgumentsAreRead ==
    ASSUME NEW pairs \in Seq(Seq(Token \ {"=", Comma}) \X Seq(Token \ {Comma}))
    PROVE  WrittenPairs(pairs) \in Seq(Token) /\ Arguments(WrittenPairs(pairs)) = LastOf(pairs)
<1>1. PICK N \in Nat : Len(pairs) = N /\ DOMAIN pairs = 1 .. N
    BY LenProperties
<1> DEFINE text == WrittenPairs(pairs)
           starts == {i \in {0} \cup Commas(text) : Equals(Piece(text, i)) # 0}
           Named(k) == {i \in starts : Key(Piece(text, i)) = k}
           places(k) == {i \in DOMAIN pairs : pairs[i][1] = k}
<1>2. Arguments(text) = [k \in {Key(Piece(text, i)) : i \in starts} |->
                            Value(Piece(text, Max(Named(k))))]
    BY DEF Arguments
<1>3. LastOf(pairs) = [k \in {pairs[i][1] : i \in 1 .. N} |-> pairs[Max(places(k))][2]]
  <2>1. {p[1] : p \in ToSet(pairs)} = {pairs[i][1] : i \in 1 .. N}
      BY <1>1 DEF ToSet
  <2> QED
      BY <2>1 DEF LastOf
<1>4. CASE N = 0
  <2>1. text = <<>>
    <3>1. 0 \in 0 .. Len(pairs) /\ Len(pairs) = 0 /\ Len(pairs) \in Nat
        BY <1>1, <1>4
    <3>2. WrittenUpTo(pairs)[0] = <<>>
        BY <3>1, WrittenUpToDef, Zenon
    <3> QED
        BY <3>1, <3>2 DEF WrittenPairs
  <2>2. text \in Seq(Token)
      BY <2>1, EmptySeq
  <2>3. {0} \cup Commas(text) = {0}
      BY <2>1 DEF Commas
  <2>4. Equals(Piece(text, 0)) = 0
    <3> DEFINE ends == {j \in Commas(text) \cup {Len(text) + 1} : j > 0}
    <3>1. ends = {1}
        BY <2>1 DEF Commas
    <3>2. Min(ends) = 1
      <4> HIDE DEF ends
      <4> QED
          BY <3>1, MinIsLeast
    <3>3. Piece(text, 0) = SubSeq(text, 1, 0)
      <4>1. Piece(text, 0) = SubSeq(text, 0 + 1, Min(ends) - 1)
          BY DEF Piece
      <4>2. 0 + 1 = 1 /\ Min(ends) - 1 = 0
          BY <3>2
      <4> HIDE DEF ends, text
      <4> QED
          BY <4>1, <4>2
    <3>4. Len(SubSeq(text, 1, 0)) = 0
        BY <2>2, SubSeqProperties
    <3>5. \A j \in 1 .. Len(Piece(text, 0)) : Piece(text, 0)[j] # "="
        BY <3>3, <3>4
    <3> QED
        BY <3>5, IndexOfNone DEF Equals
  <2>5. starts = {}
      BY <2>3, <2>4
  <2>6. {Key(Piece(text, i)) : i \in starts} = {} /\ {pairs[i][1] : i \in 1 .. N} = {}
      BY <1>4, <2>5
  <2> HIDE DEF starts, places, Named
  <2> QED
      BY <1>2, <1>3, <2>2, <2>6
<1>5. CASE N # 0
  <2> DEFINE W == WrittenUpTo(pairs)
             E == [k \in 1 .. N |-> Entry(pairs[k])]
             start == StartOf(W, N)
  <2>1. /\ AreJoined(E, W, N)
        /\ \A k \in 1 .. N : /\ Equals(E[k]) # 0
                             /\ Key(E[k]) = pairs[k][1]
                             /\ Value(E[k]) = pairs[k][2]
      BY <1>1, <1>5, PairsAreJoined
  <2>2. text = W[N] /\ W[N] \in Seq(Token)
    <3>1. N \in 1 .. N
        BY <1>5
    <3>2. Laid(E, W, start, N)
      <4> HIDE DEF E, W
      <4> QED
          BY <1>5, <2>1, <3>1, EntriesAreLaid DEF start
    <3> HIDE DEF E, W, start
    <3> QED
        BY <1>1, <3>2 DEF Laid, WrittenPairs, W
  <2> HIDE DEF E, W, start
  <2>3. /\ {0} \cup Commas(text) = {start[k] : k \in 1 .. N}
        /\ \A k \in 1 .. N : start[k] \in Nat
        /\ \A k \in 1 .. N : \A m \in 1 .. N : m < k => start[m] < start[k]
        /\ \A k \in 1 .. N : Piece(text, start[k]) = E[k]
    <3>1. start = StartOf(W, N) /\ N \in Nat \ {0}
        BY <1>5 DEF start
    <3>2. Split(W[N], E, start, N)
        BY <2>1, <3>1, PiecesAreEntries
    <3>3. Split(text, E, start, N)
      <4> HIDE DEF text
      <4> QED
          BY <2>2, <3>2
    <3> QED
        BY <3>3 DEF Split
  <2> HIDE DEF text
  <2>4. starts = {start[k] : k \in 1 .. N}
      BY <2>1, <2>3
  <2>5. \A k \in 1 .. N : /\ Key(Piece(text, start[k])) = pairs[k][1]
                          /\ Value(Piece(text, start[k])) = pairs[k][2]
      BY <2>1, <2>3
  <2> HIDE DEF starts
  <2>6. {Key(Piece(text, i)) : i \in starts} = {pairs[i][1] : i \in 1 .. N}
    <3> DEFINE key(i) == Key(Piece(text, i))
               keys == {key(i) : i \in starts}
               names == {pairs[i][1] : i \in 1 .. N}
    <3>1. \A i \in 1 .. N : key(start[i]) = pairs[i][1]
        BY <2>5
    <3> HIDE DEF key
    <3>2. ASSUME NEW k \in keys PROVE k \in names
        BY <2>4, <3>1
    <3>3. ASSUME NEW k \in names PROVE k \in keys
        BY <2>4, <3>1
    <3> HIDE DEF keys, names
    <3>4. keys = names
        BY <3>2, <3>3
    <3> QED
        BY <3>4 DEF keys, names, key
  <2>7. ASSUME NEW k \in {pairs[i][1] : i \in 1 .. N}
        PROVE  Value(Piece(text, Max(Named(k)))) = pairs[Max(places(k))][2]
    <3>1. places(k) \in SUBSET (0 .. N) /\ places(k) # {} /\ places(k) \in SUBSET (1 .. N)
      <4>1. PICK i \in 1 .. N : k = pairs[i][1]
          BY <2>7
      <4>2. \A j : j \in places(k) <=> (j \in 1 .. N /\ pairs[j][1] = k)
          BY <1>1
      <4> HIDE DEF places
      <4>3. i \in places(k)
          BY <4>1, <4>2
      <4>4. \A j \in places(k) : j \in 1 .. N /\ j \in 0 .. N
          BY <4>2
      <4> QED
          BY <4>3, <4>4
    <3>2. PICK x \in places(k) : \A y \in places(k) : y <= x
      <4> HIDE DEF places
      <4> QED
          BY <3>1, GreatestNumber
    <3>3. Max(places(k)) = x
      <4>1. places(k) \in SUBSET Nat
          BY <3>1
      <4> HIDE DEF places
      <4> QED
          BY <3>2, <4>1, MaxIsGreatest
    <3>4. Named(k) = {start[i] : i \in places(k)}
      <4> DEFINE key(i) == Key(Piece(text, i))
      <4>1. \A i \in 1 .. N : key(start[i]) = pairs[i][1]
          BY <2>5
      <4>2. \A i : i \in Named(k) <=> (i \in starts /\ key(i) = k)
          OBVIOUS
      <4>3. \A j : j \in places(k) <=> (j \in 1 .. N /\ pairs[j][1] = k)
          BY <1>1
      <4> HIDE DEF key, Named, places
      <4>4. ASSUME NEW i \in Named(k) PROVE \E j \in places(k) : i = start[j]
        <5>1. PICK j \in 1 .. N : i = start[j]
            BY <2>4, <4>2
        <5> QED
            BY <4>1, <4>2, <4>3, <5>1
      <4>5. ASSUME NEW j \in places(k) PROVE start[j] \in Named(k)
          BY <2>4, <4>1, <4>2, <4>3
      <4> QED
          BY <4>4, <4>5
    <3>5. x \in 1 .. N /\ \A y \in places(k) : y \in 1 .. N /\ y <= x
        BY <3>1, <3>2
    <3> HIDE DEF Named, places
    <3>6. \A y \in places(k) : start[y] \in Nat /\ start[y] <= start[x]
      <4> SUFFICES ASSUME NEW y \in places(k) PROVE start[y] \in Nat /\ start[y] <= start[x]
          OBVIOUS
      <4>1. y = x \/ y < x
          BY <3>5
      <4> QED
          BY <2>3, <3>5, <4>1
    <3>7. Max(Named(k)) = start[x]
      <4>1. Named(k) \in SUBSET Nat /\ start[x] \in Named(k)
          BY <3>4, <3>6
      <4>2. \A y \in Named(k) : y <= start[x]
          BY <3>4, <3>6
      <4> QED
          BY <4>1, <4>2, MaxIsGreatest
    <3> QED
        BY <2>5, <3>3, <3>5, <3>7
  <2> HIDE DEF Named, places
  <2> QED
    <3> DEFINE D == {pairs[i][1] : i \in 1 .. N}
    <3>1. Arguments(text) = [k \in D |-> Value(Piece(text, Max(Named(k))))]
        BY <1>2, <2>6, Zenon
    <3>2. \A k \in D : Value(Piece(text, Max(Named(k)))) = pairs[Max(places(k))][2]
        BY <2>7
    <3>3. LastOf(pairs) = [k \in D |-> pairs[Max(places(k))][2]]
        BY <1>3
    <3> HIDE DEF D
    <3>4. Arguments(text) = LastOf(pairs)
        BY <3>1, <3>2, <3>3, Zenon
    <3> QED
        BY <2>2, <3>4 DEF text
<1> QED
    BY <1>1, <1>4, <1>5

-----------------------------------------------------------------------------
(* Proper calls                                                            *)

\* parseToolCalls reads every proper call as it was meant, of whatever length and
\* with however many arguments: a line written with it is taken for a call, makes no
\* slice go out of range, and gives back the tool and of each key the last value.
THEOREM ProperCallIsReadAsMeant ==
    ASSUME NEW call, IsProper(call)
    PROVE  /\ Written(call) \in Seq(Token)
           /\ IsCall(Written(call))
           /\ ~Panics(Written(call))
           /\ ToolCall(Written(call)) = Meant(call)
<1> DEFINE tool == call.tool
           pairs == call.pairs
           text == WrittenPairs(pairs)
           line == Line(tool, text)
<1>1. tool \in Seq(Token) /\ \A i \in 1 .. Len(tool) : tool[i] # "("
  <2>1. tool \in Seq(Token \ {"("})
      BY DEF IsProper
  <2> HIDE DEF tool
  <2> QED
      BY <2>1, SeqMonotonic, ElementOfSeq
<1>2. text \in Seq(Token) /\ Arguments(text) = LastOf(pairs)
    BY ArgumentsAreRead DEF IsProper
<1>3. Written(call) = line
    BY DEF Written
<1>4. Meant(call) = [tool |-> tool, arguments |-> LastOf(pairs)]
    BY DEF Meant, LastOf
<1> HIDE DEF tool, pairs, text
<1>5. PICK a \in Nat, b \in Nat : Len(tool) = a /\ Len(text) = b
    BY <1>1, <1>2, LenProperties
<1>6. /\ IsFenced(line)
      /\ Len(line) = a + b + 6
      /\ Len(Inner(line)) = a + b + 2
      /\ ParenIn(Inner(line)) = a + 1
      /\ Tool(line) = tool
      /\ ArgsText(Inner(line)) = text
    BY <1>1, <1>2, <1>5, LineIsTakenApart
<1>7. line \in Seq(Token)
    BY <1>1, <1>2, <1>5, LineIsPutTogether
<1> HIDE DEF line
<1>8. IsCall(line)
    BY <1>6 DEF IsCall
<1>9. ~Panics(line)
    BY <1>6 DEF Panics
<1>10. ToolCall(line) = Meant(call)
    BY <1>2, <1>4, <1>6 DEF ToolCall
<1> QED
    BY <1>3, <1>7, <1>8, <1>9, <1>10
=============================================================================
