------------------------ MODULE RawModelClientProofs ------------------------
(***************************************************************************)
(* RawModelClient implements RawRpc, for every set of callers and every    *)
(* bound of the request ids.                                               *)
(***************************************************************************)
EXTENDS RawModelClient, SequenceTheorems, TLAPS

\* What taking the first element off a channel gives.
LEMMA Pop ==
    ASSUME NEW S, NEW s \in Seq(S), s # <<>>
    PROVE  /\ Head(s) \in S
           /\ Head(s) = s[1]
           /\ Tail(s) \in Seq(S)
           /\ Len(s) \in Nat \ {0}
           /\ Len(Tail(s)) = Len(s) - 1
           /\ Len(Tail(s)) = 0 => Tail(s) = <<>>
<1>1. Tail(s) \in Seq(S) /\ Head(s) \in S /\ Len(Tail(s)) = Len(s) - 1
    BY HeadTailProperties
<1>2. Len(s) \in Nat \ {0}
    BY EmptySeq
<1>3. Tail(s) # <<>> => Len(Tail(s)) # 0
    BY <1>1, EmptySeq
<1>4. Head(s) = s[1]
    BY <1>2
<1> QED
    BY <1>1, <1>2, <1>3, <1>4

\* The next id is an id.
LEMMA NextIdType == rpcID \in Ids => NextId \in Ids
  BY MaxRpcAssumption DEF Ids, NextId

\* The initial state has its types.
LEMMA TypeInit == Init => TypeOK
<1> SUFFICES ASSUME Init PROVE TypeOK
    OBVIOUS
<1>1. <<>> \in Seq(Ids) /\ <<>> \in Seq(Replies)
    BY EmptySeq
<1>2. 0 \in Ids
    BY MaxRpcAssumption DEF Ids
<1> QED
    BY <1>1, <1>2 DEF Init, TypeOK

\* A channel without length is empty.
LEMMA ChannelLength ==
    TypeOK => /\ Len(toServer) \in Nat /\ (Len(toServer) = 0 => toServer = <<>>)
              /\ Len(toClient) \in Nat /\ (Len(toClient) = 0 => toClient = <<>>)
<1> SUFFICES ASSUME TypeOK
             PROVE  /\ Len(toServer) \in Nat /\ (Len(toServer) = 0 => toServer = <<>>)
                    /\ Len(toClient) \in Nat /\ (Len(toClient) = 0 => toClient = <<>>)
    OBVIOUS
<1>1. toServer \in Seq(Ids) /\ toClient \in Seq(Replies)
    BY DEF TypeOK
<1> QED
    BY <1>1, EmptySeq, LenProperties

\* Every step keeps the types.
LEMMA TypeStep == TypeOK /\ [Next]_vars => TypeOK'
<1> SUFFICES ASSUME TypeOK, [Next]_vars PROVE TypeOK'
    OBVIOUS
<1> USE NextIdType DEF TypeOK, Replies, Kinds, Ends, LoseLink, KeepLink
<1>1. ASSUME DialFails PROVE TypeOK'
    BY <1>1 DEF DialFails
<1>2. ASSUME Dial PROVE TypeOK'
    BY <1>2 DEF Dial, NextId
<1>3. ASSUME HealthReady PROVE TypeOK'
  <2>1. toClient \in Seq(Replies) /\ toClient # <<>>
      BY <1>3 DEF HealthReady, TypeOK
  <2> QED
      BY <1>3, <2>1, Pop, ChannelLength DEF HealthReady
<1>4. ASSUME HealthFails PROVE TypeOK'
    BY <1>4 DEF HealthFails
<1>5. ASSUME NEW c \in Callers, Ask(c) PROVE TypeOK'
    BY <1>5 DEF Ask
<1>6. ASSUME NEW c \in Callers, IsReady(c) PROVE TypeOK'
    BY <1>6 DEF IsReady
<1>7. ASSUME NEW c \in Callers, NotConnected(c) PROVE TypeOK'
    BY <1>7 DEF NotConnected
<1>8. ASSUME NEW c \in Callers, Send(c) PROVE TypeOK'
    BY <1>8 DEF Send, NextId
<1>9. ASSUME NEW c \in Callers, SendFails(c) PROVE TypeOK'
    BY <1>9 DEF SendFails, NextId
<1>10. ASSUME NEW c \in Callers, ReadResult(c) PROVE TypeOK'
  <2>1. toClient \in Seq(Replies) /\ toClient # <<>>
      BY <1>10 DEF ReadResult, TypeOK
  <2> QED
      BY <1>10, <2>1, Pop, ChannelLength DEF ReadResult
<1>11. ASSUME NEW c \in Callers, ReadError(c) PROVE TypeOK'
  <2>1. toClient \in Seq(Replies) /\ toClient # <<>>
      BY <1>11 DEF ReadError, TypeOK
  <2> QED
      BY <1>11, <2>1, Pop, ChannelLength DEF ReadError
<1>12. ASSUME NEW c \in Callers, ReadGarbled(c) PROVE TypeOK'
  <2>1. toClient \in Seq(Replies) /\ toClient # <<>>
      BY <1>12 DEF ReadGarbled, TypeOK
  <2> QED
      BY <1>12, <2>1, Pop, ChannelLength DEF ReadGarbled
<1>13. ASSUME NEW c \in Callers, ReadTimeout(c) PROVE TypeOK'
    BY <1>13 DEF ReadTimeout
<1>14. ASSUME Close PROVE TypeOK'
    BY <1>14 DEF Close
<1>15. ASSUME Serve PROVE TypeOK'
  <2>1. toServer \in Seq(Ids) /\ toServer # <<>>
      BY <1>15 DEF Serve, TypeOK
  <2>2. Head(toServer) \in Ids /\ Head(toServer) = toServer[1] /\ Tail(toServer) \in Seq(Ids)
        /\ Len(Tail(toServer)) = Len(toServer) - 1 /\ Len(toServer) \in Nat \ {0}
        /\ (Len(Tail(toServer)) = 0 => Tail(toServer) = <<>>)
      BY <2>1, Pop
  <2>3. PICK k \in Kinds : toClient' = Append(toClient, [id |-> Head(toServer), kind |-> k])
      BY <1>15 DEF Serve
  <2> DEFINE r == [id |-> Head(toServer), kind |-> k]
  <2>4. r \in Replies /\ r.id = Head(toServer)
      BY <2>2, <2>3 DEF Replies
  <2>5. toClient \in Seq(Replies) /\ Len(toClient) \in Nat
      BY DEF TypeOK
  <2> HIDE DEF r
  <2>6. toClient' \in Seq(Replies) /\ Len(toClient') = Len(toClient) + 1
        /\ toClient'[Len(toClient) + 1] = r
      BY <2>3, <2>4, <2>5, AppendProperties DEF r
  <2> QED
      BY <1>15, <2>2, <2>4, <2>5, <2>6 DEF Serve
<1>16. ASSUME ServerEnds PROVE TypeOK'
    BY <1>16 DEF ServerEnds
<1>17. ASSUME UNCHANGED vars PROVE TypeOK'
    BY <1>17 DEF vars
<1> QED
    BY <1>1, <1>2, <1>3, <1>4, <1>5, <1>6, <1>7, <1>8, <1>9, <1>10, <1>11,
       <1>12, <1>13, <1>14, <1>15, <1>16, <1>17
    DEF Next, Connect, CallStep

-----------------------------------------------------------------------------
(* The inductive invariant.  At most one exchange is under way, the        *)
(* connection in use carries nothing but that exchange, and r.ready says   *)
(* exactly that Connect has succeeded and the connection is still in use.  *)

\* r.mu: Connect and the calls exclude each other.
OneExchange ==
    /\ \A c, d \in Callers : pc[c] = "sent" /\ pc[d] = "sent" => c = d
    /\ boot = "sent" => \A c \in Callers : pc[c] # "sent"

\* What r.conn and r.ready say of each other and of Connect.
ReadyMeansLinked ==
    /\ ready => linked /\ boot = "done"
    /\ linked /\ boot # "sent" => ready
    /\ boot = "start" => ~linked /\ toServer = <<>> /\ toClient = <<>>
    /\ boot = "sent" => linked
    /\ \A c \in Callers : pc[c] = "sent" => linked

\* The connection in use carries at most the exchange under way.
OwnExchangeOnly ==
    linked =>
        /\ Len(toServer) + Len(toClient) <= 1
        /\ Len(toServer) = 1 => toServer[1] = rpcID
        /\ Len(toClient) = 1 => toClient[1].id = rpcID

LinkInv == OneExchange /\ ReadyMeansLinked /\ OwnExchangeOnly /\ QuietBetweenCalls

\* Nothing is under way at first.
LEMMA LinkInit == Init => LinkInv
  BY DEF Init, LinkInv, OneExchange, ReadyMeansLinked, OwnExchangeOnly,
     QuietBetweenCalls

\* Every step keeps the invariant.
LEMMA LinkStep == TypeOK /\ LinkInv /\ [Next]_vars => LinkInv'
<1> SUFFICES ASSUME TypeOK, TypeOK', LinkInv, [Next]_vars PROVE LinkInv'
    BY TypeStep
<1> USE DEF TypeOK, Replies, Ends, LoseLink, KeepLink, MutexFree, LinkInv,
        OneExchange, ReadyMeansLinked, OwnExchangeOnly, QuietBetweenCalls
<1>1. ASSUME DialFails PROVE LinkInv'
    BY <1>1 DEF DialFails
<1>2. ASSUME Dial PROVE LinkInv'
    BY <1>2 DEF Dial, NextId
<1>3. ASSUME HealthReady PROVE LinkInv'
  <2>1. toClient \in Seq(Replies) /\ toClient # <<>>
      BY <1>3 DEF HealthReady, TypeOK
  <2> QED
      BY <1>3, <2>1, Pop, ChannelLength DEF HealthReady
<1>4. ASSUME HealthFails PROVE LinkInv'
    BY <1>4 DEF HealthFails
<1>5. ASSUME NEW c \in Callers, Ask(c) PROVE LinkInv'
    BY <1>5 DEF Ask
<1>6. ASSUME NEW c \in Callers, IsReady(c) PROVE LinkInv'
    BY <1>6 DEF IsReady
<1>7. ASSUME NEW c \in Callers, NotConnected(c) PROVE LinkInv'
    BY <1>7 DEF NotConnected
<1>8. ASSUME NEW c \in Callers, Send(c) PROVE LinkInv'
    BY <1>8 DEF Send, NextId
<1>9. ASSUME NEW c \in Callers, SendFails(c) PROVE LinkInv'
    BY <1>9 DEF SendFails, NextId
<1>10. ASSUME NEW c \in Callers, ReadResult(c) PROVE LinkInv'
  <2>1. toClient \in Seq(Replies) /\ toClient # <<>> /\ linked
      BY <1>10 DEF ReadResult, TypeOK
  <2>2. toServer = <<>> /\ toClient' = <<>> /\ toServer' = <<>>
      BY <1>10, <2>1, Pop, ChannelLength DEF ReadResult
  <2>3. linked' = linked /\ ready' = ready /\ boot' = boot
      BY <1>10 DEF ReadResult
  <2>4. \A d \in Callers : pc'[d] = "sent" => pc[d] = "sent" /\ d # c
      BY <1>10 DEF ReadResult
  <2>5. OneExchange'
      BY <2>3, <2>4
  <2>6. ReadyMeansLinked'
      BY <1>10, <2>2, <2>3, <2>4 DEF ReadResult
  <2>7. OwnExchangeOnly' /\ QuietBetweenCalls'
      BY <2>2, EmptySeq
  <2> QED
      BY <2>5, <2>6, <2>7
<1>11. ASSUME NEW c \in Callers, ReadError(c) PROVE LinkInv'
  <2>1. toClient \in Seq(Replies) /\ toClient # <<>> /\ linked
      BY <1>11 DEF ReadError, TypeOK
  <2>2. toServer = <<>> /\ toClient' = <<>> /\ toServer' = <<>>
      BY <1>11, <2>1, Pop, ChannelLength DEF ReadError
  <2>3. linked' = linked /\ ready' = ready /\ boot' = boot
      BY <1>11 DEF ReadError
  <2>4. \A d \in Callers : pc'[d] = "sent" => pc[d] = "sent" /\ d # c
      BY <1>11 DEF ReadError
  <2>5. OneExchange'
      BY <2>3, <2>4
  <2>6. ReadyMeansLinked'
      BY <1>11, <2>2, <2>3, <2>4 DEF ReadError
  <2>7. OwnExchangeOnly' /\ QuietBetweenCalls'
      BY <2>2, EmptySeq
  <2> QED
      BY <2>5, <2>6, <2>7
<1>12. ASSUME NEW c \in Callers, ReadGarbled(c) PROVE LinkInv'
  <2>1. toClient \in Seq(Replies) /\ toClient # <<>>
      BY <1>12 DEF ReadGarbled, TypeOK
  <2> QED
      BY <1>12, <2>1, Pop, ChannelLength DEF ReadGarbled
<1>13. ASSUME NEW c \in Callers, ReadTimeout(c) PROVE LinkInv'
    BY <1>13 DEF ReadTimeout
<1>14. ASSUME Close PROVE LinkInv'
    BY <1>14 DEF Close
<1>15. ASSUME Serve PROVE LinkInv'
  <2>1. toServer \in Seq(Ids) /\ toServer # <<>>
      BY <1>15 DEF Serve, TypeOK
  <2>2. Head(toServer) \in Ids /\ Head(toServer) = toServer[1] /\ Tail(toServer) \in Seq(Ids)
        /\ Len(Tail(toServer)) = Len(toServer) - 1 /\ Len(toServer) \in Nat \ {0}
        /\ (Len(Tail(toServer)) = 0 => Tail(toServer) = <<>>)
      BY <2>1, Pop
  <2>3. PICK k \in Kinds : toClient' = Append(toClient, [id |-> Head(toServer), kind |-> k])
      BY <1>15 DEF Serve
  <2> DEFINE r == [id |-> Head(toServer), kind |-> k]
  <2>4. r \in Replies /\ r.id = Head(toServer)
      BY <2>2, <2>3 DEF Replies
  <2>5. toClient \in Seq(Replies) /\ Len(toClient) \in Nat
      BY DEF TypeOK
  <2> HIDE DEF r
  <2>6. toClient' \in Seq(Replies) /\ Len(toClient') = Len(toClient) + 1
        /\ toClient'[Len(toClient) + 1] = r
      BY <2>3, <2>4, <2>5, AppendProperties DEF r
  <2> QED
      BY <1>15, <2>2, <2>4, <2>5, <2>6 DEF Serve
<1>16. ASSUME ServerEnds PROVE LinkInv'
    BY <1>16 DEF ServerEnds
<1>17. ASSUME UNCHANGED vars PROVE LinkInv'
    BY <1>17 DEF vars
<1> QED
    BY <1>1, <1>2, <1>3, <1>4, <1>5, <1>6, <1>7, <1>8, <1>9, <1>10, <1>11,
       <1>12, <1>13, <1>14, <1>15, <1>16, <1>17
    DEF Next, Connect, CallStep

-----------------------------------------------------------------------------
(* The theorems                                                            *)

\* Every variable of the client keeps its type.
THEOREM TypeCorrect == Spec => []TypeOK
<1> QED
    BY TypeInit, TypeStep, PTL DEF Spec

\* The inductive invariant holds in every behaviour.
THEOREM LinkSafe == Spec => []LinkInv
<1> QED
    BY LinkInit, LinkStep, TypeCorrect, PTL DEF Spec

\* Between two exchanges the connection in use is empty: no late answer waits
\* for the next caller (callConn gives the connection up on every failed read).
THEOREM NoLateAnswer == Spec => []QuietBetweenCalls
<1>1. LinkInv => QuietBetweenCalls
    BY DEF LinkInv
<1> QED
    BY <1>1, LinkSafe, PTL

\* Each step of the client is a step of RawRpc or changes nothing it shows.
LEMMA StepRefines ==
    TypeOK /\ LinkInv /\ LinkInv' /\ [Next]_vars => [Rpc!Next]_Rpc!vars
<1> SUFFICES ASSUME TypeOK, LinkInv, LinkInv', [Next]_vars
             PROVE [Rpc!Next]_Rpc!vars
    OBVIOUS
<1> USE DEF TypeOK, Ends, LoseLink, KeepLink, MutexFree, LinkInv, OneExchange,
        ReadyMeansLinked, OwnExchangeOnly, Rpc!Next, Rpc!vars
<1>1. ASSUME DialFails PROVE [Rpc!Next]_Rpc!vars
  <2>1. Rpc!Connected
      BY <1>1 DEF DialFails, Rpc!Connected
  <2> QED
      BY <2>1
<1>2. ASSUME Dial PROVE [Rpc!Next]_Rpc!vars
    BY <1>2 DEF Dial, NextId
<1>3. ASSUME HealthReady PROVE [Rpc!Next]_Rpc!vars
  <2>1. Rpc!Connected
      BY <1>3 DEF HealthReady, Rpc!Connected
  <2> QED
      BY <2>1
<1>4. ASSUME HealthFails PROVE [Rpc!Next]_Rpc!vars
  <2>1. Rpc!Connected
      BY <1>4 DEF HealthFails, Rpc!Connected
  <2> QED
      BY <2>1
<1>5. ASSUME NEW c \in Callers, Ask(c) PROVE [Rpc!Next]_Rpc!vars
  <2>1. Rpc!Ask(c)
      BY <1>5 DEF Ask, Rpc!Ask, Rpc!Ends
  <2> QED
      BY <2>1
<1>6. ASSUME NEW c \in Callers, IsReady(c) PROVE [Rpc!Next]_Rpc!vars
  <2>1. CASE ready /\ linked
      BY <1>6, <2>1 DEF IsReady
  <2>2. CASE ~(ready /\ linked)
    <3>1. Rpc!Skipped(c)
        BY <1>6, <2>2 DEF IsReady, Rpc!Skipped, Rpc!Ends
    <3> QED
        BY <3>1
  <2> QED
      BY <2>1, <2>2
<1>7. ASSUME NEW c \in Callers, NotConnected(c) PROVE [Rpc!Next]_Rpc!vars
  <2>1. Rpc!Failed(c)
      BY <1>7 DEF NotConnected, Rpc!Failed, Rpc!Ends
  <2> QED
      BY <2>1
<1>8. ASSUME NEW c \in Callers, Send(c) PROVE [Rpc!Next]_Rpc!vars
    BY <1>8 DEF Send, NextId
<1>9. ASSUME NEW c \in Callers, SendFails(c) PROVE [Rpc!Next]_Rpc!vars
  <2>1. Rpc!Failed(c)
      BY <1>9 DEF SendFails, NextId, Rpc!Failed, Rpc!Ends
  <2> QED
      BY <2>1
<1>10. ASSUME NEW c \in Callers, ReadResult(c) PROVE [Rpc!Next]_Rpc!vars
  <2>1. Head(toClient).id = rpcID
    <3>1. toClient \in Seq(Replies) /\ toClient # <<>>
        BY <1>10 DEF ReadResult
    <3>2. linked
        BY <1>10 DEF ReadResult
    <3>3. Head(toClient) = toClient[1] /\ Len(toClient) \in Nat \ {0}
        BY <3>1, Pop
    <3>4. Len(toServer) \in Nat
        BY ChannelLength
    <3>5. Len(toServer) + Len(toClient) <= 1 /\ (Len(toClient) = 1 => toClient[1].id = rpcID)
        BY <3>2
    <3>6. Len(toClient) = 1
      <4> DEFINE m == Len(toServer)
      <4> DEFINE n == Len(toClient)
      <4>1. m \in Nat /\ n \in Nat \ {0} /\ m + n <= 1
          BY <3>3, <3>4, <3>5
      <4> HIDE DEF m, n
      <4>2. n = 1
          BY <4>1
      <4> QED
          BY <4>2 DEF n
    <3>7. Head(toClient).id = toClient[1].id
        BY <3>3
    <3> QED
        BY <3>5, <3>6, <3>7
  <2>2. Rpc!Answered(c) \/ Rpc!Failed(c)
      BY <1>10, <2>1 DEF ReadResult, Rpc!Answered, Rpc!Failed, Rpc!Ends
  <2> QED
      BY <2>2
<1>11. ASSUME NEW c \in Callers, ReadError(c) PROVE [Rpc!Next]_Rpc!vars
  <2>1. Rpc!Failed(c)
      BY <1>11 DEF ReadError, Rpc!Failed, Rpc!Ends
  <2> QED
      BY <2>1
<1>12. ASSUME NEW c \in Callers, ReadGarbled(c) PROVE [Rpc!Next]_Rpc!vars
  <2>1. Rpc!Failed(c)
      BY <1>12 DEF ReadGarbled, Rpc!Failed, Rpc!Ends
  <2> QED
      BY <2>1
<1>13. ASSUME NEW c \in Callers, ReadTimeout(c) PROVE [Rpc!Next]_Rpc!vars
  <2>1. Rpc!Failed(c)
      BY <1>13 DEF ReadTimeout, Rpc!Failed, Rpc!Ends
  <2> QED
      BY <2>1
<1>14. ASSUME Close PROVE [Rpc!Next]_Rpc!vars
  <2>1. Rpc!Closed
      BY <1>14 DEF Close, Rpc!Closed
  <2> QED
      BY <2>1
<1>15. ASSUME Serve PROVE [Rpc!Next]_Rpc!vars
    BY <1>15 DEF Serve
<1>16. ASSUME ServerEnds PROVE [Rpc!Next]_Rpc!vars
    BY <1>16 DEF ServerEnds
<1>17. ASSUME UNCHANGED vars PROVE [Rpc!Next]_Rpc!vars
    BY <1>17 DEF vars
<1> QED
    BY <1>1, <1>2, <1>3, <1>4, <1>5, <1>6, <1>7, <1>8, <1>9, <1>10, <1>11,
       <1>12, <1>13, <1>14, <1>15, <1>16, <1>17
    DEF Next, Connect, CallStep

\* The client keeps RawRpc's promise: an own answer or an error, and a link that
\* never comes back.
THEOREM ImplementsRawRpc == Spec => RefinesRawRpc
<1>1. Init => Rpc!Init
    BY DEF Init, Rpc!Init
<1>2. TypeOK /\ LinkInv /\ LinkInv' /\ [Next]_vars => [Rpc!Next]_Rpc!vars
    BY StepRefines
<1> QED
    BY <1>1, <1>2, TypeCorrect, LinkSafe, PTL DEF Spec, RefinesRawRpc, Rpc!Spec
=============================================================================
