---------------------------- MODULE BridgeProofs ----------------------------
(***************************************************************************)
(* Theorems about Bridge, for every channel capacity, idle limit, window   *)
(* set and bound: the invariant that accounts for every chunk and every    *)
(* reason to stop, what follows from it, and that the bridge implements    *)
(* the relay.                                                              *)
(***************************************************************************)
EXTENDS Bridge, TLAPS

\* Taking the first element of a queue.
LEMMA HeadTail ==
  ASSUME NEW s \in Seq(Nat), s # <<>>
  PROVE  /\ Len(s) \in Nat /\ Len(s) >= 1 /\ Head(s) = s[1] /\ Head(s) \in Nat
         /\ Tail(s) \in Seq(Nat) /\ Len(Tail(s)) = Len(s) - 1
         /\ \A i \in 1..(Len(s) - 1) : Tail(s)[i] = s[i + 1]
  OBVIOUS

\* Every variable keeps its type: one step per action of Bridge.
LEMMA TypeStep == TypeOK /\ [Next]_vars => TypeOK'
<1> SUFFICES ASSUME TypeOK, [Next]_vars PROVE TypeOK'
  OBVIOUS
<1> USE BridgeAssumption DEF TypeOK, Sides
<1>1. ASSUME NEW d \in Sides, Emit(d) PROVE TypeOK'
  BY SMTT(30), <1>1 DEF Emit, envVars, readVars, chanVars, loopVars, timeVars, winVars
<1>2. ASSUME NEW d \in Sides, HangUp(d) PROVE TypeOK'
  BY <1>2 DEF HangUp, envVars, readVars, chanVars, loopVars, timeVars, winVars
<1>3. ASSUME Disconnect PROVE TypeOK'
  BY <1>3 DEF Disconnect, envVars, readVars, chanVars, loopVars, timeVars, winVars
<1>4. ASSUME CloseSrvConn PROVE TypeOK'
  BY <1>4 DEF CloseSrvConn, envVars, readVars, chanVars, loopVars, timeVars, winVars
<1>5. ASSUME NEW d \in Sides, Read(d) PROVE TypeOK'
  <2>1. read' \in [Sides -> Nat] /\ held' \in [Sides -> Nat]
    BY <1>5 DEF Read
  <2>2. rpc' \in [Sides -> {"read", "send", "exit", "close", "done"}]
    BY <1>5 DEF Read
  <2> QED
    BY <2>1, <2>2, <1>5 DEF Read, envVars, chanVars, loopVars, timeVars, winVars
<1>6. ASSUME NEW d \in Sides, ReadError(d) PROVE TypeOK'
  BY <1>6 DEF ReadError, AtEOF, envVars, readVars, chanVars, loopVars, timeVars, winVars
<1>7. ASSUME NEW d \in Sides, Send(d) PROVE TypeOK'
  <2>1. chan' \in [Sides -> Seq(Nat)]
    BY <1>7 DEF Send
  <2>2. \A e \in Sides : Len(chan'[e]) <= ChanCap
    BY SMTT(30), <1>7 DEF Send, HasRoom
  <2>3. held' \in [Sides -> Nat] /\ rpc' \in [Sides -> {"read", "send", "exit", "close", "done"}]
    BY <1>7 DEF Send
  <2> QED
    BY <2>1, <2>2, <2>3, <1>7 DEF Send, envVars, readVars, chanVars, loopVars, timeVars, winVars
<1>8. ASSUME NEW d \in Sides, SignalExit(d) PROVE TypeOK'
  BY <1>8 DEF SignalExit, ExitCap, envVars, readVars, chanVars, loopVars, timeVars, winVars
<1>9. ASSUME CloseChan PROVE TypeOK'
  BY <1>9 DEF CloseChan, envVars, readVars, chanVars, loopVars, timeVars, winVars
<1>10. ASSUME NEW d \in Sides, Take(d) PROVE TypeOK'
  <2>1. chan[d] \in Seq(Nat) /\ chan[d] # <<>>
    BY <1>10 DEF Take
  <2>2. /\ Head(chan[d]) \in Nat /\ Tail(chan[d]) \in Seq(Nat)
        /\ Len(Tail(chan[d])) = Len(chan[d]) - 1 /\ Len(chan[d]) \in Nat
    <3> HIDE DEF TypeOK
    <3> QED
      BY <2>1, HeadTail
  <2>3. chan' \in [Sides -> Seq(Nat)] /\ taken' \in [Sides -> Nat] /\ p' \in Nat
    BY <2>2, <1>10 DEF Take
  <2>4. \A e \in Sides : Len(chan'[e]) <= ChanCap
    <3>1. chan \in [Sides -> Seq(Nat)] /\ \A e \in Sides : Len(chan[e]) <= ChanCap
      OBVIOUS
    <3> HIDE DEF TypeOK
    <3>2. chan' = [chan EXCEPT ![d] = Tail(chan[d])]
      BY <1>10 DEF Take
    <3>3. Len(chan[d]) <= ChanCap
      BY <3>1
    <3> QED
      BY <2>2, <3>1, <3>2, <3>3
  <2> QED
    BY <2>3, <2>4, <1>10 DEF Take, envVars, readVars, timeVars, winVars
<1>11. ASSUME NEW d \in Sides, Write(d) PROVE TypeOK'
  <2>1. got' \in [Sides -> Nat]
    BY <1>11 DEF Write, Accepted, Fails
  <2>3. unread' \in [Sides -> 0..Window]
    <3>1. CASE Accepted(d)
      <4>1. unread[d] + 1 \in 0..Window
        <5>1. unread[d] \in 0..Window /\ Window \in Nat
          OBVIOUS
        <5> HIDE DEF TypeOK
        <5> QED
          BY <3>1, <5>1 DEF Accepted
      <4> QED
        BY <3>1, <4>1 DEF Accepted
    <3>2. CASE Fails(d)
      BY <3>2 DEF Fails
    <3> QED
      BY <3>1, <3>2, <1>11 DEF Write
  <2>4. /\ UNCHANGED <<sent, gone, ctxDone, rpc, read, held, chan, closed, exitSig, taken>>
        /\ UNCHANGED <<winUsr, winSrv, resizes>>
        /\ loop' = "select" /\ p' = 0 /\ idle' = 0
    BY <1>11 DEF Write, Touch, readVars, chanVars, winVars
  <2>5. tick' = {0} \/ tick' = {}
    <3> HIDE DEF TypeOK
    <3> QED
      BY <1>11 DEF Write, Touch
  <2>2. tick' \in SUBSET (0..(MaxIdle + 1)) /\ \A age1, age2 \in tick' : age1 = age2
    BY <2>5
  <2> QED
    BY <2>1, <2>2, <2>3, <2>4
<1>12. ASSUME ReturnClosed PROVE TypeOK'
  BY <1>12 DEF ReturnClosed, Return, envVars, readVars, chanVars, loopVars, timeVars, winVars
<1>13. ASSUME ReturnContext PROVE TypeOK'
  BY <1>13 DEF ReturnContext, Return, envVars, readVars, chanVars, loopVars, timeVars, winVars
<1>14. ASSUME ReturnSignal PROVE TypeOK'
  BY <1>14 DEF ReturnSignal, Return, envVars, readVars, chanVars, loopVars, timeVars, winVars
<1>15. ASSUME ReturnIdle PROVE TypeOK'
  BY <1>15 DEF ReturnIdle, Expired, envVars, readVars, chanVars, loopVars, timeVars, winVars
<1>16. ASSUME SkipTick PROVE TypeOK'
  BY <1>16 DEF SkipTick, Expired, envVars, readVars, chanVars, loopVars, timeVars, winVars
<1>17. ASSUME Elapse PROVE TypeOK'
  <2>1. idle' \in 0..(MaxIdle + 1)
    BY <1>17 DEF Elapse
  <2>2. tick' \in SUBSET (0..(MaxIdle + 1)) /\ \A age1, age2 \in tick' : age1 = age2
    BY <2>1, <1>17 DEF Elapse
  <2> QED
    BY <2>1, <2>2, <1>17 DEF Elapse, envVars, readVars, chanVars, loopVars, winVars
<1>18. ASSUME NEW w \in Sizes, ResizeSeen(w) PROVE TypeOK'
  BY <1>18 DEF ResizeSeen, Touch, envVars, readVars, chanVars, loopVars, timeVars, winVars
<1>19. ASSUME NEW w \in Sizes, ResizeMissed(w) PROVE TypeOK'
  BY <1>19 DEF ResizeMissed, envVars, readVars, chanVars, loopVars, timeVars, winVars
<1>21. ASSUME NEW d \in Sides, Consume(d) PROVE TypeOK'
  <2>1. unread' \in [Sides -> 0..Window]
    <3>1. unread \in [Sides -> 0..Window] /\ Window \in Nat
      OBVIOUS
    <3> HIDE DEF TypeOK
    <3> QED
      BY <3>1, <1>21 DEF Consume
  <2>2. UNCHANGED <<sent, gone, ctxDone, readVars, chanVars, loopVars, timeVars, winVars>>
    <3> HIDE DEF TypeOK
    <3> QED
      BY <1>21 DEF Consume
  <2> QED
    BY <2>1, <2>2 DEF readVars, chanVars, loopVars, timeVars, winVars
<1>20. CASE UNCHANGED vars
  BY <1>20 DEF vars, envVars, readVars, chanVars, loopVars, timeVars, winVars
<1> QED
  BY <1>1, <1>2, <1>3, <1>4, <1>5, <1>6, <1>7, <1>8, <1>9, <1>10, <1>11, <1>12, <1>13, <1>14, <1>15, <1>16, <1>17, <1>18, <1>19, <1>20, <1>21 DEF Next, Reader

\* A lane whose own chunks stay where they are keeps its order, whatever the
\* other lane and its source do meanwhile.
LEMMA LaneUnmoved ==
  ASSUME TypeOK, NEW e \in Sides, Lane(e),
         got'[e] = got[e], taken'[e] = taken[e], chan'[e] = chan[e],
         read'[e] = read[e], held'[e] = held[e], rpc'[e] = rpc[e],
         sent'[e] \in Nat, sent[e] <= sent'[e],
         gone' = gone, (loop' = e) <=> (loop = e), loop = e => p' = p
  PROVE  Lane(e)'
<1> USE DEF TypeOK, Sides, Peer, Lane, Buffered
<1>1. (got[e] <= taken[e])'
  OBVIOUS
<1>2. (~gone[Peer(e)] => got[e] = IF loop = e THEN taken[e] - 1 ELSE taken[e])'
  OBVIOUS
<1>3. (loop = e => p = taken[e] /\ got[e] < taken[e])'
  OBVIOUS
<1>4. (\A i \in 1..Len(chan[e]) : chan[e][i] = taken[e] + i)'
  OBVIOUS
<1>5. (read[e] = taken[e] + Len(chan[e]) + Buffered(e))'
  OBVIOUS
<1>6. (rpc[e] = "send" => held[e] = read[e])'
  OBVIOUS
<1>7. (read[e] <= sent[e])'
  <2>1. read[e] \in Nat /\ sent[e] \in Nat
    OBVIOUS
  <2> QED
    BY SMTT(30), <2>1
<1> QED
  BY <1>1, <1>2, <1>3, <1>4, <1>5, <1>6, <1>7

\* No step loses, repeats or reorders a chunk.
LEMMA AccountingStep == TypeOK /\ Accounting /\ [Next]_vars => Accounting'
<1> SUFFICES ASSUME TypeOK /\ Accounting, [Next]_vars PROVE Accounting'
  OBVIOUS
<1> USE BridgeAssumption DEF TypeOK, Sides, Peer, Accounting, Lane, Buffered
<1>1. ASSUME NEW d \in Sides, Emit(d) PROVE Accounting'
  <2> SUFFICES ASSUME NEW e \in Sides PROVE Lane(e)'
    BY DEF Accounting
  <2>1. sent[e] <= sent'[e] /\ sent[e] \in Nat /\ sent'[e] \in Nat
    BY SMTT(30), <1>1 DEF Emit
  <2>2. UNCHANGED <<got, taken, gone, loop, p, chan, read, rpc, held>>
    BY <1>1 DEF Emit, envVars, readVars, chanVars, loopVars, timeVars, winVars
  <2>8. Lane(e)
    <3> HIDE DEF TypeOK, Lane, Buffered, Peer
    <3> QED
      OBVIOUS
  <2>9. sent'[e] \in Nat /\ sent[e] <= sent'[e]
    BY SMTT(30), <2>1
  <2> HIDE DEF TypeOK, Lane, Accounting, Buffered, Peer
  <2> QED
    BY <2>1, <2>2, <2>8, <2>9, LaneUnmoved
<1>2. ASSUME NEW d \in Sides, HangUp(d) PROVE Accounting'
  BY <1>2 DEF HangUp, envVars, readVars, chanVars, loopVars, timeVars, winVars
<1>3. ASSUME Disconnect PROVE Accounting'
  BY <1>3 DEF Disconnect, envVars, readVars, chanVars, loopVars, timeVars, winVars
<1>4. ASSUME CloseSrvConn PROVE Accounting'
  BY <1>4 DEF CloseSrvConn, envVars, readVars, chanVars, loopVars, timeVars, winVars
<1>5. ASSUME NEW d \in Sides, Read(d) PROVE Accounting'
  <2> SUFFICES ASSUME NEW e \in Sides PROVE Lane(e)'
    BY DEF Accounting
  <2>1. UNCHANGED <<got, taken, gone, loop, p, chan, sent>>
    BY <1>5 DEF Read, envVars, readVars, chanVars, loopVars, timeVars, winVars
  <2>2. CASE e = d
    <3>1. read'[e] = read[e] + 1 /\ held'[e] = read[e] + 1 /\ rpc'[e] = "send"
      BY <1>5, <2>2 DEF Read
    <3>2. rpc[e] = "read" /\ read[e] < sent[e] /\ sent[e] \in Nat
      BY <1>5, <2>2 DEF Read
    <3>3. taken[e] \in Nat /\ read[e] \in Nat /\ Len(chan[e]) \in Nat /\ got[e] \in Nat
      OBVIOUS
    <3>4. (got[e] <= taken[e])'
      BY <2>1
    <3>5. (~gone[Peer(e)] => got[e] = IF loop = e THEN taken[e] - 1 ELSE taken[e])'
      BY <2>1
    <3>6. (loop = e => p = taken[e] /\ got[e] < taken[e])'
      BY <2>1
    <3>7. (\A i \in 1..Len(chan[e]) : chan[e][i] = taken[e] + i)'
      BY <2>1
    <3>8. (read[e] = taken[e] + Len(chan[e]) + Buffered(e))'
      <4>1. Buffered(e)' = 1 /\ Buffered(e) = 0
        BY <3>1, <3>2 DEF Buffered
      <4>2. read[e] = taken[e] + Len(chan[e]) + Buffered(e)
        OBVIOUS
      <4> QED
        BY <2>1, <3>1, <3>3, <4>1, <4>2
    <3>9. (rpc[e] = "send" => held[e] = read[e])'
      BY <3>1
    <3>10. (read[e] <= sent[e])'
      BY <2>1, <3>1, <3>2, <3>3
    <3> QED
      BY <3>4, <3>5, <3>6, <3>7, <3>8, <3>9, <3>10
  <2>3. CASE e # d
    <3>1. read'[e] = read[e] /\ held'[e] = held[e] /\ rpc'[e] = rpc[e]
      BY <1>5, <2>3 DEF Read
    <3>8. Lane(e)
      <4> HIDE DEF TypeOK, Lane, Buffered, Peer
      <4> QED
        OBVIOUS
    <3>9. sent'[e] \in Nat /\ sent[e] <= sent'[e]
      BY SMTT(30), <2>1
    <3> HIDE DEF TypeOK, Lane, Accounting, Buffered, Peer
    <3> QED
      BY <2>1, <3>1, <3>8, <3>9, LaneUnmoved
  <2> QED
    BY <2>2, <2>3
<1>6. ASSUME NEW d \in Sides, ReadError(d) PROVE Accounting'
  BY <1>6 DEF ReadError, AtEOF, envVars, readVars, chanVars, loopVars, timeVars, winVars
<1>7. ASSUME NEW d \in Sides, Send(d) PROVE Accounting'
  <2> SUFFICES ASSUME NEW e \in Sides PROVE Lane(e)'
    BY DEF Accounting
  <2>1. UNCHANGED <<got, taken, gone, loop, p, read, sent>>
    BY <1>7 DEF Send, envVars, readVars, chanVars, loopVars, timeVars, winVars
  <2>2. CASE e = d
    <3>1. chan'[e] = Append(chan[e], held[e]) /\ rpc'[e] = "read"
      BY <1>7, <2>2 DEF Send
    <3>2. rpc[e] = "send" /\ held[e] = taken[e] + Len(chan[e]) + 1
      BY <1>7, <2>2 DEF Send
    <3>3. chan[e] \in Seq(Nat) /\ held[e] \in Nat /\ Len(chan[e]) \in Nat
      OBVIOUS
    <3>4. Len(chan'[e]) = Len(chan[e]) + 1
      BY <3>1, <3>3
    <3>5. \A i \in 1..Len(chan'[e]) : chan'[e][i] = taken[e] + i
      <4>1. \A i \in 1..Len(chan[e]) : chan'[e][i] = chan[e][i]
        BY <3>1, <3>3
      <4>2. chan'[e][Len(chan[e]) + 1] = held[e]
        BY <3>1, <3>3
      <4>3. SUFFICES ASSUME NEW i \in 1..(Len(chan[e]) + 1)
                     PROVE  chan'[e][i] = taken[e] + i
        BY <3>4
      <4>6. taken[e] \in Nat
        OBVIOUS
      <4>4. CASE i = Len(chan[e]) + 1
        <5> HIDE DEF TypeOK, Accounting, Lane
        <5> QED
          BY <3>2, <3>3, <4>2, <4>4, <4>6
      <4>5. CASE i # Len(chan[e]) + 1
        <5>1. i \in 1..Len(chan[e])
          <6> HIDE DEF TypeOK, Accounting, Lane
          <6> QED
            BY <3>3, <4>5
        <5> QED
          BY <4>1, <5>1
      <4> QED
        BY <4>4, <4>5
    <3>6. taken[e] \in Nat /\ read[e] \in Nat /\ Len(chan[e]) \in Nat /\ got[e] \in Nat
      OBVIOUS
    <3>7. (got[e] <= taken[e])'
      BY <2>1
    <3>8. (~gone[Peer(e)] => got[e] = IF loop = e THEN taken[e] - 1 ELSE taken[e])'
      BY <2>1
    <3>9. (loop = e => p = taken[e] /\ got[e] < taken[e])'
      BY <2>1
    <3>10. (\A i \in 1..Len(chan[e]) : chan[e][i] = taken[e] + i)'
      BY <2>1, <3>5
    <3>11. (read[e] = taken[e] + Len(chan[e]) + Buffered(e))'
      <4>1. Buffered(e)' = 0 /\ Buffered(e) = 1
        BY <3>1, <3>2 DEF Buffered
      <4>2. read[e] = taken[e] + Len(chan[e]) + Buffered(e)
        OBVIOUS
      <4> QED
        BY <2>1, <3>4, <3>6, <4>1, <4>2
    <3>12. (rpc[e] = "send" => held[e] = read[e])'
      BY <3>1
    <3>13. (read[e] <= sent[e])'
      BY <2>1
    <3> QED
      BY <3>7, <3>8, <3>9, <3>10, <3>11, <3>12, <3>13
  <2>3. CASE e # d
    <3>1. chan'[e] = chan[e] /\ held'[e] = held[e] /\ rpc'[e] = rpc[e]
      BY <1>7, <2>3 DEF Send
    <3>8. Lane(e)
      <4> HIDE DEF TypeOK, Lane, Buffered, Peer
      <4> QED
        OBVIOUS
    <3>9. sent'[e] \in Nat /\ sent[e] <= sent'[e]
      BY SMTT(30), <2>1
    <3> HIDE DEF TypeOK, Lane, Accounting, Buffered, Peer
    <3> QED
      BY <2>1, <3>1, <3>8, <3>9, LaneUnmoved
  <2> QED
    BY <2>2, <2>3
<1>8. ASSUME NEW d \in Sides, SignalExit(d) PROVE Accounting'
  BY <1>8 DEF SignalExit, ExitCap, envVars, readVars, chanVars, loopVars, timeVars, winVars
<1>9. ASSUME CloseChan PROVE Accounting'
  BY <1>9 DEF CloseChan, envVars, readVars, chanVars, loopVars, timeVars, winVars
<1>10. ASSUME NEW d \in Sides, Take(d) PROVE Accounting'
  <2> SUFFICES ASSUME NEW e \in Sides PROVE Lane(e)'
    BY DEF Accounting
  <2>1. UNCHANGED <<got, gone, read, held, rpc, sent>> /\ loop = "select" /\ loop' = d
    BY <1>10 DEF Take, envVars, readVars, chanVars, loopVars, timeVars, winVars
  <2>2. CASE e = d
    <3>1. /\ chan'[e] = Tail(chan[e]) /\ taken'[e] = Head(chan[e]) /\ p' = Head(chan[e])
          /\ chan[e] \in Seq(Nat) /\ chan[e] # <<>>
      BY <1>10, <2>2 DEF Take
    <3>2. Len(chan[e]) \in Nat /\ Len(chan[e]) >= 1 /\ Head(chan[e]) = chan[e][1]
      <4> HIDE DEF TypeOK, Accounting
      <4> QED
        BY <3>1, HeadTail
    <3>3. taken'[e] = taken[e] + 1 /\ p' = taken[e] + 1
      <4>1. \A i \in 1..Len(chan[e]) : chan[e][i] = taken[e] + i
        OBVIOUS
      <4> HIDE DEF TypeOK, Accounting, Lane
      <4>2. chan[e][1] = taken[e] + 1
        BY <3>2, <4>1
      <4> QED
        BY <3>1, <3>2, <4>2
    <3>4. Len(chan'[e]) = Len(chan[e]) - 1
      <4> HIDE DEF TypeOK, Accounting
      <4> QED
        BY <3>1, HeadTail
    <3>5. \A i \in 1..Len(chan'[e]) : chan'[e][i] = taken'[e] + i
      <4>1. \A i \in 1..Len(chan'[e]) : chan'[e][i] = chan[e][i + 1]
        BY <3>1, <3>2
      <4>2. SUFFICES ASSUME NEW i \in 1..(Len(chan[e]) - 1)
                     PROVE  chan'[e][i] = taken'[e] + i
        BY <3>4
      <4>3. i + 1 \in 1..Len(chan[e]) /\ i \in Nat /\ taken[e] \in Nat
        BY SMTT(30), <3>2
      <4>4. chan'[e][i] = taken[e] + (i + 1)
        BY <3>4, <4>1, <4>3
      <4> HIDE DEF TypeOK, Accounting, Lane, Buffered
      <4> QED
        BY <3>3, <4>3, <4>4
    <3>6. taken[e] \in Nat /\ read[e] \in Nat /\ Len(chan[e]) \in Nat /\ got[e] \in Nat
      OBVIOUS
    <3>7. loop # e /\ loop' = e /\ gone' = gone /\ got'[e] = got[e] /\ read'[e] = read[e]
      BY <2>1, <2>2
    <3>8. (~gone[Peer(e)] => got[e] = taken[e]) /\ got[e] <= taken[e]
      BY <3>7
    <3>9. read[e] = taken[e] + Len(chan[e]) + Buffered(e) /\ Buffered(e)' = Buffered(e)
      BY <2>1
    <3>10. Buffered(e) \in Nat
      OBVIOUS
    <3>11. (got[e] <= taken[e])'
      <4> HIDE DEF TypeOK, Accounting, Lane, Buffered
      <4> QED
        BY <3>3, <3>6, <3>7, <3>8
    <3>12. (~gone[Peer(e)] => got[e] = IF loop = e THEN taken[e] - 1 ELSE taken[e])'
      <4> HIDE DEF TypeOK, Accounting, Lane, Buffered
      <4> QED
        BY <3>3, <3>6, <3>7, <3>8
    <3>13. (loop = e => p = taken[e] /\ got[e] < taken[e])'
      <4> HIDE DEF TypeOK, Accounting, Lane, Buffered
      <4> QED
        BY <3>3, <3>6, <3>7, <3>8
    <3>14. (\A i \in 1..Len(chan[e]) : chan[e][i] = taken[e] + i)'
      BY <3>5
    <3>15. (read[e] = taken[e] + Len(chan[e]) + Buffered(e))'
      <4>1. taken'[e] + Len(chan'[e]) = taken[e] + Len(chan[e])
        <5> HIDE DEF Buffered, Lane, Accounting, TypeOK
        <5> QED
          BY <3>3, <3>4, <3>6
      <4> HIDE DEF Buffered, Lane, Accounting, TypeOK
      <4> QED
        BY <3>7, <3>9, <4>1
    <3>16. (rpc[e] = "send" => held[e] = read[e])'
      BY <2>1
    <3>17. (read[e] <= sent[e])'
      BY <2>1
    <3> QED
      BY <3>11, <3>12, <3>13, <3>14, <3>15, <3>16, <3>17
  <2>3. CASE e # d
    <3>1. chan'[e] = chan[e] /\ taken'[e] = taken[e]
      BY <1>10, <2>3 DEF Take
    <3>2. loop # e /\ loop' # e
      BY <2>1, <2>3
    <3>8. Lane(e)
      <4> HIDE DEF TypeOK, Lane, Buffered, Peer
      <4> QED
        OBVIOUS
    <3>9. sent'[e] \in Nat /\ sent[e] <= sent'[e]
      BY SMTT(30), <2>1
    <3> HIDE DEF TypeOK, Lane, Accounting, Buffered, Peer
    <3> QED
      BY <2>1, <3>1, <3>2, <3>8, <3>9, LaneUnmoved
  <2> QED
    BY <2>2, <2>3
<1>11. ASSUME NEW d \in Sides, Write(d) PROVE Accounting'
  <2> SUFFICES ASSUME NEW e \in Sides PROVE Lane(e)'
    BY DEF Accounting
  <2>1. UNCHANGED <<taken, gone, chan, read, held, rpc, sent>> /\ loop = d /\ loop' = "select"
    BY <1>11 DEF Write, envVars, readVars, chanVars, loopVars, timeVars, winVars
  <2>2. CASE e = d
    <3>1. p = taken[e] /\ got[e] < taken[e]
      BY <2>1, <2>2
    <3>2. got'[e] = IF gone[Peer(e)] THEN got[e] ELSE taken[e]
      BY <1>11, <2>2, <3>1 DEF Write, Accepted, Fails
    <3>3. chan'[e] = chan[e] /\ (\A i \in 1..Len(chan[e]) : chan[e][i] = taken[e] + i)'
      BY <2>1
    <3>4. (got[e] <= taken[e])'
      BY SMTT(30), <2>1, <3>1, <3>2
    <3>5. (~gone[Peer(e)] => got[e] = IF loop = e THEN taken[e] - 1 ELSE taken[e])'
      BY <2>1, <3>1, <3>2
    <3>6. (loop = e => p = taken[e] /\ got[e] < taken[e])'
      BY <2>1, <3>1, <3>2
    <3>7. (read[e] = taken[e] + Len(chan[e]) + Buffered(e))'
      BY <2>1, <3>1, <3>2
    <3>8. (rpc[e] = "send" => held[e] = read[e])'
      BY <2>1, <3>1, <3>2
    <3>9. (read[e] <= sent[e])'
      BY <2>1, <3>1, <3>2
    <3> QED
      BY <3>4, <3>5, <3>6, <3>7, <3>8, <3>9, <3>3
  <2>3. CASE e # d
    <3>1. got'[e] = got[e] /\ loop # e
      BY <1>11, <2>1, <2>3 DEF Write, Accepted, Fails
    <3>8. Lane(e)
      <4> HIDE DEF TypeOK, Lane, Buffered, Peer
      <4> QED
        OBVIOUS
    <3>9. sent'[e] \in Nat /\ sent[e] <= sent'[e]
      BY SMTT(30), <2>1
    <3> HIDE DEF TypeOK, Lane, Accounting, Buffered, Peer
    <3> QED
      BY <2>1, <3>1, <3>8, <3>9, LaneUnmoved
  <2> QED
    BY <2>2, <2>3
<1>12. ASSUME ReturnClosed PROVE Accounting'
  BY <1>12 DEF ReturnClosed, Return, envVars, readVars, chanVars, loopVars, timeVars, winVars
<1>13. ASSUME ReturnContext PROVE Accounting'
  BY <1>13 DEF ReturnContext, Return, envVars, readVars, chanVars, loopVars, timeVars, winVars
<1>14. ASSUME ReturnSignal PROVE Accounting'
  BY <1>14 DEF ReturnSignal, Return, envVars, readVars, chanVars, loopVars, timeVars, winVars
<1>15. ASSUME ReturnIdle PROVE Accounting'
  BY <1>15 DEF ReturnIdle, Expired, envVars, readVars, chanVars, loopVars, timeVars, winVars
<1>16. ASSUME SkipTick PROVE Accounting'
  BY <1>16 DEF SkipTick, Expired, envVars, readVars, chanVars, loopVars, timeVars, winVars
<1>17. ASSUME Elapse PROVE Accounting'
  BY <1>17 DEF Elapse, envVars, readVars, chanVars, loopVars, timeVars, winVars
<1>18. ASSUME NEW w \in Sizes, ResizeSeen(w) PROVE Accounting'
  BY <1>18 DEF ResizeSeen, Touch, envVars, readVars, chanVars, loopVars, timeVars, winVars
<1>19. ASSUME NEW w \in Sizes, ResizeMissed(w) PROVE Accounting'
  BY <1>19 DEF ResizeMissed, envVars, readVars, chanVars, loopVars, timeVars, winVars
<1>21. ASSUME NEW d \in Sides, Consume(d) PROVE Accounting'
  BY <1>21 DEF Consume, envVars, readVars, chanVars, loopVars, timeVars, winVars
<1>20. CASE UNCHANGED vars
  BY <1>20 DEF vars, envVars, readVars, chanVars, loopVars, timeVars, winVars
<1> QED
  BY <1>1, <1>2, <1>3, <1>4, <1>5, <1>6, <1>7, <1>8, <1>9, <1>10, <1>11, <1>12, <1>13, <1>14, <1>15, <1>16, <1>17, <1>18, <1>19, <1>20, <1>21 DEF Next, Reader

\* No step makes a reason to stop out of nothing.
LEMMA CausesStep == IInv /\ [Next]_vars => Causes'
<1> SUFFICES ASSUME IInv, [Next]_vars PROVE Causes'
  OBVIOUS
<1> USE BridgeAssumption DEF IInv, TypeOK, Sides, Causes, Accounting, Lane, Buffered, Stopped, Signalled
<1>1. ASSUME NEW d \in Sides, Emit(d) PROVE Causes'
  BY <1>1 DEF Emit, envVars, readVars, chanVars, loopVars, timeVars, winVars
<1>2. ASSUME NEW d \in Sides, HangUp(d) PROVE Causes'
  BY <1>2 DEF HangUp, envVars, readVars, chanVars, loopVars, timeVars, winVars
<1>3. ASSUME Disconnect PROVE Causes'
  BY <1>3 DEF Disconnect, envVars, readVars, chanVars, loopVars, timeVars, winVars
<1>4. ASSUME CloseSrvConn PROVE Causes'
  BY <1>4 DEF CloseSrvConn, envVars, readVars, chanVars, loopVars, timeVars, winVars
<1>5. ASSUME NEW d \in Sides, Read(d) PROVE Causes'
  BY <1>5 DEF Read, envVars, readVars, chanVars, loopVars, timeVars, winVars
<1>6. ASSUME NEW d \in Sides, ReadError(d) PROVE Causes'
  BY <1>6 DEF ReadError, AtEOF, envVars, readVars, chanVars, loopVars, timeVars, winVars
<1>7. ASSUME NEW d \in Sides, Send(d) PROVE Causes'
  BY <1>7 DEF Send, HasRoom, envVars, readVars, chanVars, loopVars, timeVars, winVars
<1>8. ASSUME NEW d \in Sides, SignalExit(d) PROVE Causes'
  BY <1>8 DEF SignalExit, ExitCap, envVars, readVars, chanVars, loopVars, timeVars, winVars
<1>9. ASSUME CloseChan PROVE Causes'
  BY <1>9 DEF CloseChan, envVars, readVars, chanVars, loopVars, timeVars, winVars
<1>10. ASSUME NEW d \in Sides, Take(d) PROVE Causes'
  BY <1>10 DEF Take, envVars, readVars, chanVars, loopVars, timeVars, winVars
<1>11. ASSUME NEW d \in Sides, Write(d) PROVE Causes'
  BY <1>11 DEF Write, Accepted, Fails, Touch, envVars, readVars, chanVars, loopVars, timeVars, winVars
<1>12. ASSUME ReturnClosed PROVE Causes'
  BY <1>12 DEF ReturnClosed, Return, envVars, readVars, chanVars, loopVars, timeVars, winVars
<1>13. ASSUME ReturnContext PROVE Causes'
  BY <1>13 DEF ReturnContext, Return, envVars, readVars, chanVars, loopVars, timeVars, winVars
<1>14. ASSUME ReturnSignal PROVE Causes'
  BY <1>14 DEF ReturnSignal, Return, envVars, readVars, chanVars, loopVars, timeVars, winVars
<1>15. ASSUME ReturnIdle PROVE Causes'
  BY <1>15 DEF ReturnIdle, Expired, envVars, readVars, chanVars, loopVars, timeVars, winVars
<1>16. ASSUME SkipTick PROVE Causes'
  BY <1>16 DEF SkipTick, Expired, envVars, readVars, chanVars, loopVars, timeVars, winVars
<1>17. ASSUME Elapse PROVE Causes'
  BY SMTT(30), <1>17 DEF Elapse, envVars, readVars, chanVars, loopVars, timeVars, winVars
<1>18. ASSUME NEW w \in Sizes, ResizeSeen(w) PROVE Causes'
  BY <1>18 DEF ResizeSeen, Touch, envVars, readVars, chanVars, loopVars, timeVars, winVars
<1>19. ASSUME NEW w \in Sizes, ResizeMissed(w) PROVE Causes'
  BY <1>19 DEF ResizeMissed, envVars, readVars, chanVars, loopVars, timeVars, winVars
<1>21. ASSUME NEW d \in Sides, Consume(d) PROVE Causes'
  BY <1>21 DEF Consume, envVars, readVars, chanVars, loopVars, timeVars, winVars
<1>20. CASE UNCHANGED vars
  BY <1>20 DEF vars, envVars, readVars, chanVars, loopVars, timeVars, winVars
<1> QED
  BY <1>1, <1>2, <1>3, <1>4, <1>5, <1>6, <1>7, <1>8, <1>9, <1>10, <1>11, <1>12, <1>13, <1>14, <1>15, <1>16, <1>17, <1>18, <1>19, <1>20, <1>21 DEF Next, Reader

\* The invariant holds when Bridge is entered.
LEMMA InitInv == Init => IInv
<1> USE BridgeAssumption DEF Init, Sides
<1>1. Init => TypeOK
  <2> SUFFICES ASSUME Init PROVE TypeOK
    OBVIOUS
  <2>1. <<>> \in Seq(Nat) /\ Len(<<>>) = 0
    OBVIOUS
  <2>2. chan \in [Sides -> Seq(Nat)] /\ \A d \in Sides : Len(chan[d]) <= ChanCap
    BY <2>1
  <2>3. idle \in 0..(MaxIdle + 1) /\ resizes \in 0..MaxResizes
    OBVIOUS
  <2>4. tick \in SUBSET (0..(MaxIdle + 1)) /\ \A age1, age2 \in tick : age1 = age2
    OBVIOUS
  <2>5. sent \in [Sides -> 0..MaxChunks]
    OBVIOUS
  <2> QED
    BY <2>2, <2>3, <2>4, <2>5 DEF TypeOK
<1>2. Init => Accounting
  BY DEF Accounting, Lane, Buffered
<1>3. Init => Causes
  BY DEF Causes, Stopped, Signalled
<1> QED
  BY <1>1, <1>2, <1>3 DEF IInv

\* Every variable of Bridge keeps its type, for every value of the constants.
THEOREM TypeCorrect == Spec => []TypeOK
<1>1. Init => TypeOK
  BY InitInv DEF IInv
<1> QED
  BY <1>1, TypeStep, PTL DEF Spec

\* Every chunk is in one place and in order, and every reason to stop has a
\* cause: the inductive invariant all the other theorems rest on.
THEOREM InvariantHolds == Spec => []IInv
<1>1. IInv /\ [Next]_vars => IInv'
  BY TypeStep, AccountingStep, CausesStep DEF IInv
<1> QED
  BY <1>1, InitInv, PTL DEF Spec

\* No chunk is lost, repeated or reordered between the readers and the peers.
THEOREM NothingReordered == Spec => []Accounting
<1>1. IInv => Accounting
  BY DEF IInv
<1> QED
  BY <1>1, InvariantHolds, PTL

\* Everything that makes the loop return has a cause outside it.
THEOREM ReasonsHaveCauses == Spec => []Causes
<1>1. IInv => Causes
  BY DEF IInv
<1> QED
  BY <1>1, InvariantHolds, PTL

\* A reader holds back, and a session that ended swallows, at most what the
\* channel and the reader's buffer hold.
THEOREM BoundedLoss == Spec => []LossBound
<1>1. IInv => LossBound
  <2> SUFFICES ASSUME IInv, NEW d \in Sides
               PROVE  read[d] <= taken[d] + ChanCap + 1
    BY DEF LossBound
  <2>1. /\ read[d] = taken[d] + Len(chan[d]) + Buffered(d)
        /\ Len(chan[d]) <= ChanCap
        /\ taken[d] \in Nat /\ Len(chan[d]) \in Nat /\ ChanCap \in Nat
    BY BridgeAssumption DEF IInv, Accounting, Lane, TypeOK
  <2>2. Buffered(d) \in {0, 1}
    BY DEF Buffered
  <2> QED
    BY <2>1, <2>2
<1> QED
  BY <1>1, InvariantHolds, PTL

\* A reader that stops never blocks on exitSignal: two readers, two slots.
THEOREM ReadersExit == Spec => []ExitNeverBlocks
<1>1. IInv => ExitNeverBlocks
  <2> SUFFICES ASSUME IInv, NEW d \in Sides, rpc[d] = "exit"
               PROVE  exitSig < ExitCap
    BY DEF ExitNeverBlocks
  <2> QED
    BY DEF IInv, TypeOK, Causes, Signalled, Sides, ExitCap
<1> QED
  BY <1>1, InvariantHolds, PTL

\* A step that makes the loop return starts from the select, changes nothing
\* the parties see, and happens only when a party left or nothing moved.
LEMMA ReturnStep ==
  ASSUME IInv, Next, loop # "returned", loop' = "returned"
  PROVE  /\ loop = "select"
         /\ UNCHANGED <<sent, got, gone, idle>>
         /\ (\E d \in Sides : gone[d]) \/ idle > MaxIdle
<1> USE BridgeAssumption DEF IInv, TypeOK, Sides
<1>1. CASE ReturnClosed
  <2>1. gone["srv"]
    BY <1>1 DEF ReturnClosed, Causes, Stopped
  <2> QED
    BY <1>1, <2>1 DEF ReturnClosed, Return, envVars, readVars, chanVars, loopVars, timeVars, winVars
<1>2. CASE ReturnContext
  <2>1. gone["usr"]
    BY <1>2 DEF ReturnContext, Causes
  <2> QED
    BY <1>2, <2>1 DEF ReturnContext, Return, envVars, readVars, chanVars, loopVars, timeVars, winVars
<1>3. CASE ReturnSignal
  <2>1. \E d \in Sides : Stopped(d)
    BY <1>3 DEF ReturnSignal, Causes, Signalled, Stopped
  <2>2. \E d \in Sides : gone[d]
    BY <2>1 DEF Causes
  <2> QED
    BY <1>3, <2>2 DEF ReturnSignal, Return, envVars, readVars, chanVars, loopVars, timeVars, winVars
<1>4. CASE ReturnIdle
  <2>1. idle > MaxIdle
    BY <1>4 DEF ReturnIdle, Expired, Causes
  <2> QED
    BY <1>4, <2>1 DEF ReturnIdle, envVars, readVars, chanVars, loopVars, timeVars, winVars
<1>5. ReturnClosed \/ ReturnContext \/ ReturnSignal \/ ReturnIdle
  BY DEF Next, Reader, Emit, HangUp, Consume, Disconnect, CloseSrvConn, Read, ReadError, Send,
         SignalExit, CloseChan, Take, Write, SkipTick, Elapse, ResizeSeen,
         ResizeMissed, envVars, readVars, chanVars, loopVars, timeVars, winVars
<1> QED
  BY <1>1, <1>2, <1>3, <1>4, <1>5

\* When the remote shell has ended and the user still reads, returning cuts
\* off at most the contents of srvInChan.
THEOREM TailBounded == Spec => TailLoss
<1>1. IInv /\ [Next]_vars =>
        (loop # "returned" /\ loop' = "returned" /\ ~gone["usr"]
           /\ rpc["srv"] \in {"close", "done"}
         => sent["srv"] <= got["srv"] + ChanCap)
  <2> SUFFICES ASSUME IInv, [Next]_vars, loop # "returned", loop' = "returned",
                      ~gone["usr"], rpc["srv"] \in {"close", "done"}
               PROVE  sent["srv"] <= got["srv"] + ChanCap
    OBVIOUS
  <2>1. loop = "select"
    BY ReturnStep DEF vars, loopVars
  <2>2. got["srv"] = taken["srv"]
    BY <2>1 DEF IInv, Accounting, Lane, Sides, Peer
  <2>3. read["srv"] = sent["srv"] /\ rpc["srv"] # "send"
    BY DEF IInv, Causes, Stopped, Sides
  <2>4. read["srv"] = taken["srv"] + Len(chan["srv"])
    BY <2>3 DEF IInv, TypeOK, Accounting, Lane, Buffered, Sides
  <2>5. Len(chan["srv"]) <= ChanCap /\ Len(chan["srv"]) \in Nat /\ taken["srv"] \in Nat
        /\ ChanCap \in Nat
    BY BridgeAssumption DEF IInv, TypeOK, Sides
  <2> QED
    BY <2>2, <2>3, <2>4, <2>5
<1> QED
  BY <1>1, InvariantHolds, PTL DEF Spec, TailLoss

\* A chunk that reaches its peer is the next one the relay owes it.
LEMMA WriteStep ==
  ASSUME IInv, NEW d \in Sides, Write(d)
  PROVE  [R!Next]_(R!vars)
<1> USE BridgeAssumption DEF Sides, R!Sides, Peer, R!Peer
<1>1. /\ idle' = 0 /\ UNCHANGED <<sent, gone>>
      /\ loop # "returned" /\ loop' # "returned"
  BY DEF Write, Touch, envVars, readVars, chanVars, loopVars, timeVars, winVars
<1>2. CASE gone[Peer(d)]
  <2>1. R!Stir
    BY <1>1, <1>2 DEF Write, Accepted, Fails, Peer, R!Stir
  <2> QED
    BY <2>1 DEF R!Next
<1>3. CASE ~gone[Peer(d)]
  <2>1. /\ got' = [got EXCEPT ![d] = p] /\ p = taken[d] /\ loop = d
        /\ got[d] = taken[d] - 1 /\ read[d] <= sent[d]
        /\ read[d] = taken[d] + Len(chan[d]) + Buffered(d)
    BY <1>3 DEF Write, Accepted, Fails, IInv, Accounting, Lane
  <2>2. /\ got[d] \in Nat /\ taken[d] \in Nat /\ Len(chan[d]) \in Nat
        /\ sent[d] \in Nat /\ read[d] \in Nat /\ Buffered(d) \in Nat
    BY DEF IInv, TypeOK, Buffered
  <2>3. got[d] < sent[d] /\ got' = [got EXCEPT ![d] = got[d] + 1]
    <3>1. taken[d] <= read[d]
      BY <2>1, <2>2
    <3>2. p = got[d] + 1
      BY <2>1, <2>2
    <3>3. got[d] < sent[d]
      BY <2>1, <2>2, <3>1
    <3> QED
      BY <2>1, <3>2, <3>3
  <2>4. R!Deliver(d)
    BY <1>1, <1>3, <2>3 DEF R!Deliver
  <2> QED
    BY <2>4 DEF R!Next
<1> QED
  BY <1>2, <1>3

\* The bridge implements the relay: in-order delivery without a gap, nothing
\* after the end, an end only after a hang-up or a real silence.
THEOREM BridgeRelays == Spec => RelayImplemented
<1>1. Init => R!Init
  BY DEF Init, R!Init, Sides, R!Sides
<1>2. IInv /\ [Next]_vars => [R!Next]_(R!vars)
  <2> SUFFICES ASSUME IInv, [Next]_vars PROVE [R!Next]_(R!vars)
    OBVIOUS
  <2> USE DEF Sides, R!Sides
  <2>1. CASE \E d \in Sides : Emit(d)
    <3>1. \E d \in Sides : R!Emit(d)
      BY <2>1 DEF Emit, R!Emit, envVars, readVars, chanVars, loopVars, timeVars, winVars
    <3> QED
      BY <3>1 DEF R!Next
  <2>2. CASE (\E d \in Sides : HangUp(d)) \/ CloseSrvConn
    <3>1. \E d \in Sides : R!Leave(d)
      BY <2>2 DEF HangUp, CloseSrvConn, R!Leave, envVars, readVars, chanVars, loopVars, timeVars, winVars
    <3> QED
      BY <3>1 DEF R!Next
  <2>3. CASE Disconnect
    <3>1. R!Leave("usr") \/ UNCHANGED R!vars
      BY <2>3 DEF Disconnect, R!Leave, R!vars, IInv, TypeOK, envVars, readVars, chanVars, loopVars, timeVars, winVars
    <3> QED
      BY <3>1 DEF R!Next
  <2>4. CASE \/ \E d \in Sides : Reader(d) \/ Take(d) \/ Consume(d)
             \/ CloseChan \/ SkipTick \/ UNCHANGED vars
             \/ \E w \in Sizes : ResizeMissed(w)
    BY <2>4 DEF Reader, Consume, Read, ReadError, Send, SignalExit, CloseChan, Take, SkipTick,
                ResizeMissed, R!vars, vars, envVars, readVars, chanVars, loopVars, timeVars, winVars
  <2>5. CASE \E d \in Sides : Write(d)
    BY <2>5, WriteStep
  <2>6. CASE Elapse
    <3>1. R!Wait \/ UNCHANGED R!vars
      BY <2>6 DEF Elapse, R!Wait, R!vars, envVars, readVars, chanVars, loopVars, timeVars, winVars
    <3> QED
      BY <3>1 DEF R!Next
  <2>7. CASE \E w \in Sizes : ResizeSeen(w)
    <3>1. R!Stir
      BY <2>7 DEF ResizeSeen, Touch, R!Stir, envVars, readVars, chanVars, loopVars, timeVars, winVars
    <3> QED
      BY <3>1 DEF R!Next
  <2>8. CASE ReturnClosed \/ ReturnContext \/ ReturnSignal \/ ReturnIdle
    <3>1. Next /\ loop # "returned" /\ loop' = "returned"
      BY <2>8 DEF Next, ReturnClosed, ReturnContext, ReturnSignal, ReturnIdle, Return
    <3>2. R!Finish
      BY <3>1, ReturnStep DEF R!Finish
    <3> QED
      BY <3>2 DEF R!Next
  <2> QED
    BY <2>1, <2>2, <2>3, <2>4, <2>5, <2>6, <2>7, <2>8 DEF Next
<1> QED
  BY <1>1, <1>2, InvariantHolds, PTL DEF Spec, RelayImplemented, R!Spec

=============================================================================
