-------------------------- MODULE MenuInputProofs --------------------------
(***************************************************************************)
(* How much of the user's input the sessions that are over can take away   *)
(* from the panel, for every channel capacity and number of sessions.      *)
(***************************************************************************)
EXTENDS MenuInput, TLAPS

Kept(s) == IF held[s] = NoLine THEN 0 ELSE 1

\* A line stolen by a reader is still in its channel or in its hands; the
\* reader of a session that has not started or is running has stolen nothing.
Stuck ==
  \A s \in Sessions :
    /\ s > cur => stolen[s] = 0 /\ rpc[s] = "none"
    /\ Running(s) => stolen[s] = 0
    /\ stolen[s] <= Len(chan[s]) + Kept(s)

IInv == TypeOK /\ Stuck

\* Every variable of MenuInput keeps its type: one step per action.
LEMMA TypeStep == IInv /\ [Next]_vars => TypeOK'
<1> SUFFICES ASSUME IInv, [Next]_vars PROVE TypeOK'
  OBVIOUS
<1> USE MenuAssumption DEF IInv, TypeOK, Lines, Commands, NoLine, Sessions, place
<1>1. ASSUME NEW c \in Commands, Type(c) PROVE TypeOK'
  <2>1. Append(line, c) \in Seq(Commands) /\ Len(Append(line, c)) = Len(line) + 1
    OBVIOUS
  <2> QED
    BY <1>1, <2>1 DEF Type, readerVars
<1>2. CASE HangUp
  BY <1>2 DEF HangUp, readerVars
<1>3. CASE Copy
  <2>1. /\ Head(line) \in Commands /\ Tail(line) \in Seq(Commands)
        /\ Len(Tail(line)) <= Len(line)
    BY <1>3 DEF Copy
  <2> QED
    BY <1>3, <2>1 DEF Copy, readerVars
<1>4. CASE CopyEnds
  BY <1>4 DEF CopyEnds, readerVars
<1>5. CASE MenuRead
  BY <1>5 DEF MenuRead, readerVars
<1>6. CASE MenuEOF \/ DialFails \/ BridgeReturns
  BY <1>6 DEF MenuEOF, DialFails, BridgeReturns, inVars, readerVars
<1>7. CASE BridgeStarts
  <2>1. cur + 1 \in Sessions /\ rpc[cur + 1] = "none"
    BY <1>7 DEF BridgeStarts, Stuck
  <2>2. rpc' = [rpc EXCEPT ![cur + 1] = "read"] /\ UNCHANGED held
    BY <1>7 DEF BridgeStarts
  <2>3. \A s \in Sessions : held'[s] # NoLine <=> rpc'[s] = "send"
    BY <2>1, <2>2
  <2> QED
    BY <1>7, <2>1, <2>2, <2>3 DEF BridgeStarts, inVars
<1>8. ASSUME NEW s \in Sessions, SessionRead(s) PROVE TypeOK'
  BY <1>8 DEF SessionRead
<1>9. ASSUME NEW s \in Sessions, SessionEOF(s) PROVE TypeOK'
  BY <1>9 DEF SessionEOF, inVars
<1>10. ASSUME NEW s \in Sessions, SessionSend(s) PROVE TypeOK'
  <2>1. held[s] \in Commands
    BY <1>10 DEF SessionSend
  <2>2. Append(chan[s], held[s]) \in Seq(Commands) /\ Len(Append(chan[s], held[s])) = Len(chan[s]) + 1
    BY <2>1
  <2> QED
    BY <1>10, <2>2 DEF SessionSend, inVars
<1>11. ASSUME NEW s \in Sessions, Forward(s) PROVE TypeOK'
  <2>1. /\ Tail(chan[s]) \in Seq(Commands) /\ Len(Tail(chan[s])) <= Len(chan[s])
        /\ chan' = [chan EXCEPT ![s] = Tail(chan[s])] /\ loop' = "remote"
    BY <1>11 DEF Forward
  <2> QED
    BY <1>11, <2>1 DEF Forward, inVars
<1>13. CASE Output \/ WriteEnds("remote") \/ WriteEnds("user")
  BY <1>13 DEF Output, WriteEnds, inVars, readerVars
<1>12. CASE UNCHANGED vars
  BY <1>12 DEF vars
<1> QED
  BY <1>1, <1>2, <1>3, <1>4, <1>5, <1>6, <1>7, <1>8, <1>9, <1>10, <1>11, <1>12, <1>13 DEF Next

\* No action lets a finished session keep more than it holds.
LEMMA StuckStep == IInv /\ [Next]_vars => Stuck'
<1> SUFFICES ASSUME IInv, [Next]_vars, NEW e \in Sessions
             PROVE  /\ e > cur' => stolen'[e] = 0 /\ rpc'[e] = "none"
                    /\ Running(e)' => stolen'[e] = 0
                    /\ stolen'[e] <= Len(chan'[e]) + Kept(e)'
  BY DEF Stuck
<1> USE MenuAssumption DEF IInv, TypeOK, Stuck, Sessions, Kept, Running, place
<1>0. /\ stolen[e] \in Nat /\ chan[e] \in Seq(Commands) /\ Len(chan[e]) \in Nat /\ cur \in Nat
      /\ e > cur => stolen[e] = 0 /\ rpc[e] = "none"
      /\ Running(e) => stolen[e] = 0
      /\ stolen[e] <= Len(chan[e]) + Kept(e)
      /\ held[e] # NoLine <=> rpc[e] = "send"
  OBVIOUS
<1>1. CASE \/ \E c \in Commands : Type(c)
           \/ HangUp \/ Copy \/ CopyEnds \/ MenuRead \/ MenuEOF \/ DialFails
           \/ BridgeReturns \/ Output \/ WriteEnds("remote") \/ WriteEnds("user")
           \/ UNCHANGED vars
  <2>1. UNCHANGED <<cur, rpc, chan, held, stolen>>
    BY <1>1 DEF Type, HangUp, Copy, CopyEnds, MenuRead, MenuEOF, DialFails,
                BridgeReturns, Output, WriteEnds, vars, inVars, readerVars
  <2>2. Running(e)' => Running(e)
    BY <1>1 DEF Type, HangUp, Copy, CopyEnds, MenuRead, MenuEOF, DialFails,
                BridgeReturns, Output, WriteEnds, vars, inVars, readerVars
  <2> QED
    BY <1>0, <2>1, <2>2
<1>2. CASE BridgeStarts
  <2>1. /\ UNCHANGED <<chan, held, stolen>> /\ cur' = cur + 1
        /\ rpc' = [rpc EXCEPT ![cur + 1] = "read"]
    BY <1>2 DEF BridgeStarts
  <2>2. e > cur' => rpc'[e] = rpc[e]
    BY <1>0, <2>1
  <2>3. Running(e)' => stolen[e] = 0
    BY <1>0, <2>1
  <2> QED
    BY <1>0, <2>1, <2>2, <2>3
<1>3. ASSUME NEW s \in Sessions, SessionRead(s) PROVE
        /\ e > cur' => stolen'[e] = 0 /\ rpc'[e] = "none"
        /\ Running(e)' => stolen'[e] = 0
        /\ stolen'[e] <= Len(chan'[e]) + Kept(e)'
  <2>1. UNCHANGED <<cur, panel, chan>>
    BY <1>3 DEF SessionRead
  <2>2. CASE e = s
    <3>1. /\ rpc[e] = "read" /\ held[e] = NoLine /\ held'[e] # NoLine
          /\ stolen'[e] = IF Running(e) THEN stolen[e] ELSE stolen[e] + 1
      BY <1>3, <2>2 DEF SessionRead
    <3> QED
      BY <1>0, <2>1, <3>1
  <2>3. CASE e # s
    <3>1. rpc'[e] = rpc[e] /\ held'[e] = held[e] /\ stolen'[e] = stolen[e]
      BY <1>3, <2>3 DEF SessionRead
    <3> QED
      BY <1>0, <2>1, <3>1
  <2> QED
    BY <2>2, <2>3
<1>4. ASSUME NEW s \in Sessions, SessionEOF(s) PROVE
        /\ e > cur' => stolen'[e] = 0 /\ rpc'[e] = "none"
        /\ Running(e)' => stolen'[e] = 0
        /\ stolen'[e] <= Len(chan'[e]) + Kept(e)'
  <2>1. UNCHANGED <<cur, panel, chan, held, stolen>>
    BY <1>4 DEF SessionEOF, inVars
  <2>2. e > cur => rpc'[e] = "none"
    BY <1>0, <1>4 DEF SessionEOF
  <2> QED
    BY <1>0, <2>1, <2>2
<1>5. ASSUME NEW s \in Sessions, SessionSend(s) PROVE
        /\ e > cur' => stolen'[e] = 0 /\ rpc'[e] = "none"
        /\ Running(e)' => stolen'[e] = 0
        /\ stolen'[e] <= Len(chan'[e]) + Kept(e)'
  <2>1. UNCHANGED <<cur, panel, stolen>>
    BY <1>5 DEF SessionSend, inVars
  <2>2. CASE e = s
    <3>1. /\ rpc[e] = "send" /\ held'[e] = NoLine
          /\ Len(chan'[e]) = Len(chan[e]) + 1
      <4>1. held[e] \in Commands
        BY <1>5, <2>2 DEF SessionSend, Lines
      <4> QED
        BY <1>5, <2>2, <4>1 DEF SessionSend
    <3> QED
      BY <1>0, <2>1, <3>1
  <2>3. CASE e # s
    <3>1. rpc'[e] = rpc[e] /\ held'[e] = held[e] /\ chan'[e] = chan[e]
      BY <1>5, <2>3 DEF SessionSend
    <3> QED
      BY <1>0, <2>1, <3>1
  <2> QED
    BY <2>2, <2>3
<1>6. ASSUME NEW s \in Sessions, Forward(s) PROVE
        /\ e > cur' => stolen'[e] = 0 /\ rpc'[e] = "none"
        /\ Running(e)' => stolen'[e] = 0
        /\ stolen'[e] <= Len(chan'[e]) + Kept(e)'
  <2>1. UNCHANGED <<cur, panel, stolen, held, rpc>> /\ Running(s)
    BY <1>6 DEF Forward, inVars
  <2>2. CASE e = s
    <3>1. Tail(chan[e]) \in Seq(Commands) /\ chan'[e] = Tail(chan[e])
      BY <1>6, <2>2 DEF Forward
    <3>2. Len(chan'[e]) \in Nat /\ Kept(e)' \in Nat
      BY <3>1
    <3>3. stolen'[e] = 0 /\ cur' = cur /\ ~(e > cur)
      BY <1>0, <2>1, <2>2
    <3>4. stolen'[e] <= Len(chan'[e]) + Kept(e)'
      <4> HIDE DEF Kept
      <4> QED
        BY <3>2, <3>3
    <3> QED
      BY <3>3, <3>4
  <2>3. CASE e # s
    <3>1. chan'[e] = chan[e]
      BY <1>6, <2>3 DEF Forward
    <3> QED
      BY <1>0, <2>1, <3>1
  <2> QED
    BY <2>2, <2>3
<1> QED
  BY <1>1, <1>2, <1>3, <1>4, <1>5, <1>6 DEF Next

\* The inductive invariant of the panel's input.
THEOREM InvariantHolds == Spec => []IInv
<1>1. Init => IInv
  <2>1. <<>> \in Seq(Commands) /\ Len(<<>>) = 0
    OBVIOUS
  <2>2. ASSUME Init PROVE TypeOK
    <3>1. chan \in [Sessions -> Seq(Commands)] /\ \A s \in Sessions : Len(chan[s]) <= ChanCap
      BY <2>1, <2>2, MenuAssumption DEF Init
    <3>2. line \in Seq(Commands) /\ Len(line) <= MaxAhead
      BY <2>1, <2>2, MenuAssumption DEF Init
    <3>3. cur \in 0..MaxSessions /\ stolen \in [Sessions -> Nat]
      BY <2>2, MenuAssumption DEF Init
    <3>4. held \in [Sessions -> Lines] /\ pipe \in Lines
          /\ \A s \in Sessions : held[s] # NoLine <=> rpc[s] = "send"
      BY <2>2 DEF Init, Lines
    <3>5. rpc \in [Sessions -> {"none", "read", "send", "done"}]
          /\ panel \in {"menu", "dialing", "session", "left"}
          /\ gone \in BOOLEAN /\ copying \in BOOLEAN
          /\ loop \in {"select", "remote", "user"}
      BY <2>2 DEF Init
    <3> QED
      BY <3>1, <3>2, <3>3, <3>4, <3>5 DEF TypeOK
  <2>3. Init => Stuck
    BY <2>1 DEF Init, Stuck, Kept, Running, Sessions
  <2> QED
    BY <2>2, <2>3 DEF IInv
<1>2. IInv /\ [Next]_vars => IInv'
  BY TypeStep, StuckStep DEF IInv
<1> QED
  BY <1>1, <1>2, PTL DEF Spec

\* Every variable of MenuInput has its type, for every value of the constants.
THEOREM TypeCorrect == Spec => []TypeOK
<1>1. IInv => TypeOK
  BY DEF IInv
<1> QED
  BY <1>1, InvariantHolds, PTL

\* However long the user works, a finished session swallows at most the
\* capacity of its channel and one line more.
THEOREM StealingBounded == Spec => []StolenBound
<1>1. IInv => StolenBound
  <2> SUFFICES ASSUME IInv, NEW s \in Sessions
               PROVE  (s > cur => stolen[s] = 0) /\ stolen[s] <= ChanCap + 1
    BY DEF StolenBound
  <2>1. /\ stolen[s] \in Nat /\ Len(chan[s]) \in Nat /\ Len(chan[s]) <= ChanCap
        /\ stolen[s] <= Len(chan[s]) + Kept(s) /\ ChanCap \in Nat
    BY MenuAssumption DEF IInv, TypeOK, Stuck
  <2>2. Kept(s) \in {0, 1}
    BY DEF Kept
  <2> QED
    BY <2>1, <2>2 DEF IInv, Stuck
<1> QED
  BY <1>1, InvariantHolds, PTL

=============================================================================
