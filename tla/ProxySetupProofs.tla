-------------------------- MODULE ProxySetupProofs --------------------------
(***************************************************************************)
(* Theorems about ProxySetup, for every set of concurrent sessions.        *)
(***************************************************************************)
EXTENDS ProxySetup, TLAPS

Early == {"idle", "dial", "flag", "clear", "acquire"}

\* What the spinner has left to write, and what has told it to stop.
Screen(s) ==
  /\ pc[s] \in {"clear", "acquire", "shell", "bridge", "close"} => flag[s]
  /\ pc[s] \in {"remove", "over"} => ch[s]
  /\ cleared[s] => flag[s] \/ ch[s]
  /\ stale[s] > 0 => spin[s] \in {"check", "done"} /\ cleared[s]
  /\ stale[s] <= 1
  /\ pc[s] = "idle" => spin[s] = "none"

\* Who has to release the shell.
Owned(s) ==
  /\ pc[s] \in Early => ~trace[s] /\ waiter[s] = "none"
  /\ pc[s] = "shell" => trace[s] /\ waiter[s] = "none"
  /\ waiter[s] = "wait" => trace[s]
  /\ trace[s] => pc[s] = "shell" \/ waiter[s] = "wait"
  /\ shell[s] => trace[s]
  /\ refs[s] = IF trace[s] THEN 1 ELSE 0

\* Sessions that run side by side know it.
Beside ==
  \A s, t \in Session : Live(s) /\ Live(t) /\ s # t => s \in crowded

EntryRight(s) ==
  /\ entry = s => Live(s)
  /\ Live(s) /\ s \notin crowded => entry = s

IInv ==
  /\ TypeOK /\ RegistrySound /\ Beside
  /\ \A s \in Session : Screen(s) /\ Owned(s)

\* Every variable of ProxySetup keeps its type.
LEMMA TypeStep == IInv /\ [Next]_vars => TypeOK'
<1> SUFFICES ASSUME IInv, [Next]_vars PROVE TypeOK'
  OBVIOUS
<1> USE SetupAssumption DEF IInv, TypeOK, Goto, screenVars, connVars, registry, Owned
<1>1. ASSUME NEW s \in Session, Start(s) PROVE TypeOK'
  <2>1. crowded' \subseteq Session
    BY <1>1 DEF Start, Others
  <2>2. /\ pc' = [pc EXCEPT ![s] = "dial"] /\ spin' = [spin EXCEPT ![s] = "banner"]
        /\ entry' = s
        /\ UNCHANGED <<flag, ch, cleared, stale, connVars>>
    BY <1>1 DEF Start
  <2> QED
    BY <2>1, <2>2
<1>2. ASSUME NEW s \in Session, DialFails(s) \/ DialSucceeds(s) PROVE TypeOK'
  BY <1>2 DEF DialFails, DialSucceeds
<1>3. ASSUME NEW s \in Session, StopSpinning(s) \/ ClearScreen(s) PROVE TypeOK'
  BY <1>3 DEF StopSpinning, SetFlag, ClearScreen
<1>4. ASSUME NEW s \in Session, AcquireFails(s) \/ Acquire(s) PROVE TypeOK'
  <2>1. CASE AcquireFails(s)
    BY <2>1 DEF AcquireFails
  <2>2. CASE Acquire(s)
    <3>1. refs' \in [Session -> Nat]
      BY <2>2 DEF Acquire
    <3> QED
      BY <2>2, <3>1 DEF Acquire
  <2> QED
    BY <1>4, <2>1, <2>2
<1>5. ASSUME NEW s \in Session, ShellFails(s) PROVE TypeOK'
  BY <1>5 DEF ShellFails, Release
<1>6. ASSUME NEW s \in Session, ShellStarts(s) \/ BridgeReturns(s) \/ CloseShell(s) PROVE TypeOK'
  BY <1>6 DEF ShellStarts, BridgeReturns, CloseShell
<1>7. ASSUME NEW s \in Session, Unspin(s) \/ Return(s) PROVE TypeOK'
  BY <1>7 DEF Unspin, CloseCh, Return, Remove
<1>8. ASSUME NEW s \in Session, ShellEnds(s) PROVE TypeOK'
  BY <1>8 DEF ShellEnds
<1>9. ASSUME NEW s \in Session, WaiterReleases(s) PROVE TypeOK'
  BY <1>9 DEF WaiterReleases, Release
<1>10. ASSUME NEW s \in Session, Spinner(s) PROVE TypeOK'
  BY <1>10 DEF Spinner, SpinnerBanner, SpinnerChecks, SpinnerDraws, Paint
<1>11. CASE UNCHANGED vars
  BY <1>11 DEF vars
<1> QED
  BY <1>1, <1>2, <1>3, <1>4, <1>5, <1>6, <1>7, <1>8, <1>9, <1>10, <1>11 DEF Next, Main

\* The spinner's writes after the screen is over: one at most.
LEMMA ScreenStep ==
  ASSUME IInv, [Next]_vars, NEW e \in Session
  PROVE  Screen(e)'
<1> USE SetupAssumption DEF IInv, TypeOK, Goto, screenVars, connVars, registry, Screen
<1>1. ASSUME NEW s \in Session, Start(s) PROVE Screen(e)'
  BY <1>1 DEF Start
<1>2. ASSUME NEW s \in Session, DialFails(s) \/ DialSucceeds(s) PROVE Screen(e)'
  BY <1>2 DEF DialFails, DialSucceeds
<1>3. ASSUME NEW s \in Session, StopSpinning(s) \/ ClearScreen(s) PROVE Screen(e)'
  BY <1>3 DEF StopSpinning, SetFlag, ClearScreen
<1>4. ASSUME NEW s \in Session, AcquireFails(s) \/ Acquire(s) PROVE Screen(e)'
  BY <1>4 DEF AcquireFails, Acquire
<1>5. ASSUME NEW s \in Session, ShellFails(s) PROVE Screen(e)'
  BY <1>5 DEF ShellFails, Release
<1>6. ASSUME NEW s \in Session, ShellStarts(s) \/ BridgeReturns(s) \/ CloseShell(s) PROVE Screen(e)'
  BY <1>6 DEF ShellStarts, BridgeReturns, CloseShell
<1>7. ASSUME NEW s \in Session, Unspin(s) \/ Return(s) PROVE Screen(e)'
  BY <1>7 DEF Unspin, CloseCh, Return, Remove
<1>8. ASSUME NEW s \in Session, ShellEnds(s) PROVE Screen(e)'
  BY <1>8 DEF ShellEnds
<1>9. ASSUME NEW s \in Session, WaiterReleases(s) PROVE Screen(e)'
  BY <1>9 DEF WaiterReleases, Release
<1>10. ASSUME NEW s \in Session, Spinner(s) PROVE Screen(e)'
  BY <1>10 DEF Spinner, SpinnerBanner, SpinnerChecks, SpinnerDraws, Paint
<1>11. CASE UNCHANGED vars
  BY <1>11 DEF vars
<1> QED
  BY <1>1, <1>2, <1>3, <1>4, <1>5, <1>6, <1>7, <1>8, <1>9, <1>10, <1>11 DEF Next, Main

\* Somebody owns every shell, and only one.
LEMMA OwnedStep ==
  ASSUME IInv, [Next]_vars, NEW e \in Session
  PROVE  Owned(e)'
<1> USE SetupAssumption DEF IInv, TypeOK, Goto, screenVars, connVars, registry, Owned, Early
<1>1. ASSUME NEW s \in Session, Start(s) PROVE Owned(e)'
  BY <1>1 DEF Start
<1>2. ASSUME NEW s \in Session, DialFails(s) \/ DialSucceeds(s) PROVE Owned(e)'
  BY <1>2 DEF DialFails, DialSucceeds
<1>3. ASSUME NEW s \in Session, StopSpinning(s) \/ ClearScreen(s) PROVE Owned(e)'
  BY <1>3 DEF StopSpinning, SetFlag, ClearScreen
<1>4. ASSUME NEW s \in Session, AcquireFails(s) \/ Acquire(s) PROVE Owned(e)'
  BY <1>4 DEF AcquireFails, Acquire
<1>5. ASSUME NEW s \in Session, ShellFails(s) PROVE Owned(e)'
  BY <1>5 DEF ShellFails, Release
<1>6. ASSUME NEW s \in Session, ShellStarts(s) \/ BridgeReturns(s) \/ CloseShell(s) PROVE Owned(e)'
  BY <1>6 DEF ShellStarts, BridgeReturns, CloseShell
<1>7. ASSUME NEW s \in Session, Unspin(s) \/ Return(s) PROVE Owned(e)'
  BY <1>7 DEF Unspin, CloseCh, Return, Remove
<1>8. ASSUME NEW s \in Session, ShellEnds(s) PROVE Owned(e)'
  BY <1>8 DEF ShellEnds
<1>9. ASSUME NEW s \in Session, WaiterReleases(s) PROVE Owned(e)'
  BY <1>9 DEF WaiterReleases, Release
<1>10. ASSUME NEW s \in Session, Spinner(s) PROVE Owned(e)'
  BY <1>10 DEF Spinner, SpinnerBanner, SpinnerChecks, SpinnerDraws, Paint
<1>11. CASE UNCHANGED vars
  BY <1>11 DEF vars
<1> QED
  BY <1>1, <1>2, <1>3, <1>4, <1>5, <1>6, <1>7, <1>8, <1>9, <1>10, <1>11 DEF Next, Main

\* Only Start makes a session run, and it notes whom it meets.
LEMMA BesideStep == IInv /\ [Next]_vars => Beside'
<1> SUFFICES ASSUME IInv, [Next]_vars, NEW e \in Session, NEW f \in Session,
                    Live(e)', Live(f)', e # f
             PROVE  e \in crowded'
  BY DEF Beside
<1> USE DEF IInv, TypeOK, Goto, screenVars, connVars, registry, Beside, Live
<1>1. ASSUME NEW s \in Session, Start(s) PROVE e \in crowded'
  <2>1. pc' = [pc EXCEPT ![s] = "dial"]
    BY <1>1 DEF Start
  <2>2. crowded' = crowded \cup IF Others(s) = {} THEN {} ELSE Others(s) \cup {s}
    BY <1>1 DEF Start
  <2>3. CASE e = s
    <3>1. f \in Others(s)
      BY <2>1, <2>3 DEF Others
    <3> QED
      BY <2>2, <2>3, <3>1
  <2>4. CASE e # s
    <3>1. e \in Others(s)
      BY <2>1, <2>4 DEF Others
    <3> QED
      BY <2>2, <3>1
  <2> QED
    BY <2>3, <2>4
<1>2. ASSUME NEW s \in Session, Main(s) \/ BridgeReturns(s) PROVE e \in crowded'
  <2>1. crowded' = crowded
    BY <1>2 DEF Main, DialFails, DialSucceeds, StopSpinning, ClearScreen, AcquireFails,
                Acquire, ShellFails, ShellStarts, BridgeReturns, CloseShell, Unspin, Return,
                Remove
  <2>2. /\ pc[s] # "idle"
        /\ \A t \in Session : t # s => pc'[t] = pc[t]
    BY <1>2 DEF Main, DialFails, DialSucceeds, StopSpinning, ClearScreen, AcquireFails,
                Acquire, ShellFails, ShellStarts, BridgeReturns, CloseShell, Unspin, Return
  <2>3. pc[s] # "over"
    BY <1>2 DEF Main, DialFails, DialSucceeds, StopSpinning, ClearScreen, AcquireFails,
                Acquire, ShellFails, ShellStarts, BridgeReturns, CloseShell, Unspin, Return
  <2>4. Live(e) /\ Live(f)
    BY <2>2, <2>3
  <2> QED
    BY <2>1, <2>4
<1>3. ASSUME NEW s \in Session, ShellEnds(s) \/ WaiterReleases(s) \/ Spinner(s)
      PROVE  e \in crowded'
  BY <1>3 DEF ShellEnds, WaiterReleases, Spinner, SpinnerBanner, SpinnerChecks, SpinnerDraws
<1>4. CASE UNCHANGED vars
  BY <1>4 DEF vars
<1> QED
  BY <1>1, <1>2, <1>3, <1>4 DEF Next

\* An entry of the registry names a session that is not over, and a session that runs
\* and has never met another has its entry.
LEMMA EntryStep ==
  ASSUME IInv, [Next]_vars, NEW e \in Session
  PROVE  EntryRight(e)'
<1> USE SetupAssumption DEF IInv, TypeOK, Goto, screenVars, connVars, registry, RegistrySound, Live, EntryRight
<1>1. ASSUME NEW s \in Session, Start(s) PROVE EntryRight(e)'
  <2>1. pc' = [pc EXCEPT ![s] = "dial"] /\ entry' = s
    BY <1>1 DEF Start
  <2>2. crowded' = crowded \cup IF Others(s) = {} THEN {} ELSE Others(s) \cup {s}
    BY <1>1 DEF Start
  <2>3. CASE e = s
    BY <2>1, <2>3
  <2>4. CASE e # s
    <3>1. pc'[e] = pc[e] /\ entry' # e
      BY <2>1, <2>4
    <3>2. Live(e) => e \in Others(s)
      BY <2>4 DEF Others
    <3>3. Live(e)' => e \in crowded'
      BY <2>2, <3>1, <3>2
    <3> QED
      BY <3>1, <3>3
  <2> QED
    BY <2>3, <2>4
<1>2. ASSUME NEW s \in Session, DialFails(s) \/ DialSucceeds(s) PROVE EntryRight(e)'
  BY <1>2 DEF DialFails, DialSucceeds
<1>3. ASSUME NEW s \in Session, StopSpinning(s) \/ ClearScreen(s) PROVE EntryRight(e)'
  BY <1>3 DEF StopSpinning, SetFlag, ClearScreen
<1>4. ASSUME NEW s \in Session, AcquireFails(s) \/ Acquire(s) PROVE EntryRight(e)'
  BY <1>4 DEF AcquireFails, Acquire
<1>5. ASSUME NEW s \in Session, ShellFails(s) PROVE EntryRight(e)'
  BY <1>5 DEF ShellFails, Release
<1>6. ASSUME NEW s \in Session, ShellStarts(s) \/ BridgeReturns(s) \/ CloseShell(s) PROVE EntryRight(e)'
  BY <1>6 DEF ShellStarts, BridgeReturns, CloseShell
<1>7. ASSUME NEW s \in Session, Unspin(s) PROVE EntryRight(e)'
  BY <1>7 DEF Unspin, CloseCh
<1>12. ASSUME NEW s \in Session, Return(s) PROVE EntryRight(e)'
  <2>1. /\ pc[s] = "remove" /\ pc' = [pc EXCEPT ![s] = "over"]
        /\ entry' = None /\ crowded' = crowded
    BY <1>12 DEF Return, Remove
  <2>2. Live(e)' => e # s /\ Live(e) /\ Live(s)
    BY <2>1
  <2>3. Live(e)' => e \in crowded'
    BY <2>1, <2>2 DEF Beside
  <2> QED
    BY <2>1, <2>3
<1>8. ASSUME NEW s \in Session, ShellEnds(s) PROVE EntryRight(e)'
  BY <1>8 DEF ShellEnds
<1>9. ASSUME NEW s \in Session, WaiterReleases(s) PROVE EntryRight(e)'
  BY <1>9 DEF WaiterReleases, Release
<1>10. ASSUME NEW s \in Session, Spinner(s) PROVE EntryRight(e)'
  BY <1>10 DEF Spinner, SpinnerBanner, SpinnerChecks, SpinnerDraws, Paint
<1>11. CASE UNCHANGED vars
  BY <1>11 DEF vars
<1> QED
  BY <1>1, <1>2, <1>3, <1>4, <1>5, <1>6, <1>7, <1>8, <1>9, <1>10, <1>11, <1>12 DEF Next, Main

\* The inductive invariant of SSHconn.
THEOREM InvariantHolds == Spec => []IInv
<1>1. Init => IInv
  <2> SUFFICES ASSUME Init PROVE IInv
    OBVIOUS
  <2>1. TypeOK /\ RegistrySound /\ Beside
    BY SetupAssumption DEF Init, TypeOK, RegistrySound, Beside, Live
  <2>2. \A s \in Session : Screen(s) /\ Owned(s)
    <3> SUFFICES ASSUME NEW s \in Session PROVE Screen(s) /\ Owned(s)
      OBVIOUS
    <3>1. /\ pc[s] = "idle" /\ flag[s] = FALSE /\ ch[s] = FALSE /\ spin[s] = "none"
          /\ cleared[s] = FALSE /\ stale[s] = 0 /\ shell[s] = FALSE
          /\ waiter[s] = "none" /\ refs[s] = 0 /\ trace[s] = FALSE
      BY DEF Init
    <3>2. Screen(s)
      BY <3>1 DEF Screen
    <3>3. Owned(s)
      BY <3>1 DEF Owned, Early
    <3> QED
      BY <3>2, <3>3
  <2> QED
    BY <2>1, <2>2 DEF IInv
<1>2. IInv /\ [Next]_vars => IInv'
  <2> SUFFICES ASSUME IInv, [Next]_vars PROVE IInv'
    OBVIOUS
  <2>1. TypeOK'
    BY TypeStep
  <2>2. \A s \in Session : Screen(s)' /\ Owned(s)'
    BY ScreenStep, OwnedStep
  <2>3. RegistrySound'
    <3>1. entry' \in Session \cup {None}
      BY <2>1 DEF TypeOK
    <3>2. \A s \in Session : EntryRight(s)'
      BY EntryStep
    <3> QED
      BY <3>1, <3>2 DEF RegistrySound, EntryRight
  <2> QED
    BY <2>1, <2>2, <2>3, BesideStep DEF IInv
<1> QED
  BY <1>1, <1>2, PTL DEF Spec

\* Every variable of ProxySetup has its type, whoever runs beside whom.
THEOREM TypeCorrect == Spec => []TypeOK
<1>1. IInv => TypeOK
  BY DEF IInv
<1> QED
  BY <1>1, InvariantHolds, PTL

\* At most one write of the spinner lands where it no longer belongs.
THEOREM SpinnerQuiet == Spec => []StaleBound
<1>1. IInv => StaleBound
  BY DEF IInv, Screen, StaleBound
<1> QED
  BY <1>1, InvariantHolds, PTL

\* Every shell is released exactly once, by whoever has to.
THEOREM ReleasedOnce == Spec => []RefsBalanced
<1>1. IInv => RefsBalanced
  BY DEF IInv, Owned, RefsBalanced
<1> QED
  BY <1>1, InvariantHolds, PTL

\* However many sessions share the one key, the registry never names a session that
\* is over, and it misses a running one only if that one has not always run alone.
THEOREM RegistryNamesLive == Spec => []RegistrySound
<1>1. IInv => RegistrySound
  BY DEF IInv
<1> QED
  BY <1>1, InvariantHolds, PTL

=============================================================================
