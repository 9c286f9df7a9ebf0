----------------------------- MODULE ProxySetup -----------------------------
(***************************************************************************)
(* Server.SSHconn (app/proxy/proxy.go, conn.go, sessm.go): connecting to   *)
(* the remote host, running the bridge and cleaning up, for several users  *)
(* at once.  Each session has a main goroutine, a spinner (TemWaitStr)     *)
(* that draws on the user's screen until s.flag is set, and, once a shell  *)
(* runs, a waiter that releases it when it ends.  All sessions share the   *)
(* registry sessManager, where every one of them uses the key "1".         *)
(***************************************************************************)
EXTENDS Naturals

CONSTANT Session   \* the calls of SSHconn, one per proxied session

VARIABLES
  pc,       \* pc[s]: the next step of SSHconn
  flag,     \* flag[s]: s.flag, read and written without synchronization
  ch,       \* ch[s]: the channel that stops the spinner is closed
  spin,     \* spin[s]: the next step of the spinner
  cleared,  \* cleared[s]: the connecting screen is over: cleared, or returned
  stale,    \* stale[s]: spinner writes after that
  tcp,      \* tcp[s]: the TCP connection to the remote host is open
  shell,    \* shell[s]: the shell session on it is open
  waiter,   \* waiter[s]: the goroutine in sess.Wait
  refs,     \* refs[s]: refCount of the SSHClient
  trace,    \* trace[s]: the session is in traceSessionMap
  entry,    \* sessManager.data["1"]: a session, or None
  crowded   \* the sessions that have run at the same time as another one

vars == <<pc, flag, ch, spin, cleared, stale, tcp, shell, waiter, refs, trace, entry, crowded>>
screenVars == <<flag, ch, spin, cleared, stale>>
connVars == <<tcp, shell, waiter, refs, trace>>
registry == <<entry, crowded>>

None == "none"

ASSUME SetupAssumption == None \notin Session

Init ==
  /\ pc = [s \in Session |-> "idle"]
  /\ flag = [s \in Session |-> FALSE]
  /\ ch = [s \in Session |-> FALSE]
  /\ spin = [s \in Session |-> "none"]
  /\ cleared = [s \in Session |-> FALSE]
  /\ stale = [s \in Session |-> 0]
  /\ tcp = [s \in Session |-> FALSE]
  /\ shell = [s \in Session |-> FALSE]
  /\ waiter = [s \in Session |-> "none"]
  /\ refs = [s \in Session |-> 0]
  /\ trace = [s \in Session |-> FALSE]
  /\ entry = None /\ crowded = {}

Live(s) == pc[s] \notin {"idle", "over"}
Others(s) == {t \in Session \ {s} : Live(t)}

Goto(s, from, to) == pc[s] = from /\ pc' = [pc EXCEPT ![s] = to]

-----------------------------------------------------------------------------
(* The main goroutine. *)

\* AddCommonSwitch, and go s.TemWaitStr(ch)
Start(s) ==
  /\ Goto(s, "idle", "dial")
  /\ entry' = s
  /\ crowded' = crowded \cup IF Others(s) = {} THEN {} ELSE Others(s) \cup {s}
  /\ spin' = [spin EXCEPT ![s] = "banner"]
  /\ UNCHANGED <<flag, ch, cleared, stale, connVars>>

DialFails(s) ==
  /\ Goto(s, "dial", "unspin")
  /\ UNCHANGED <<screenVars, connVars, registry>>

DialSucceeds(s) ==
  /\ Goto(s, "dial", "flag")
  /\ tcp' = [tcp EXCEPT ![s] = TRUE]
  /\ UNCHANGED <<screenVars, shell, waiter, refs, trace, registry>>

SetFlagNot(s) == flag' = flag               \* a spinner of its own flag
SetFlag(s) == flag' = [flag EXCEPT ![s] = TRUE]

StopSpinning(s) ==
  /\ Goto(s, "flag", "clear")
  /\ SetFlag(s)
  /\ UNCHANGED <<ch, spin, cleared, stale, connVars, registry>>

ClearScreen(s) ==
  /\ Goto(s, "clear", "acquire")
  /\ cleared' = [cleared EXCEPT ![s] = TRUE]
  /\ UNCHANGED <<flag, ch, spin, stale, connVars, registry>>

\* NewSession failed: the count taken before it is given back.
AcquireFails(s) ==
  /\ Goto(s, "acquire", "unspin")
  /\ UNCHANGED <<screenVars, connVars, registry>>

Acquire(s) ==
  /\ Goto(s, "acquire", "shell")
  /\ refs' = [refs EXCEPT ![s] = @ + 1]
  /\ trace' = [trace EXCEPT ![s] = TRUE]
  /\ shell' = [shell EXCEPT ![s] = TRUE]
  /\ UNCHANGED <<screenVars, tcp, waiter, registry>>

ReleaseCount(s) ==                        \* the map entry is forgotten
  refs' = [refs EXCEPT ![s] = @ - 1] /\ trace' = trace
\* ReleaseSession
Release(s) ==
  /\ refs' = [refs EXCEPT ![s] = @ - 1]
  /\ trace' = [trace EXCEPT ![s] = FALSE]

\* SSHConn failed: no pty, or no shell.
ShellFails(s) ==
  /\ Goto(s, "shell", "unspin")
  /\ shell' = [shell EXCEPT ![s] = FALSE]
  /\ Release(s)
  /\ UNCHANGED <<screenVars, tcp, waiter, registry>>

ShellStarts(s) ==
  /\ Goto(s, "shell", "bridge")
  /\ waiter' = [waiter EXCEPT ![s] = "wait"]
  /\ UNCHANGED <<screenVars, tcp, shell, refs, trace, registry>>

BridgeReturns(s) ==
  /\ Goto(s, "bridge", "close")
  /\ UNCHANGED <<screenVars, connVars, registry>>

\* The deferred calls, last first: sshConn.Close(), close(ch), and
\* RemoveCommonSwitch.  Nothing closes the TCP connection.
CloseShell(s) ==
  /\ Goto(s, "close", "unspin")
  /\ shell' = [shell EXCEPT ![s] = FALSE]
  /\ UNCHANGED <<screenVars, tcp, waiter, refs, trace, registry>>

CloseChNot(s) == ch' = ch                   \* as done in Bridge, never closed
CloseCh(s) == ch' = [ch EXCEPT ![s] = TRUE]

Unspin(s) ==
  /\ Goto(s, "unspin", "remove")
  /\ CloseCh(s)
  /\ UNCHANGED <<flag, spin, cleared, stale, connVars, registry>>

RemoveNot(s) == UNCHANGED registry          \* the deferred call is missing
Remove(s) == entry' = None /\ crowded' = crowded

Return(s) ==
  /\ Goto(s, "remove", "over")
  /\ Remove(s)
  /\ cleared' = [cleared EXCEPT ![s] = TRUE]
  /\ UNCHANGED <<flag, ch, spin, stale, connVars>>

-----------------------------------------------------------------------------
(* The remote host, the waiter, the spinner. *)

ShellEnds(s) ==
  /\ waiter[s] = "wait" /\ shell[s]
  /\ shell' = [shell EXCEPT ![s] = FALSE]
  /\ UNCHANGED <<pc, screenVars, tcp, waiter, refs, trace, registry>>

WaiterReleases(s) ==
  /\ waiter[s] = "wait" /\ ~shell[s]
  /\ waiter' = [waiter EXCEPT ![s] = "done"]
  /\ Release(s)
  /\ UNCHANGED <<pc, screenVars, tcp, shell, registry>>

\* A write of the spinner; it is stale when the connecting screen is over.
Paint(s) == stale' = [stale EXCEPT ![s] = IF cleared[s] THEN @ + 1 ELSE @]

\* "Connecting to ..."
SpinnerBanner(s) ==
  /\ spin[s] = "banner"
  /\ spin' = [spin EXCEPT ![s] = "check"]
  /\ Paint(s)
  /\ UNCHANGED <<pc, flag, ch, cleared, connVars, registry>>

\* The select and, in its default case, the test of s.flag; the break leaves
\* the select only, and the loop goes on sleeping until ch is closed.
SpinnerChecks(s) ==
  /\ spin[s] = "check"
  /\ spin' = [spin EXCEPT ![s] = IF ch[s] THEN "done"
                                 ELSE IF flag[s] THEN "check" ELSE "draw"]
  /\ UNCHANGED <<pc, flag, ch, cleared, stale, connVars, registry>>

SpinnerDraws(s) ==
  /\ spin[s] = "draw"
  /\ spin' = [spin EXCEPT ![s] = "check"]
  /\ Paint(s)
  /\ UNCHANGED <<pc, flag, ch, cleared, connVars, registry>>

Main(s) ==
  \/ DialFails(s) \/ DialSucceeds(s) \/ StopSpinning(s) \/ ClearScreen(s)
  \/ AcquireFails(s) \/ Acquire(s) \/ ShellFails(s) \/ ShellStarts(s)
  \/ CloseShell(s) \/ Unspin(s) \/ Return(s)

Spinner(s) == SpinnerBanner(s) \/ SpinnerChecks(s) \/ SpinnerDraws(s)

Next == \E s \in Session :
  \/ Start(s) \/ Main(s) \/ BridgeReturns(s)
  \/ ShellEnds(s) \/ WaiterReleases(s) \/ Spinner(s)

Spec == Init /\ [][Next]_vars

\* The goroutines that outlive SSHconn run.  Wait returns once the shell is over: the
\* remote host confirms that, or the connection ends.
Fairness == \A s \in Session : WF_vars(SpinnerChecks(s)) /\ WF_vars(WaiterReleases(s))

FairSpec == Spec /\ Fairness

-----------------------------------------------------------------------------
(* Properties *)

TypeOK ==
  /\ pc \in [Session -> {"idle", "dial", "flag", "clear", "acquire", "shell",
                         "bridge", "close", "unspin", "remove", "over"}]
  /\ flag \in [Session -> BOOLEAN] /\ ch \in [Session -> BOOLEAN]
  /\ spin \in [Session -> {"none", "banner", "check", "draw", "done"}]
  /\ cleared \in [Session -> BOOLEAN] /\ stale \in [Session -> Nat]
  /\ tcp \in [Session -> BOOLEAN] /\ shell \in [Session -> BOOLEAN]
  /\ waiter \in [Session -> {"none", "wait", "done"}]
  /\ refs \in [Session -> Nat] /\ trace \in [Session -> BOOLEAN]
  /\ entry \in Session \cup {None} /\ crowded \subseteq Session

\* The spinner is told to stop by a plain variable it tests before it writes:
\* at most one of its writes lands on the screen of the remote shell, or on
\* the panel after SSHconn has returned.
StaleBound == \A s \in Session : stale[s] <= 1

\* A shell is released once: by SSHconn when it could not be used, by the
\* waiter otherwise; an open shell is always counted and traced.
RefsBalanced ==
  \A s \in Session :
    /\ refs[s] = IF trace[s] THEN 1 ELSE 0
    /\ shell[s] => trace[s]
    /\ trace[s] => pc[s] = "shell" \/ waiter[s] = "wait"

\* Every session uses the key "1": one overwrites the entry of another, and whichever
\* ends first takes it away.  Still the registry never names a session that is over,
\* and one is missing from it only if another ran at the same time.
RegistrySound ==
  /\ entry # None => Live(entry)
  /\ \A s \in Session : Live(s) /\ s \notin crowded => entry = s

\* When SSHconn returns, its spinner stops and its shell is released, whoever ended the
\* session, if a write of the spinner ends: the user reads, or is gone.
CleansUp ==
  \A s \in Session :
    WF_vars(SpinnerBanner(s) \/ SpinnerDraws(s)) =>
      (pc[s] = "over" ~> spin[s] = "done" /\ ~trace[s] /\ ~shell[s])
=============================================================================
