------------------------------- MODULE Bridge -------------------------------
(***************************************************************************)
(* SwitchSession.Bridge (app/proxy/switch.go): the select loop that        *)
(* couples a user's connection with the remote shell, and the two reader   *)
(* goroutines that feed it.                                                *)
(*                                                                         *)
(*      remote shell -> reader "srv" -> srvInChan -> loop -> user          *)
(*      user         -> reader "usr" -> usrInChan -> loop -> remote shell  *)
(*                                                                         *)
(* A direction is named after its source.  A chunk is the serial number    *)
(* its source gave it.  Time is counted in periods of the 30-second        *)
(* ticker.  Not modelled, because they never happen or change nothing      *)
(* here: s.ctx.Done() (nobody calls cancel), a closed winCh or usrInChan   *)
(* (nobody closes them), <-done in the readers (nobody closes done), and   *)
(* the keep-alive case (a request without reply; an error is only logged). *)
(***************************************************************************)
EXTENDS Naturals, Sequences

CONSTANTS
  ChanCap,     \* capacity of srvInChan and usrInChan (1 in the code)
  MaxIdle,     \* maxIdleTime, in ticks (240 in the code)
  Window,      \* chunks a side's SSH window holds before it has consumed any
  MaxChunks,   \* bound: chunks each side emits
  MaxResizes,  \* bound: window changes
  Sizes,       \* window sizes
  PtySize      \* the size SSHConn requests from the remote host

ASSUME BridgeAssumption ==
  /\ ChanCap \in Nat \ {0}
  /\ MaxIdle \in Nat
  /\ Window \in Nat \ {0}
  /\ MaxChunks \in Nat
  /\ MaxResizes \in Nat
  /\ PtySize \in Sizes

VARIABLES
  sent,      \* sent[d]: last chunk side d has emitted
  unread,    \* unread[d]: chunks of d its peer has received and not consumed
  gone,      \* gone[d]: side d has hung up; nothing more is emitted or accepted
  ctxDone,   \* userConn.Context() is done: the whole SSH connection ended
  rpc,       \* rpc[d]: where the reader goroutine of direction d is
  read,      \* read[d]: last chunk the reader of d has read
  held,      \* held[d]: the chunk in its buffer, 0 if none
  chan,      \* chan[d]: srvInChan and usrInChan
  closed,    \* srvInChan is closed
  exitSig,   \* tokens in exitSignal
  loop,      \* "select", the direction whose chunk is being written, "returned"
  p,         \* the chunk the loop is writing, 0 if none
  taken,     \* taken[d]: last chunk of d the loop took
  got,       \* got[d]: last chunk of d its peer received
  idle,      \* time.Now() - lastActiveTime, saturated at MaxIdle + 1
  tick,      \* tick.C: the set of pending ticks, each its age after lastActiveTime
  winUsr,    \* the user's window
  winSrv,    \* the window the remote pty has
  resizes

Sides == {"srv", "usr"}

Peer(d) == IF d = "srv" THEN "usr" ELSE "srv"

envVars  == <<sent, unread, gone, ctxDone>>
readVars == <<rpc, read, held>>
chanVars == <<chan, closed, exitSig>>
loopVars == <<loop, p, taken, got>>
timeVars == <<idle, tick>>
winVars  == <<winUsr, winSrv, resizes>>
vars == <<envVars, readVars, chanVars, loopVars, timeVars, winVars>>

TypeOK ==
  /\ sent \in [Sides -> 0..MaxChunks]
  /\ unread \in [Sides -> 0..Window]
  /\ gone \in [Sides -> BOOLEAN]
  /\ ctxDone \in BOOLEAN
  /\ rpc \in [Sides -> {"read", "send", "exit", "close", "done"}]
  /\ read \in [Sides -> Nat]
  /\ held \in [Sides -> Nat]
  /\ chan \in [Sides -> Seq(Nat)]
  /\ \A d \in Sides : Len(chan[d]) <= ChanCap
  /\ closed \in BOOLEAN
  /\ exitSig \in Nat
  /\ loop \in Sides \cup {"select", "returned"}
  /\ p \in Nat
  /\ taken \in [Sides -> Nat]
  /\ got \in [Sides -> Nat]
  /\ idle \in 0..(MaxIdle + 1)
  /\ tick \in SUBSET (0..(MaxIdle + 1)) /\ \A age1, age2 \in tick : age1 = age2
  /\ winUsr \in Sizes /\ winSrv \in Sizes
  /\ resizes \in 0..MaxResizes

\* What a side grants at the start, and what the panel has left to read, is open.
Init ==
  /\ sent = [d \in Sides |-> 0]
  /\ unread \in [Sides -> 0..Window]
  /\ gone = [d \in Sides |-> FALSE]
  /\ ctxDone = FALSE
  /\ rpc = [d \in Sides |-> "read"]
  /\ read = [d \in Sides |-> 0]
  /\ held = [d \in Sides |-> 0]
  /\ chan = [d \in Sides |-> <<>>]
  /\ closed = FALSE
  /\ exitSig = 0
  /\ loop = "select"
  /\ p = 0
  /\ taken = [d \in Sides |-> 0]
  /\ got = [d \in Sides |-> 0]
  /\ idle = 0 /\ tick = {}
  /\ winUsr \in Sizes /\ winSrv = PtySize
  /\ resizes = 0

-----------------------------------------------------------------------------
(* The two parties. *)

Emit(d) ==
  /\ ~gone[d] /\ sent[d] < MaxChunks
  /\ sent' = [sent EXCEPT ![d] = @ + 1]
  /\ UNCHANGED <<unread, gone, ctxDone, readVars, chanVars, loopVars, timeVars, winVars>>

\* The peer of d reads what it has received, which opens its SSH window again.
Consume(d) ==
  /\ ~gone[Peer(d)] /\ unread[d] > 0
  /\ unread' = [unread EXCEPT ![d] = @ - 1]
  /\ UNCHANGED <<sent, gone, ctxDone, readVars, chanVars, loopVars, timeVars, winVars>>

\* The remote shell exits, or the user's channel ends.
HangUp(d) ==
  /\ ~gone[d]
  /\ gone' = [gone EXCEPT ![d] = TRUE]
  /\ UNCHANGED <<sent, unread, ctxDone, readVars, chanVars, loopVars, timeVars, winVars>>

\* The user's SSH connection ends, and every channel of it.
Disconnect ==
  /\ ~ctxDone
  /\ ctxDone' = TRUE
  /\ gone' = [gone EXCEPT !["usr"] = TRUE]
  /\ UNCHANGED <<sent, unread, readVars, chanVars, loopVars, timeVars, winVars>>

\* The deferred sshConn.Close() of SSHconn, once Bridge has returned.
CloseSrvConn ==
  /\ loop = "returned" /\ ~gone["srv"]
  /\ gone' = [gone EXCEPT !["srv"] = TRUE]
  /\ UNCHANGED <<sent, unread, ctxDone, readVars, chanVars, loopVars, timeVars, winVars>>

-----------------------------------------------------------------------------
(* The reader goroutines. *)

ReadSharedBuffer(d) ==                        \* buf made once, before the loop
  /\ rpc[d] = "read" /\ read[d] < sent[d]
  /\ read' = [read EXCEPT ![d] = @ + 1]
  /\ held' = [held EXCEPT ![d] = read[d] + 1]
  /\ chan' = [chan EXCEPT ![d] = [i \in 1..Len(@) |-> read[d] + 1]]
  /\ rpc' = [rpc EXCEPT ![d] = "send"]
  /\ UNCHANGED <<envVars, closed, exitSig, loopVars, timeVars, winVars>>
Read(d) ==
  /\ rpc[d] = "read" /\ read[d] < sent[d]
  /\ read' = [read EXCEPT ![d] = @ + 1]
  /\ held' = [held EXCEPT ![d] = read[d] + 1]
  /\ rpc' = [rpc EXCEPT ![d] = "send"]
  /\ UNCHANGED <<envVars, chanVars, loopVars, timeVars, winVars>>

AtEOFEarly(d) == gone[d]                      \* err acted on before the data
\* Read reports an error only once what arrived before it is drained.
AtEOF(d) == gone[d] /\ read[d] = sent[d]

ReadError(d) ==
  /\ rpc[d] = "read" /\ AtEOF(d)
  /\ rpc' = [rpc EXCEPT ![d] = "exit"]
  /\ UNCHANGED <<envVars, read, held, chanVars, loopVars, timeVars, winVars>>

HasRoomOffByOne(d) == Len(chan[d]) <= ChanCap
HasRoom(d) == Len(chan[d]) < ChanCap

\* srvInChan <- buf[:nr]; the alternative <-done never becomes ready.
Send(d) ==
  /\ rpc[d] = "send" /\ HasRoom(d)
  /\ chan' = [chan EXCEPT ![d] = Append(@, held[d])]
  /\ held' = [held EXCEPT ![d] = 0]
  /\ rpc' = [rpc EXCEPT ![d] = "read"]
  /\ UNCHANGED <<envVars, read, closed, exitSig, loopVars, timeVars, winVars>>

ExitCapOne == 1
ExitCap == 2

SignalExit(d) ==
  /\ rpc[d] = "exit" /\ exitSig < ExitCap
  /\ exitSig' = exitSig + 1
  /\ rpc' = [rpc EXCEPT ![d] = IF d = "srv" THEN "close" ELSE "done"]
  /\ UNCHANGED <<envVars, read, held, chan, closed, loopVars, timeVars, winVars>>

\* Only the server's reader closes its channel, after the exit signal.
CloseChan ==
  /\ rpc["srv"] = "close"
  /\ closed' = TRUE
  /\ rpc' = [rpc EXCEPT !["srv"] = "done"]
  /\ UNCHANGED <<envVars, read, held, chan, exitSig, loopVars, timeVars, winVars>>

-----------------------------------------------------------------------------
(* The select loop.  When several cases are ready, any of them is chosen. *)

\* lastActiveTime = time.Now(); a tick already pending is now an old one.
Touch ==
  /\ idle' = 0
  /\ tick' = {0 : age \in tick}

\* case p := <-srvInChan and case p := <-usrInChan
Take(d) ==
  /\ loop = "select" /\ chan[d] # <<>>
  /\ p' = Head(chan[d])
  /\ chan' = [chan EXCEPT ![d] = Tail(@)]
  /\ taken' = [taken EXCEPT ![d] = Head(chan[d])]
  /\ loop' = d
  /\ UNCHANGED <<envVars, readVars, closed, exitSig, got, timeVars, winVars>>

WriteBack(d) ==                               \* written to where it came from
  /\ loop = d /\ loop' = "select" /\ p' = 0
  /\ Touch
  /\ UNCHANGED <<envVars, readVars, chanVars, taken, got, winVars>>

\* userConn.Write(p) or srvConn.Write(p), which waits, and the whole loop with it,
\* while the peer's window is full.
Accepted(d) ==
  /\ ~gone[Peer(d)] /\ unread[d] < Window
  /\ unread' = [unread EXCEPT ![d] = @ + 1]
  /\ got' = [got EXCEPT ![d] = p]

FailsNever(d) == FALSE                        \* waits for a peer that is gone
\* An error is logged, p is dropped.
Fails(d) == gone[Peer(d)] /\ UNCHANGED <<unread, got>>

Write(d) ==
  /\ loop = d
  /\ Accepted(d) \/ Fails(d)
  /\ loop' = "select" /\ p' = 0
  /\ Touch
  /\ UNCHANGED <<sent, gone, ctxDone, readVars, chanVars, taken, winVars>>

Return ==
  /\ loop = "select" /\ loop' = "returned"
  /\ UNCHANGED <<envVars, readVars, chan, closed, p, taken, got, timeVars, winVars>>

ReturnClosed == closed /\ chan["srv"] = <<>> /\ Return /\ UNCHANGED exitSig

ReturnContext == ctxDone /\ Return /\ UNCHANGED exitSig

ReturnSignal == exitSig > 0 /\ Return /\ exitSig' = exitSig - 1

ExpiredOrEqual(age) == age >= MaxIdle
\* now.After(lastActiveTime.Add(maxIdleTime))
Expired(age) == age > MaxIdle

ReturnIdle ==
  /\ loop = "select" /\ \E age \in tick : Expired(age)
  /\ loop' = "returned"
  /\ tick' = {}
  /\ UNCHANGED <<envVars, readVars, chanVars, p, taken, got, idle, winVars>>

SkipTickTouching ==                           \* continue is missing
  /\ loop = "select" /\ \E age \in tick : ~Expired(age)
  /\ tick' = {} /\ idle' = 0
  /\ UNCHANGED <<envVars, readVars, chanVars, loopVars, winVars>>

SkipTick ==
  /\ loop = "select" /\ \E age \in tick : ~Expired(age)
  /\ tick' = {}
  /\ UNCHANGED <<envVars, readVars, chanVars, loopVars, idle, winVars>>

\* One period passes; the ticker drops its tick when one is still pending.
Elapse ==
  /\ loop # "returned"
  /\ idle' = IF idle <= MaxIdle THEN idle + 1 ELSE idle
  /\ tick' = IF tick = {} THEN {idle'} ELSE tick
  /\ UNCHANGED <<envVars, readVars, chanVars, loopVars, winVars>>

-----------------------------------------------------------------------------
(* WrapperSession.SetWin offers the new size on the unbuffered winch       *)
(* without waiting: it is lost unless the loop is parked in its select.    *)
(* The few instructions between two rounds of the loop count as parked.    *)

ResizeSeen(w) ==
  /\ resizes < MaxResizes /\ loop = "select" /\ ~gone["usr"]
  /\ winUsr' = w /\ resizes' = resizes + 1
  /\ winSrv' = IF gone["srv"] THEN winSrv ELSE w
  /\ Touch
  /\ UNCHANGED <<envVars, readVars, chanVars, loopVars>>

ResizeMissed(w) ==
  /\ resizes < MaxResizes /\ loop # "select" /\ ~gone["usr"]
  /\ winUsr' = w /\ resizes' = resizes + 1
  /\ UNCHANGED <<envVars, readVars, chanVars, loopVars, timeVars, winSrv>>

-----------------------------------------------------------------------------

Reader(d) == Read(d) \/ ReadError(d) \/ Send(d) \/ SignalExit(d)

Next ==
  \/ \E d \in Sides : Emit(d) \/ HangUp(d) \/ Consume(d)
  \/ Disconnect \/ CloseSrvConn
  \/ \E d \in Sides : Reader(d)
  \/ CloseChan
  \/ \E d \in Sides : Take(d) \/ Write(d)
  \/ ReturnClosed \/ ReturnContext \/ ReturnSignal \/ ReturnIdle
  \/ SkipTick \/ Elapse
  \/ \E w \in Sizes : ResizeSeen(w) \/ ResizeMissed(w)

Spec == Init /\ [][Next]_vars

(***************************************************************************)
(* The Go scheduler runs every runnable goroutine (weak fairness); a       *)
(* select with several ready cases picks one of them with uniform          *)
(* probability, so a case that is ready again and again is taken (strong   *)
(* fairness).  A write to a side that is gone ends with an error; whether a *)
(* side that is there consumes what it gets is up to it, and the promises  *)
(* that need it say so.  The clock is not forced to advance, so that a     *)
(* promise does not wait for the idle timeout unless it says so.           *)
(***************************************************************************)
Leave == ReturnClosed \/ ReturnContext \/ ReturnSignal \/ ReturnIdle

Fairness ==
  /\ \A d \in Sides : WF_vars(Reader(d)) /\ SF_vars(Take(d))
  /\ WF_vars(\E d \in Sides : Write(d))
  /\ WF_vars(CloseChan) /\ WF_vars(CloseSrvConn)
  /\ SF_vars(Leave) /\ SF_vars(SkipTick)

FairSpec == Spec /\ Fairness

-----------------------------------------------------------------------------
(* Properties *)

\* A reader that stops never blocks on exitSignal, whatever the loop does:
\* the buffer of two covers both readers even after Bridge has returned.
ExitNeverBlocks == \A d \in Sides : rpc[d] = "exit" => exitSig < ExitCap

Buffered(d) == IF rpc[d] = "send" THEN 1 ELSE 0
Stopped(d) == rpc[d] \in {"exit", "close", "done"}
Signalled(d) == IF rpc[d] \in {"close", "done"} THEN 1 ELSE 0

\* Every chunk a reader has read is in exactly one place -- received, in the
\* loop's hands, queued, or in the reader's buffer -- and in order; a peer
\* that is still there has received everything the loop has let go of.
Lane(d) ==
  /\ got[d] <= taken[d]
  /\ ~gone[Peer(d)] => got[d] = IF loop = d THEN taken[d] - 1 ELSE taken[d]
  /\ loop = d => p = taken[d] /\ got[d] < taken[d]
  /\ \A i \in 1..Len(chan[d]) : chan[d][i] = taken[d] + i
  /\ read[d] = taken[d] + Len(chan[d]) + Buffered(d)
  /\ rpc[d] = "send" => held[d] = read[d]
  /\ read[d] <= sent[d]

Accounting == \A d \in Sides : Lane(d)

\* Whatever tells the loop to stop has a cause: a reader stops only when its
\* side has hung up and is drained, each exit token and the closed channel
\* come from a stopped reader, and a tick is never older than it claims.
Causes ==
  /\ \A d \in Sides : Stopped(d) => gone[d] /\ read[d] = sent[d]
  /\ rpc["usr"] # "close"
  /\ exitSig <= Signalled("srv") + Signalled("usr")
  /\ closed => rpc["srv"] = "done"
  /\ ctxDone => gone["usr"]
  /\ \A age \in tick : age <= idle

IInv == TypeOK /\ Accounting /\ Causes

\* Input a reader took from its source but the loop never handles: no more
\* than the channel and the reader's buffer hold.  Since the loop takes
\* nothing after it returned, this bounds what the user's reader, which goes
\* on reading the user's input, can swallow after the session.
LossBound == \A d \in Sides : read[d] <= taken[d] + ChanCap + 1

\* exitSignal is sent before srvInChan is closed, and the loop may see it
\* while output is still queued: when the remote shell has ended and the user
\* is there to read, at most the queue's contents are cut off.
TailLoss ==
  [][ loop # "returned" /\ loop' = "returned" /\ ~gone["usr"]
        /\ rpc["srv"] \in {"close", "done"}
      => sent["srv"] <= got["srv"] + ChanCap ]_vars

\* The bridge implements the relay: in-order delivery without a gap, nothing
\* after the end, and an end only after a hang-up or a real silence.
R == INSTANCE Relay WITH open <- loop # "returned", quiet <- idle
RelayImplemented == R!Spec

\* When a party hangs up, Bridge returns, without the help of a timeout, if the other
\* one consumes what it has been sent or hangs up too.
HangUpEndsBridge ==
  \A d \in Sides : WF_vars(Consume(d)) => (gone[d] ~> loop = "returned")

\* What one side emits reaches the other, unless the session ends, if both consume.
EverythingDelivered ==
  (\A d \in Sides : WF_vars(Consume(d))) =>
    \A d \in Sides : \A n \in 1..MaxChunks :
      sent[d] = n ~> got[d] >= n \/ loop = "returned"

\* As time goes on, a session that falls silent for good (emission and resizing
\* are bounded) is disconnected, even though a tick may be dropped or read late, if
\* both consume: a loop that waits in a write does not look at the clock.
SilenceEndsBridge ==
  WF_vars(Elapse) /\ (\A d \in Sides : WF_vars(Consume(d))) => <>(loop = "returned")

\* The loop watches the window (the comment above case win := <-winCh): when
\* nothing has moved for the whole idle time since the user resized, the
\* remote pty has the size the user has.
WindowFollowed ==
  [][ ReturnIdle /\ resizes > 0 /\ (\A d \in Sides : ~gone[d])
      => winSrv = winUsr ]_vars
=============================================================================
