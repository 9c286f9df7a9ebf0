----------------------------- MODULE MenuInput -----------------------------
(***************************************************************************)
(* Who gets what the user types (app/sshd/active.go, app/proxy/switch.go). *)
(* readLoop copies the SSH channel into one pipe; the panel's ReadLine and *)
(* the user readers of the sessions all read that pipe, and a chunk goes   *)
(* to whichever of them happens to wait.  A user reader is started by      *)
(* Bridge and is not stopped when Bridge returns (nobody closes done).     *)
(*                                                                         *)
(* A chunk is one command line.  Bridge is reduced to its user side: the   *)
(* reader, usrInChan, and the loop, which takes from it, waits in writes   *)
(* to either side, and may return whenever it is at its select.            *)
(***************************************************************************)
EXTENDS Naturals, Sequences

CONSTANTS
  ChanCap,      \* capacity of usrInChan (1 in the code)
  MaxSessions,  \* bound: sessions the user opens
  MaxAhead      \* bound: lines in the SSH channel readLoop has not read

ASSUME MenuAssumption ==
  /\ ChanCap \in Nat \ {0}
  /\ MaxSessions \in Nat
  /\ MaxAhead \in Nat \ {0}

VARIABLES
  line,    \* lines in the SSH channel, not yet read by readLoop
  gone,    \* the user's connection is over
  pipe,    \* the line readLoop is writing to the pipe, NoLine if none
  copying, \* readLoop runs; when it ends, the pipe is closed
  panel,   \* "menu" (in ReadLine), "dialing", "session" (in Bridge) or "left"
  cur,     \* sessions opened so far; the last one is session cur
  loop,    \* its loop: at its "select", or in a write to the "remote" or the "user"
  rpc,     \* rpc[s]: the user reader of session s
  chan,    \* chan[s]: usrInChan of session s
  held,    \* held[s]: what its reader is about to send, NoLine if nothing
  stolen   \* stolen[s]: lines its reader took while session s was not running

Commands == {"q", "host", "other"}
NoLine == "none"
Sessions == 1..MaxSessions

vars == <<line, gone, pipe, copying, panel, cur, loop, rpc, chan, held, stolen>>
inVars == <<line, gone, pipe, copying>>
place == <<panel, cur, loop>>
readerVars == <<rpc, chan, held, stolen>>

Init ==
  /\ line = <<>> /\ gone = FALSE /\ pipe = NoLine /\ copying = TRUE
  /\ panel = "menu" /\ cur = 0 /\ loop = "select"
  /\ rpc = [s \in Sessions |-> "none"]
  /\ chan = [s \in Sessions |-> <<>>]
  /\ held = [s \in Sessions |-> NoLine]
  /\ stolen = [s \in Sessions |-> 0]

Running(s) == panel = "session" /\ s = cur

-----------------------------------------------------------------------------
(* The user, and readLoop. *)

Type(c) ==
  /\ ~gone /\ Len(line) < MaxAhead
  /\ line' = Append(line, c)
  /\ UNCHANGED <<gone, pipe, copying, place, readerVars>>

\* The user disconnects, or the handler returned and the channel is closed.
HangUp ==
  /\ ~gone /\ gone' = TRUE
  /\ UNCHANGED <<line, pipe, copying, place, readerVars>>

Copy ==
  /\ copying /\ pipe = NoLine /\ line # <<>>
  /\ pipe' = Head(line) /\ line' = Tail(line)
  /\ UNCHANGED <<gone, copying, place, readerVars>>

CopyEndsOpen == FALSE                    \* the pipe is never closed
\* Sess.Read fails: the pipe is closed behind what was written to it.
CopyEnds ==
  /\ copying /\ pipe = NoLine /\ line = <<>> /\ gone
  /\ copying' = FALSE
  /\ UNCHANGED <<line, gone, pipe, place, readerVars>>

-----------------------------------------------------------------------------
(* The panel. *)

MenuReadFallthrough ==                   \* q leaves the switch, not the loop
  /\ panel = "menu" /\ pipe # NoLine
  /\ panel' = IF pipe = "host" THEN "dialing" ELSE "menu"
  /\ pipe' = NoLine
  /\ UNCHANGED <<line, gone, copying, cur, loop, readerVars>>
\* ReadLine returns a line: q leaves, a host is dialed, the rest stays here.
MenuRead ==
  /\ panel = "menu" /\ pipe # NoLine
  /\ panel' = CASE pipe = "q" -> "left"
                [] pipe = "host" -> "dialing"
                [] OTHER -> "menu"
  /\ pipe' = NoLine
  /\ UNCHANGED <<line, gone, copying, cur, loop, readerVars>>

MenuEOF ==
  /\ panel = "menu" /\ pipe = NoLine /\ ~copying
  /\ panel' = "left"
  /\ UNCHANGED <<inVars, cur, loop, readerVars>>

\* SSHconn: the remote host could not be reached, or Bridge starts.
DialFails ==
  /\ panel = "dialing" /\ panel' = "menu"
  /\ UNCHANGED <<inVars, cur, loop, readerVars>>

BridgeStarts ==
  /\ panel = "dialing" /\ panel' = "session" /\ cur < MaxSessions
  /\ cur' = cur + 1
  /\ rpc' = [rpc EXCEPT ![cur'] = "read"]
  /\ UNCHANGED <<inVars, loop, chan, held, stolen>>

\* Bridge returns, for whatever reason, but not out of a write; its user reader stays
\* where it is.
BridgeReturns ==
  /\ panel = "session" /\ loop = "select" /\ panel' = "menu"
  /\ UNCHANGED <<inVars, cur, loop, readerVars>>

-----------------------------------------------------------------------------
(* The user reader of session s, and the loop of a running session. *)

SessionRead(s) ==
  /\ rpc[s] = "read" /\ pipe # NoLine
  /\ held' = [held EXCEPT ![s] = pipe]
  /\ pipe' = NoLine
  /\ rpc' = [rpc EXCEPT ![s] = "send"]
  /\ stolen' = [stolen EXCEPT ![s] = IF Running(s) THEN @ ELSE @ + 1]
  /\ UNCHANGED <<line, gone, copying, place, chan>>

SessionEOF(s) ==
  /\ rpc[s] = "read" /\ pipe = NoLine /\ ~copying
  /\ rpc' = [rpc EXCEPT ![s] = "done"]
  /\ UNCHANGED <<inVars, place, chan, held, stolen>>

SendDropping(s) ==                       \* select with a default: never blocks
  /\ rpc[s] = "send"
  /\ chan' = IF Len(chan[s]) < ChanCap
             THEN [chan EXCEPT ![s] = Append(@, held[s])] ELSE chan
  /\ held' = [held EXCEPT ![s] = NoLine]
  /\ rpc' = [rpc EXCEPT ![s] = "read"]
  /\ UNCHANGED <<inVars, place, stolen>>
SessionSend(s) ==
  /\ rpc[s] = "send" /\ Len(chan[s]) < ChanCap
  /\ chan' = [chan EXCEPT ![s] = Append(@, held[s])]
  /\ held' = [held EXCEPT ![s] = NoLine]
  /\ rpc' = [rpc EXCEPT ![s] = "read"]
  /\ UNCHANGED <<inVars, place, stolen>>

\* The loop begins to write the line to the remote shell,
Forward(s) ==
  /\ Running(s) /\ loop = "select" /\ chan[s] # <<>>
  /\ chan' = [chan EXCEPT ![s] = Tail(@)]
  /\ loop' = "remote"
  /\ UNCHANGED <<inVars, panel, cur, rpc, held, stolen>>

\* or to write to the user what the shell has sent.
Output ==
  /\ panel = "session" /\ loop = "select" /\ loop' = "user"
  /\ UNCHANGED <<inVars, panel, cur, readerVars>>

\* The write ends: the side it goes to reads, or is gone and the write fails.
WriteEnds(side) ==
  /\ loop = side /\ loop' = "select"
  /\ UNCHANGED <<inVars, panel, cur, readerVars>>

Next ==
  \/ \E c \in Commands : Type(c)
  \/ HangUp \/ Copy \/ CopyEnds
  \/ MenuRead \/ MenuEOF \/ DialFails \/ BridgeStarts \/ BridgeReturns
  \/ Output \/ WriteEnds("remote") \/ WriteEnds("user")
  \/ \E s \in Sessions :
       SessionRead(s) \/ SessionEOF(s) \/ SessionSend(s) \/ Forward(s)

Spec == Init /\ [][Next]_vars

(***************************************************************************)
(* readLoop, the panel and the readers run whenever they can.  A line in   *)
(* the pipe is taken if anyone waits for it, and a reader that waits again *)
(* and again gets one (the waiters are served in turn).  The select takes  *)
(* a case that is ready again and again: the next line, and the signal of  *)
(* the user's reader when that has stopped.  A write to a user who is gone *)
(* ends; nobody has to read what the loop writes otherwise.  What the    *)
(* panel itself prints is taken by the user, or fails.                     *)
(***************************************************************************)
Fairness ==
  /\ WF_vars(Copy) /\ WF_vars(CopyEnds)
  /\ WF_vars(MenuRead \/ \E s \in Sessions : SessionRead(s))
  /\ SF_vars(MenuRead) /\ WF_vars(MenuEOF)
  /\ SF_vars(BridgeReturns /\ rpc[cur] = "done")
  /\ WF_vars(WriteEnds("user") /\ gone)
  /\ \A s \in Sessions :
       WF_vars(SessionEOF(s)) /\ WF_vars(SessionSend(s)) /\ SF_vars(Forward(s))
  /\ WF_vars(HangUp /\ panel = "left")

FairSpec == Spec /\ Fairness

-----------------------------------------------------------------------------
(* Properties *)

Lines == Commands \cup {NoLine}

TypeOK ==
  /\ line \in Seq(Commands) /\ Len(line) <= MaxAhead
  /\ gone \in BOOLEAN /\ copying \in BOOLEAN
  /\ pipe \in Lines
  /\ panel \in {"menu", "dialing", "session", "left"}
  /\ cur \in 0..MaxSessions /\ loop \in {"select", "remote", "user"}
  /\ rpc \in [Sessions -> {"none", "read", "send", "done"}]
  /\ chan \in [Sessions -> Seq(Commands)] /\ \A s \in Sessions : Len(chan[s]) <= ChanCap
  /\ held \in [Sessions -> Lines]
  /\ \A s \in Sessions : held[s] # NoLine <=> rpc[s] = "send"
  /\ stolen \in [Sessions -> Nat]

\* A finished session swallows at most what its channel and its reader hold,
\* and a session not yet opened nothing: the panel loses that much and no more.
StolenBound ==
  \A s \in Sessions :
    /\ s > cur => stolen[s] = 0
    /\ stolen[s] <= ChanCap + 1

\* The remote hosts do their part: what a dial asks of them is answered or fails, and
\* they consume what they are sent.
RemotesAnswer == WF_vars(DialFails \/ BridgeStarts) /\ WF_vars(WriteEnds("remote"))

\* A user who is gone leaves no panel behind, whatever is still in the pipe and whoever
\* waits for it, if the remote hosts do their part.
GoneLeaves == RemotesAnswer => (gone ~> panel = "left")

\* A user who keeps typing q at the menu gets out, however many readers of
\* earlier sessions compete for the keys, if no session goes on for ever.
QuitWorks ==
  RemotesAnswer /\ []<><<Type("q")>>_vars /\ <>[](panel # "session") => <>(panel = "left")
=============================================================================
