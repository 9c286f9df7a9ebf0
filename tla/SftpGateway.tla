---------------------------- MODULE SftpGateway ----------------------------
(***************************************************************************)
(* One SFTP session (app/sshd/sftp.go, SFTPHandler in server.go): the      *)
(* request server's worker carries out one command at a time on the remote *)
(* host the path names, over a connection cached per host; for every file  *)
(* it opens, a watcher goroutine closes it again when its request is over. *)
(*                                                                         *)
(* The request server of pkg/sftp 1.13.5 closes the handler's file itself  *)
(* and then cancels the request's context; both closes are sent to the     *)
(* remote host with the same handle, which it may have given to another    *)
(* file in between.                                                        *)
(*                                                                         *)
(* Paths are reduced to the host they name, remote commands to one step    *)
(* that succeeds or fails.  Not modelled: the TCP connection under a       *)
(* client (closed only when AcquireSession fails), and the mutex of uConn  *)
(* (only the worker takes it).                                             *)
(***************************************************************************)
EXTENDS Naturals

CONSTANTS
  Host,        \* the granted hosts
  Ungranted,   \* a first path component that names none of them, as in "/"
  MaxHandles,  \* bound: files a remote SFTP server keeps open
  MaxClients,  \* bound: connections dialed
  MaxFiles     \* bound: files opened

ASSUME GatewayAssumption ==
  /\ Ungranted \notin Host
  /\ MaxHandles \in Nat /\ MaxClients \in Nat /\ MaxFiles \in Nat

VARIABLES
  user,    \* the user's SFTP channel is open
  at,      \* the next step of the worker, and of the handler after it
  req,     \* the command it carries out, or carried out last
  on,      \* the host it was executed on, Ungranted as long as it was not
  cache,   \* uConn.fc: the client of each host, 0 if none
  dialed,  \* clients created so far; the last one is client dialed
  owner,   \* owner[c]: the host client c is connected to
  sess,    \* sess[c]: "none", "open" or "closed": the SFTP session on it
  waiter,  \* waiter[c]: the goroutine in sftpClient.Wait
  refs,    \* refs[c]: refCount of its SSHClient
  opened,  \* files opened so far
  file,    \* file[f]: "none", "open", "closing" (closed once) or "closed" (twice)
  fcon,    \* fcon[f]: its client
  fhan,    \* fhan[f]: its handle
  clean,   \* clean[f]: nobody else claimed its handle when it was opened
  table    \* table[c][hd]: the file the remote host keeps under hd, 0 if none

Client == 1..MaxClients
File == 1..MaxFiles
Handle == 1..MaxHandles
Names == Host \cup {Ungranted}

Requests ==
  [kind : {"one", "open"}, host : Host, target : {Ungranted}]
    \cup [kind : {"two"}, host : Host, target : Names]
NoRequest == [kind |-> "one", host |-> Ungranted, target |-> Ungranted]

workVars == <<at, req, on>>
connVars == <<dialed, owner, sess, waiter, refs>>
fileVars == <<opened, file, fcon, fhan, clean, table>>
vars == <<user, workVars, cache, connVars, fileVars>>

Init ==
  /\ user = TRUE /\ at = "idle"
  /\ req = NoRequest /\ on = Ungranted
  /\ cache = [h \in Host |-> 0]
  /\ dialed = 0
  /\ owner = [c \in Client |-> Ungranted]
  /\ sess = [c \in Client |-> "none"]
  /\ waiter = [c \in Client |-> "none"]
  /\ refs = [c \in Client |-> 0]
  /\ opened = 0
  /\ file = [f \in File |-> "none"]
  /\ fcon = [f \in File |-> 0]
  /\ fhan = [f \in File |-> 0]
  /\ clean = [f \in File |-> FALSE]
  /\ table = [c \in Client |-> [hd \in Handle |-> 0]]

Goto(from, to) == at = from /\ at' = to

-----------------------------------------------------------------------------
(* The connection of a host: getRemotHost, GetSftpCon, CreateSftpConn. *)

KeyAlways(h) == CHOOSE k \in Host : TRUE     \* one key for all, as in sessManager
Key(h) == h

\* A command on a path without a granted host is answered at once.
Receive(r) ==
  /\ user /\ at = "idle"
  /\ req' = r /\ on' = Ungranted
  /\ at' = IF cache[Key(r.host)] = 0 THEN "dial" ELSE "command"
  /\ UNCHANGED <<user, cache, connVars, fileVars>>

DialFails ==
  /\ Goto("dial", "idle")
  /\ UNCHANGED <<user, req, on, cache, connVars, fileVars>>

DialSucceeds ==
  /\ Goto("dial", "acquire") /\ dialed < MaxClients
  /\ dialed' = dialed + 1
  /\ owner' = [owner EXCEPT ![dialed'] = req.host]
  /\ UNCHANGED <<user, req, on, cache, sess, waiter, refs, fileVars>>

AcquireFails ==
  /\ Goto("acquire", "idle")
  /\ UNCHANGED <<user, req, on, cache, connVars, fileVars>>

Acquire ==
  /\ Goto("acquire", "subsystem")
  /\ sess' = [sess EXCEPT ![dialed] = "open"]
  /\ refs' = [refs EXCEPT ![dialed] = @ + 1]
  /\ UNCHANGED <<user, req, on, cache, dialed, owner, waiter, fileVars>>

SubsystemFailsKept ==                        \* ReleaseSession forgotten
  /\ Goto("subsystem", "idle")
  /\ sess' = [sess EXCEPT ![dialed] = "closed"]
  /\ UNCHANGED <<user, req, on, cache, dialed, owner, waiter, refs, fileVars>>

\* GetSftpClient failed: the session is closed and released here.
SubsystemFails ==
  /\ Goto("subsystem", "idle")
  /\ sess' = [sess EXCEPT ![dialed] = "closed"]
  /\ refs' = [refs EXCEPT ![dialed] = @ - 1]
  /\ UNCHANGED <<user, req, on, cache, dialed, owner, waiter, fileVars>>

SubsystemStarts ==
  /\ Goto("subsystem", "getwd") /\ sess[dialed] = "open"
  /\ waiter' = [waiter EXCEPT ![dialed] = "wait"]
  /\ UNCHANGED <<user, req, on, cache, dialed, owner, sess, refs, fileVars>>

GetwdFailsOpen ==                            \* sftpClient.Close() forgotten
  /\ Goto("getwd", "idle")
  /\ UNCHANGED <<user, req, on, cache, connVars, fileVars>>

\* Getwd failed: the client is closed, and the waiter releases the session.
GetwdFails ==
  /\ Goto("getwd", "idle")
  /\ sess' = [sess EXCEPT ![dialed] = "closed"]
  /\ UNCHANGED <<user, req, on, cache, dialed, owner, waiter, refs, fileVars>>

\* The answer may be the last thing a dying connection delivered.
GetwdSucceeds ==
  /\ Goto("getwd", "command")
  /\ cache' = [cache EXCEPT ![Key(req.host)] = dialed]
  /\ UNCHANGED <<user, req, on, connVars, fileVars>>

-----------------------------------------------------------------------------
(* Carrying the command out on the client found. *)

Found == cache[Key(req.host)]

\* The remote host refuses, or the client is dead: it stays in the cache.
CommandFails ==
  /\ Goto("command", "idle")
  /\ UNCHANGED <<user, req, on, cache, connVars, fileVars>>

Executes ==
  /\ Goto("command", "idle") /\ sess[Found] = "open"
  /\ on' = owner[Found]

\* Rename and Symlink look both paths up on the host of the first one, so that
\* fconn1 and fconn2 are always the same client.
Command ==
  /\ req.kind \in {"one", "two"} /\ Executes
  /\ UNCHANGED <<user, req, cache, connVars, fileVars>>

Claims(f, c, hd) == file[f] \in {"open", "closing"} /\ fcon[f] = c /\ fhan[f] = hd

\* Create or Open; the remote host picks a handle it does not use.
OpenFile(hd) ==
  /\ req.kind = "open" /\ Executes
  /\ opened < MaxFiles /\ table[Found][hd] = 0
  /\ opened' = opened + 1
  /\ file' = [file EXCEPT ![opened'] = "open"]
  /\ fcon' = [fcon EXCEPT ![opened'] = Found]
  /\ fhan' = [fhan EXCEPT ![opened'] = hd]
  /\ clean' = [clean EXCEPT ![opened'] = \A g \in File : ~Claims(g, Found, hd)]
  /\ table' = [table EXCEPT ![Found][hd] = opened']
  /\ UNCHANGED <<user, req, cache, connVars>>

-----------------------------------------------------------------------------
(* Files: closed by the request server, then by their watcher. *)

\* Frees the handle, whichever file the remote host keeps under it by now.
SendClose(f) == table' = [table EXCEPT ![fcon[f]][fhan[f]] = 0]

Close(f) ==
  /\ file[f] = "open" /\ at \in {"idle", "drain"} /\ (user \/ at = "drain")
  /\ file' = [file EXCEPT ![f] = "closing"]
  /\ SendClose(f)
  /\ UNCHANGED <<user, workVars, cache, connVars, opened, fcon, fhan, clean>>

WatcherEager(f) ==                           \* <-r.Context().Done() is missing
  /\ file[f] \in {"open", "closing"}
  /\ file' = [file EXCEPT ![f] = IF @ = "closing" THEN "closed" ELSE @]
  /\ SendClose(f)
  /\ UNCHANGED <<user, workVars, cache, connVars, opened, fcon, fhan, clean>>
Watcher(f) ==
  /\ file[f] = "closing"
  /\ file' = [file EXCEPT ![f] = "closed"]
  /\ SendClose(f)
  /\ UNCHANGED <<user, workVars, cache, connVars, opened, fcon, fhan, clean>>

-----------------------------------------------------------------------------
(* The remote host, the waiter, the end of the session. *)

EndSessions(ended) ==
  /\ sess' = [c \in Client |-> IF c \in ended THEN "closed" ELSE sess[c]]
  /\ table' = [c \in Client |-> IF c \in ended THEN [hd \in Handle |-> 0] ELSE table[c]]

RemoteDrops(c) ==
  /\ sess[c] = "open" /\ EndSessions({c})
  /\ UNCHANGED <<user, workVars, cache, dialed, owner, waiter, refs, opened, file, fcon, fhan, clean>>

WaiterReleases(c) ==
  /\ waiter[c] = "wait" /\ sess[c] = "closed"
  /\ waiter' = [waiter EXCEPT ![c] = "done"]
  /\ refs' = [refs EXCEPT ![c] = @ - 1]
  /\ UNCHANGED <<user, workVars, cache, dialed, owner, sess, fileVars>>

HangUp ==
  /\ user /\ user' = FALSE
  /\ UNCHANGED <<workVars, cache, connVars, fileVars>>

\* Serve returns once the worker is idle; it closes the files still open first.
ServeEnds ==
  /\ ~user /\ Goto("idle", "drain")
  /\ UNCHANGED <<user, req, on, cache, connVars, fileVars>>

CachedNone == {}                             \* UC.Close() is missing
Cached == {cache[h] : h \in Host}

\* UC.Close()
CloseClients ==
  /\ Goto("drain", "over") /\ \A f \in File : file[f] # "open"
  /\ EndSessions(Cached)
  /\ UNCHANGED <<user, req, on, cache, dialed, owner, waiter, refs, opened, file, fcon, fhan, clean>>

Worker ==
  \/ DialFails \/ DialSucceeds \/ AcquireFails \/ Acquire
  \/ SubsystemFails \/ SubsystemStarts \/ GetwdFails \/ GetwdSucceeds
  \/ CommandFails \/ Command \/ (\E hd \in Handle : OpenFile(hd))
  \/ ServeEnds \/ (at = "drain" /\ \E f \in File : Close(f)) \/ CloseClients

Next ==
  \/ \E r \in Requests : Receive(r)
  \/ Worker \/ HangUp
  \/ \E f \in File : Close(f) \/ Watcher(f)
  \/ \E c \in Client : RemoteDrops(c) \/ WaiterReleases(c)

Spec == Init /\ [][Next]_vars

\* Every goroutine runs; a dial, a request to the remote host and a close end,
\* with an answer or an error.  The user need not do anything.
Fairness ==
  /\ WF_vars(Worker)
  /\ \A f \in File : WF_vars(Watcher(f))
  /\ \A c \in Client : WF_vars(WaiterReleases(c))

FairSpec == Spec /\ Fairness

-----------------------------------------------------------------------------
(* Properties *)

TypeOK ==
  /\ user \in BOOLEAN
  /\ at \in {"idle", "dial", "acquire", "subsystem", "getwd", "command", "drain", "over"}
  /\ req \in Requests \cup {NoRequest} /\ on \in Names
  /\ cache \in [Host -> 0..MaxClients]
  /\ dialed \in 0..MaxClients
  /\ owner \in [Client -> Names]
  /\ sess \in [Client -> {"none", "open", "closed"}]
  /\ waiter \in [Client -> {"none", "wait", "done"}]
  /\ refs \in [Client -> Nat]
  /\ opened \in 0..MaxFiles
  /\ file \in [File -> {"none", "open", "closing", "closed"}]
  /\ fcon \in [File -> 0..MaxClients] /\ fhan \in [File -> 0..MaxHandles]
  /\ clean \in [File -> BOOLEAN]
  /\ table \in [Client -> [Handle -> 0..MaxFiles]]

\* A command acts on the host its first path names, and only on a granted one,
\* whatever the order in which connections were made, lost and cached.
ActsOnNamedHost == on # Ungranted => on = req.host /\ on \in Host

Setup == {"acquire", "subsystem", "getwd"}

\* An SFTP session on a remote host is either cached, so that the end of the
\* user's session closes it, or just being set up; there is never a second one
\* for the same host.
NoStray ==
  \A c \in Client : sess[c] = "open" =>
    cache[owner[c]] = c \/ (c = dialed /\ at \in Setup)

\* Every session is counted while it is open and released exactly once, by
\* CreateSftpConn when the set-up failed and by the waiter otherwise.
RefsBalanced ==
  \A c \in Client :
    /\ sess[c] = "open" => refs[c] = 1
    /\ refs[c] = IF waiter[c] = "wait" \/ (c = dialed /\ at = "subsystem") THEN 1 ELSE 0

\* A file the user has open is still his own on the remote host, unless another
\* file still claimed the same handle when it was opened: then the second close
\* of the other file, sent late, may close it.
CleanFilesKept ==
  \A f \in File : file[f] = "open" /\ clean[f] /\ sess[fcon[f]] = "open" =>
    table[fcon[f]][fhan[f]] = f

\* When the user has gone, every file is closed, every SFTP session is ended
\* and released, whatever was under way.
EndsClean ==
  ~user ~>
    /\ at = "over"
    /\ \A f \in File : file[f] \in {"none", "closed"}
    /\ \A c \in Client : sess[c] # "open" /\ refs[c] = 0

\* "if fconn1 != fconn2 { return sftp.ErrSshFxOpUnsupported }" (Rename, Symlink):
\* a command whose two paths name two granted hosts is refused.
CrossHostRefused ==
  req.kind = "two" /\ on # Ungranted /\ req.target \in Host => req.target = req.host
=============================================================================
