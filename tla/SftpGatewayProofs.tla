------------------------- MODULE SftpGatewayProofs -------------------------
(***************************************************************************)
(* Theorems about SftpGateway, for every set of hosts and every bound, and *)
(* about the step of it that RemoteTree unfolds, for every tree.  The two  *)
(* specifications share no variable; each theorem is about one of them.    *)
(***************************************************************************)
EXTENDS SftpGateway, RemoteTree, SequenceTheorems, NaturalsInduction,
        WellFoundedInduction, TLAPS

\* What the worker knows about its command at each step.
WorkInv ==
  /\ at \in {"dial", "command"} \cup Setup => req \in Requests
  /\ at \in {"dial"} \cup Setup => cache[req.host] = 0
  /\ at = "command" => cache[req.host] # 0
  /\ at \in Setup => dialed # 0 /\ owner[dialed] = req.host
  /\ at = "acquire" => sess[dialed] = "none"
  /\ at = "subsystem" => sess[dialed] # "none"
  /\ at = "getwd" => sess[dialed] # "none"
  /\ at \in {"acquire", "subsystem"} => waiter[dialed] = "none"

\* The cache and the clients agree.
ConnInv ==
  /\ \A h \in Host : cache[h] # 0 =>
       cache[h] <= dialed /\ owner[cache[h]] = h /\ sess[cache[h]] # "none"
  /\ \A c \in Client :
       /\ c > dialed => sess[c] = "none"
       /\ sess[c] = "none" => waiter[c] = "none"
       /\ sess[c] # "none" => owner[c] \in Host

\* A file that is clean shares its handle with nobody.
Kept(f) ==
  /\ f <= opened => fcon[f] # 0 /\ fhan[f] # 0 /\ sess[fcon[f]] # "none"
  /\ f > opened <=> file[f] = "none"
  /\ file[f] = "open" /\ clean[f] /\ sess[fcon[f]] = "open" =>
       /\ table[fcon[f]][fhan[f]] = f
       /\ \A g \in File : g # f => ~Claims(g, fcon[f], fhan[f])

FileInv == \A f \in File : Kept(f)

IInv == TypeOK /\ WorkInv /\ ConnInv /\ FileInv /\ NoStray /\ RefsBalanced /\ ActsOnNamedHost

\* Every command the worker takes up has a granted host in its first path.
LEMMA RequestHost == \A r \in Requests : r.host \in Host
  BY DEF Requests

\* Changing one entry of the handle tables leaves the others alone.
LEMMA OtherEntry ==
  ASSUME NEW C, NEW H, NEW V, NEW t \in [C -> [H -> V]], NEW c, NEW hd, NEW v,
         NEW x \in C, NEW y \in H, ~(c = x /\ hd = y)
  PROVE  [t EXCEPT ![c][hd] = v][x][y] = t[x][y]
<1>1. CASE x = c
  BY <1>1
<1>2. CASE x # c
  BY <1>2
<1> QED
  BY <1>1, <1>2

\* Every variable of the gateway keeps its type.
LEMMA TypeStep == IInv /\ [Next]_vars => TypeOK'
<1> SUFFICES ASSUME IInv, [Next]_vars PROVE TypeOK'
  OBVIOUS
<1>a. TypeOK /\ MaxClients \in Nat /\ MaxFiles \in Nat /\ MaxHandles \in Nat
  BY GatewayAssumption DEF IInv
<1>b. at \in {"dial", "command"} \cup Setup => req.host \in Host
  BY RequestHost DEF IInv, WorkInv
<1>c. at \in Setup => dialed \in Client
  BY <1>a DEF IInv, WorkInv, TypeOK, Client
<1>d. at = "command" => cache[req.host] \in Client
  BY <1>a, <1>b DEF IInv, WorkInv, TypeOK, Client
<1>e. at = "subsystem" => refs[dialed] = 1
  BY <1>c DEF IInv, RefsBalanced, Setup
<1>f. \A c \in Client : waiter[c] = "wait" => refs[c] = 1
  BY DEF IInv, RefsBalanced
<1>g. \A f \in File : file[f] # "none" => fcon[f] \in Client /\ fhan[f] \in Handle
  <2> SUFFICES ASSUME NEW f \in File, file[f] # "none" PROVE fcon[f] \in Client /\ fhan[f] \in Handle
    OBVIOUS
  <2>1. f <= opened /\ fcon[f] # 0 /\ fhan[f] # 0
    BY <1>a DEF IInv, FileInv, Kept, TypeOK, File
  <2> QED
    BY <1>a, <2>1 DEF TypeOK, Client, Handle
<1> USE <1>a DEF TypeOK, Goto, workVars, connVars, fileVars
<1>1. CASE \E r \in Requests : Receive(r)
  BY <1>1 DEF Receive, Names
<1>2. CASE DialFails \/ AcquireFails \/ CommandFails \/ ServeEnds \/ HangUp
  BY <1>2 DEF DialFails, AcquireFails, CommandFails, ServeEnds, HangUp
<1>3. CASE DialSucceeds
  BY <1>3, <1>b DEF DialSucceeds, Names, Client
<1>4. CASE Acquire
  BY <1>4, <1>c DEF Acquire, Setup
<1>5. CASE SubsystemFails
  <2>1. refs' \in [Client -> Nat]
    BY <1>5, <1>c, <1>e DEF SubsystemFails, Setup
  <2> QED
    BY <1>5, <1>c, <2>1 DEF SubsystemFails, Setup
<1>6. CASE SubsystemStarts
  BY <1>6, <1>c DEF SubsystemStarts, Setup
<1>7. CASE GetwdFails
  BY <1>7, <1>c DEF GetwdFails, Setup
<1>8. CASE GetwdSucceeds
  BY <1>8, <1>b, <1>c DEF GetwdSucceeds, Key, Setup, Client
<1>9. CASE Command
  BY <1>9, <1>d DEF Command, Executes, Found, Key
<1>10. ASSUME NEW hd \in Handle, OpenFile(hd) PROVE TypeOK'
  <2>1. opened' \in File /\ cache[req.host] \in Client /\ opened' = opened + 1
    BY <1>10, <1>d DEF OpenFile, Executes, Found, Key, File
  <2>2. table' \in [Client -> [Handle -> 0..MaxFiles]]
    BY <1>10, <2>1 DEF OpenFile, Found, Key, File
  <2>3. fcon' \in [File -> 0..MaxClients]
    BY <1>10, <2>1 DEF OpenFile, Found, Key, Client
  <2>4. fhan' \in [File -> 0..MaxHandles]
    <3>1. hd \in 0..MaxHandles
      BY DEF Handle
    <3> QED
      BY <1>10, <3>1 DEF OpenFile
  <2>5. file' \in [File -> {"none", "open", "closing", "closed"}] /\ clean' \in [File -> BOOLEAN]
    BY <1>10 DEF OpenFile
  <2>6. on' \in Names /\ at' = "idle" /\ opened' \in 0..MaxFiles
    BY <1>10, <2>1 DEF OpenFile, Executes, Found, Key, File
  <2> QED
    BY <1>10, <2>2, <2>3, <2>4, <2>5, <2>6 DEF OpenFile
<1>11. ASSUME NEW f \in File, Close(f) \/ Watcher(f) PROVE TypeOK'
  <2>1. fcon[f] \in Client /\ fhan[f] \in Handle
    BY <1>11, <1>g DEF Close, Watcher
  <2>2. table' \in [Client -> [Handle -> 0..MaxFiles]]
    BY <1>11, <2>1 DEF Close, Watcher, SendClose
  <2> QED
    BY <1>11, <2>2 DEF Close, Watcher
<1>12. ASSUME NEW ended, EndSessions(ended)
       PROVE /\ sess' \in [Client -> {"none", "open", "closed"}]
             /\ table' \in [Client -> [Handle -> 0..MaxFiles]]
  BY <1>12 DEF EndSessions
<1>13. CASE CloseClients
  BY <1>12, <1>13 DEF CloseClients
<1>14. ASSUME NEW c \in Client, RemoteDrops(c) PROVE TypeOK'
  BY <1>12, <1>14 DEF RemoteDrops
<1>15. ASSUME NEW c \in Client, WaiterReleases(c) PROVE TypeOK'
  <2>1. refs' \in [Client -> Nat]
    BY <1>15, <1>f DEF WaiterReleases
  <2> QED
    BY <1>15, <2>1 DEF WaiterReleases
<1>16. CASE UNCHANGED vars
  BY <1>16 DEF vars
<1> QED
  BY <1>1, <1>2, <1>3, <1>4, <1>5, <1>6, <1>7, <1>8, <1>9, <1>10, <1>11, <1>13, <1>14,
     <1>15, <1>16 DEF Next, Worker

\* A step of the worker leaves the next one what it needs.
LEMMA WorkStep == IInv /\ [Next]_vars => WorkInv'
<1> SUFFICES ASSUME IInv, [Next]_vars PROVE WorkInv'
  OBVIOUS
<1> USE GatewayAssumption, RequestHost DEF IInv, TypeOK, Client, Goto, workVars, connVars, fileVars, WorkInv, ConnInv, Setup
<1>1. CASE \E r \in Requests : Receive(r)
  BY <1>1 DEF Receive, Key
<1>2. CASE DialFails \/ AcquireFails \/ CommandFails \/ ServeEnds \/ HangUp
  BY <1>2 DEF DialFails, AcquireFails, CommandFails, ServeEnds, HangUp
<1>3. CASE DialSucceeds
  BY <1>3 DEF DialSucceeds
<1>4. CASE Acquire
  BY <1>4 DEF Acquire
<1>5. CASE SubsystemFails
  BY <1>5 DEF SubsystemFails
<1>6. CASE SubsystemStarts
  BY <1>6 DEF SubsystemStarts
<1>7. CASE GetwdFails
  BY <1>7 DEF GetwdFails
<1>8. CASE GetwdSucceeds
  BY <1>8 DEF GetwdSucceeds, Key
<1>9. CASE Command
  BY <1>9 DEF Command, Executes, Found, Key
<1>10. ASSUME NEW hd \in Handle, OpenFile(hd) PROVE WorkInv'
  BY <1>10 DEF OpenFile, Executes, Found, Key
<1>11. ASSUME NEW f \in File, Close(f) \/ Watcher(f) PROVE WorkInv'
  BY <1>11 DEF Close, Watcher, SendClose
<1>12. CASE CloseClients
  BY <1>12 DEF CloseClients, EndSessions, Cached
<1>13. ASSUME NEW c \in Client, RemoteDrops(c) PROVE WorkInv'
  BY <1>13 DEF RemoteDrops, EndSessions
<1>14. ASSUME NEW c \in Client, WaiterReleases(c) PROVE WorkInv'
  BY <1>14 DEF WaiterReleases
<1>15. CASE UNCHANGED vars
  BY <1>15 DEF vars
<1> QED
  BY <1>1, <1>2, <1>3, <1>4, <1>5, <1>6, <1>7, <1>8, <1>9, <1>10, <1>11, <1>12, <1>13, <1>14, <1>15
     DEF Next, Worker

\* The cache names clients that were really set up, for the right host.
LEMMA ConnStep == IInv /\ [Next]_vars => ConnInv'
<1> SUFFICES ASSUME IInv, [Next]_vars PROVE ConnInv'
  OBVIOUS
<1> USE GatewayAssumption, RequestHost DEF IInv, TypeOK, Client, Goto, workVars, connVars, fileVars, WorkInv, ConnInv, Setup
<1>1. CASE \E r \in Requests : Receive(r)
  BY <1>1 DEF Receive, Key
<1>2. CASE DialFails \/ AcquireFails \/ CommandFails \/ ServeEnds \/ HangUp
  BY <1>2 DEF DialFails, AcquireFails, CommandFails, ServeEnds, HangUp
<1>3. CASE DialSucceeds
  BY <1>3 DEF DialSucceeds
<1>4. CASE Acquire
  BY <1>4 DEF Acquire
<1>5. CASE SubsystemFails
  BY <1>5 DEF SubsystemFails
<1>6. CASE SubsystemStarts
  BY <1>6 DEF SubsystemStarts
<1>7. CASE GetwdFails
  BY <1>7 DEF GetwdFails
<1>8. CASE GetwdSucceeds
  BY <1>8 DEF GetwdSucceeds, Key
<1>9. CASE Command
  BY <1>9 DEF Command, Executes, Found, Key
<1>10. ASSUME NEW hd \in Handle, OpenFile(hd) PROVE ConnInv'
  BY <1>10 DEF OpenFile, Executes, Found, Key
<1>11. ASSUME NEW f \in File, Close(f) \/ Watcher(f) PROVE ConnInv'
  BY <1>11 DEF Close, Watcher, SendClose
<1>12. CASE CloseClients
  BY <1>12 DEF CloseClients, EndSessions, Cached
<1>13. ASSUME NEW c \in Client, RemoteDrops(c) PROVE ConnInv'
  BY <1>13 DEF RemoteDrops, EndSessions
<1>14. ASSUME NEW c \in Client, WaiterReleases(c) PROVE ConnInv'
  BY <1>14 DEF WaiterReleases
<1>15. CASE UNCHANGED vars
  BY <1>15 DEF vars
<1> QED
  BY <1>1, <1>2, <1>3, <1>4, <1>5, <1>6, <1>7, <1>8, <1>9, <1>10, <1>11, <1>12, <1>13, <1>14, <1>15
     DEF Next, Worker

\* No step leaves an SFTP session behind.
LEMMA StrayStep == IInv /\ [Next]_vars => NoStray'
<1> SUFFICES ASSUME IInv, [Next]_vars PROVE NoStray'
  OBVIOUS
<1> USE GatewayAssumption, RequestHost DEF IInv, TypeOK, Client, Goto, workVars, connVars, fileVars, WorkInv, ConnInv, Setup, NoStray
<1>1. CASE \E r \in Requests : Receive(r)
  BY <1>1 DEF Receive, Key
<1>2. CASE DialFails \/ AcquireFails \/ CommandFails \/ ServeEnds \/ HangUp
  BY <1>2 DEF DialFails, AcquireFails, CommandFails, ServeEnds, HangUp
<1>3. CASE DialSucceeds
  BY <1>3 DEF DialSucceeds
<1>4. CASE Acquire
  BY <1>4 DEF Acquire
<1>5. CASE SubsystemFails
  BY <1>5 DEF SubsystemFails
<1>6. CASE SubsystemStarts
  BY <1>6 DEF SubsystemStarts
<1>7. CASE GetwdFails
  BY <1>7 DEF GetwdFails
<1>8. CASE GetwdSucceeds
  BY <1>8 DEF GetwdSucceeds, Key
<1>9. CASE Command
  BY <1>9 DEF Command, Executes, Found, Key
<1>10. ASSUME NEW hd \in Handle, OpenFile(hd) PROVE NoStray'
  BY <1>10 DEF OpenFile, Executes, Found, Key
<1>11. ASSUME NEW f \in File, Close(f) \/ Watcher(f) PROVE NoStray'
  BY <1>11 DEF Close, Watcher, SendClose
<1>12. CASE CloseClients
  BY <1>12 DEF CloseClients, EndSessions, Cached
<1>13. ASSUME NEW c \in Client, RemoteDrops(c) PROVE NoStray'
  BY <1>13 DEF RemoteDrops, EndSessions
<1>14. ASSUME NEW c \in Client, WaiterReleases(c) PROVE NoStray'
  BY <1>14 DEF WaiterReleases
<1>15. CASE UNCHANGED vars
  BY <1>15 DEF vars
<1> QED
  BY <1>1, <1>2, <1>3, <1>4, <1>5, <1>6, <1>7, <1>8, <1>9, <1>10, <1>11, <1>12, <1>13, <1>14, <1>15
     DEF Next, Worker

\* Every step keeps the counts.
LEMMA RefsStep == IInv /\ [Next]_vars => RefsBalanced'
<1> SUFFICES ASSUME IInv, [Next]_vars PROVE RefsBalanced'
  OBVIOUS
<1> USE GatewayAssumption, RequestHost DEF IInv, TypeOK, Client, Goto, workVars, connVars, fileVars, WorkInv, ConnInv, Setup, RefsBalanced
<1>1. CASE \E r \in Requests : Receive(r)
  BY <1>1 DEF Receive, Key
<1>2. CASE DialFails \/ AcquireFails \/ CommandFails \/ ServeEnds \/ HangUp
  BY <1>2 DEF DialFails, AcquireFails, CommandFails, ServeEnds, HangUp
<1>3. CASE DialSucceeds
  BY <1>3 DEF DialSucceeds
<1>4. CASE Acquire
  BY <1>4 DEF Acquire
<1>5. CASE SubsystemFails
  BY <1>5 DEF SubsystemFails
<1>6. CASE SubsystemStarts
  BY <1>6 DEF SubsystemStarts
<1>7. CASE GetwdFails
  BY <1>7 DEF GetwdFails
<1>8. CASE GetwdSucceeds
  BY <1>8 DEF GetwdSucceeds, Key
<1>9. CASE Command
  BY <1>9 DEF Command, Executes, Found, Key
<1>10. ASSUME NEW hd \in Handle, OpenFile(hd) PROVE RefsBalanced'
  BY <1>10 DEF OpenFile, Executes, Found, Key
<1>11. ASSUME NEW f \in File, Close(f) \/ Watcher(f) PROVE RefsBalanced'
  BY <1>11 DEF Close, Watcher, SendClose
<1>12. CASE CloseClients
  BY <1>12 DEF CloseClients, EndSessions, Cached
<1>13. ASSUME NEW c \in Client, RemoteDrops(c) PROVE RefsBalanced'
  BY <1>13 DEF RemoteDrops, EndSessions
<1>14. ASSUME NEW c \in Client, WaiterReleases(c) PROVE RefsBalanced'
  BY <1>14 DEF WaiterReleases
<1>15. CASE UNCHANGED vars
  BY <1>15 DEF vars
<1> QED
  BY <1>1, <1>2, <1>3, <1>4, <1>5, <1>6, <1>7, <1>8, <1>9, <1>10, <1>11, <1>12, <1>13, <1>14, <1>15
     DEF Next, Worker

\* Every step acts on the host named.
LEMMA HostStep == IInv /\ [Next]_vars => ActsOnNamedHost'
<1> SUFFICES ASSUME IInv, [Next]_vars PROVE ActsOnNamedHost'
  OBVIOUS
<1> USE GatewayAssumption, RequestHost DEF IInv, TypeOK, Client, Goto, workVars, connVars, fileVars, WorkInv, ConnInv, Setup, ActsOnNamedHost
<1>1. CASE \E r \in Requests : Receive(r)
  BY <1>1 DEF Receive, Key
<1>2. CASE DialFails \/ AcquireFails \/ CommandFails \/ ServeEnds \/ HangUp
  BY <1>2 DEF DialFails, AcquireFails, CommandFails, ServeEnds, HangUp
<1>3. CASE DialSucceeds
  BY <1>3 DEF DialSucceeds
<1>4. CASE Acquire
  BY <1>4 DEF Acquire
<1>5. CASE SubsystemFails
  BY <1>5 DEF SubsystemFails
<1>6. CASE SubsystemStarts
  BY <1>6 DEF SubsystemStarts
<1>7. CASE GetwdFails
  BY <1>7 DEF GetwdFails
<1>8. CASE GetwdSucceeds
  BY <1>8 DEF GetwdSucceeds, Key
<1>9. CASE Command
  BY <1>9 DEF Command, Executes, Found, Key
<1>10. ASSUME NEW hd \in Handle, OpenFile(hd) PROVE ActsOnNamedHost'
  BY <1>10 DEF OpenFile, Executes, Found, Key
<1>11. ASSUME NEW f \in File, Close(f) \/ Watcher(f) PROVE ActsOnNamedHost'
  BY <1>11 DEF Close, Watcher, SendClose
<1>12. CASE CloseClients
  BY <1>12 DEF CloseClients, EndSessions, Cached
<1>13. ASSUME NEW c \in Client, RemoteDrops(c) PROVE ActsOnNamedHost'
  BY <1>13 DEF RemoteDrops, EndSessions
<1>14. ASSUME NEW c \in Client, WaiterReleases(c) PROVE ActsOnNamedHost'
  BY <1>14 DEF WaiterReleases
<1>15. CASE UNCHANGED vars
  BY <1>15 DEF vars
<1> QED
  BY <1>1, <1>2, <1>3, <1>4, <1>5, <1>6, <1>7, <1>8, <1>9, <1>10, <1>11, <1>12, <1>13, <1>14, <1>15
     DEF Next, Worker

\* No step takes a clean file away.
LEMMA FileStep == IInv /\ [Next]_vars => FileInv'
<1> SUFFICES ASSUME IInv, [Next]_vars PROVE FileInv'
  OBVIOUS
<1> USE GatewayAssumption, RequestHost DEF IInv, TypeOK, Client, Goto, workVars, connVars, fileVars, File, Handle, WorkInv, ConnInv, Setup, FileInv, Kept, Claims
<1>1. CASE \E r \in Requests : Receive(r)
  BY <1>1 DEF Receive, Key
<1>2. CASE DialFails \/ AcquireFails \/ CommandFails \/ ServeEnds \/ HangUp
  <2>1. UNCHANGED <<sess, fileVars>>
    BY <1>2 DEF DialFails, AcquireFails, CommandFails, ServeEnds, HangUp
  <2> QED
    BY <2>1
<1>3. CASE DialSucceeds
  BY <1>3 DEF DialSucceeds
<1>4. CASE Acquire
  BY <1>4 DEF Acquire
<1>5. CASE SubsystemFails
  BY <1>5 DEF SubsystemFails
<1>6. CASE SubsystemStarts
  BY <1>6 DEF SubsystemStarts
<1>7. CASE GetwdFails
  BY <1>7 DEF GetwdFails
<1>8. CASE GetwdSucceeds
  BY <1>8 DEF GetwdSucceeds, Key
<1>9. CASE Command
  BY <1>9 DEF Command, Executes, Found, Key
<1>10. ASSUME NEW hd \in Handle, OpenFile(hd) PROVE FileInv'
  <2>n. PICK n : n = opened + 1
    OBVIOUS
  <2>o. PICK c : c = cache[req.host]
    OBVIOUS
  <2>a. at = "command" /\ opened < MaxFiles /\ sess[c] = "open" /\ table[c][hd] = 0
    BY <1>10, <2>o DEF OpenFile, Executes, Found, Key
  <2>b. c \in Client /\ c # 0
    BY <2>a, <2>o
  <2>c. n \in File /\ file[n] = "none" /\ hd # 0
    BY <2>a, <2>n
  <2>1. /\ c \in Client /\ c # 0 /\ sess[c] = "open" /\ table[c][hd] = 0
        /\ n \in File /\ file[n] = "none" /\ hd # 0
    BY <2>a, <2>b, <2>c
  <2>2. /\ opened' = n
        /\ file' = [file EXCEPT ![n] = "open"]
        /\ fcon' = [fcon EXCEPT ![n] = c]
        /\ fhan' = [fhan EXCEPT ![n] = hd]
        /\ clean' = [clean EXCEPT ![n] = \A g \in File : ~Claims(g, c, hd)]
        /\ table' = [table EXCEPT ![c][hd] = n]
        /\ sess' = sess
    BY <1>10, <2>n, <2>o DEF OpenFile, Executes, Found, Key
  <2> SUFFICES ASSUME NEW e \in File PROVE Kept(e)'
    BY DEF FileInv
  <2>3. CASE e = n
    BY <2>1, <2>2, <2>3
  <2>4. CASE e # n
    <3>1. /\ file'[e] = file[e] /\ fcon'[e] = fcon[e] /\ fhan'[e] = fhan[e]
          /\ clean'[e] = clean[e] /\ (e <= opened' <=> e <= opened) /\ (e > opened' <=> e > opened)
      BY <2>n, <2>1, <2>2, <2>4
    <3>2. SUFFICES ASSUME file[e] = "open", clean[e], sess[fcon[e]] = "open"
          PROVE  /\ table'[fcon[e]][fhan[e]] = e
                 /\ \A g \in File : g # e => ~Claims(g, fcon[e], fhan[e])'
      <4>1. sess' = sess /\ Kept(e)
        BY <2>2 DEF FileInv
      <4> QED
        BY <3>1, <4>1
    <3>a. opened \in Nat /\ e \in Nat
      OBVIOUS
    <3>b. e <= opened
      BY <3>2, <3>a
    <3>c. fcon[e] \in Client /\ fhan[e] \in Handle
      <4>1. Kept(e) /\ fcon[e] \in 0..MaxClients /\ fhan[e] \in 0..MaxHandles
        BY DEF FileInv
      <4> QED
        BY <3>b, <4>1
    <3>3. /\ table[fcon[e]][fhan[e]] = e /\ e # 0
          /\ \A g \in File : g # e => ~Claims(g, fcon[e], fhan[e])
      BY <3>2
    <3>4. ~(c = fcon[e] /\ hd = fhan[e])
      BY <2>1, <3>3
    <3>5. table'[fcon[e]][fhan[e]] = e
      <4>1. table \in [Client -> [Handle -> 0..MaxFiles]]
        OBVIOUS
      <4>2. [table EXCEPT ![c][hd] = n][fcon[e]][fhan[e]] = table[fcon[e]][fhan[e]]
        <5>1. CASE fcon[e] = c
          BY ONLY <3>c, <3>4, <4>1, <5>1, SMT
        <5>2. CASE fcon[e] # c
          BY ONLY <3>c, <4>1, <5>2, SMT
        <5> QED
          BY ONLY <5>1, <5>2
      <4> QED
        BY <2>2, <3>3, <4>2
    <3>6. ASSUME NEW g \in File, g # e PROVE ~Claims(g, fcon[e], fhan[e])'
      <4>1. CASE g = n
        BY <2>1, <2>2, <3>1, <3>4, <4>1
      <4>2. CASE g # n
        <5>1. file'[g] = file[g] /\ fcon'[g] = fcon[g] /\ fhan'[g] = fhan[g]
          BY <2>2, <4>2
        <5> QED
          BY <3>1, <3>3, <3>6, <5>1
      <4> QED
        BY <4>1, <4>2
    <3> QED
      BY <3>5, <3>6
  <2> QED
    BY <2>3, <2>4
<1>11. ASSUME NEW f \in File, Close(f) \/ Watcher(f) PROVE FileInv'
  <2>1. /\ file[f] \in {"open", "closing"} /\ sess' = sess
        /\ file' = [file EXCEPT ![f] = file'[f]] /\ file'[f] \in {"closing", "closed"}
        /\ table' = [table EXCEPT ![fcon[f]][fhan[f]] = 0]
        /\ UNCHANGED <<opened, fcon, fhan, clean>>
    <3>1. CASE Close(f)
      BY <3>1 DEF Close, SendClose
    <3>2. CASE Watcher(f)
      BY <3>2 DEF Watcher, SendClose
    <3> QED
      BY <1>11, <3>1, <3>2
  <2> SUFFICES ASSUME NEW e \in File PROVE Kept(e)'
    BY DEF FileInv
  <2>2. CASE e = f
    BY <2>1, <2>2
  <2>3. CASE e # f
    <3>1. file'[e] = file[e]
      BY <2>1, <2>3
    <3>2. SUFFICES ASSUME file[e] = "open", clean[e], sess[fcon[e]] = "open"
          PROVE  /\ table'[fcon[e]][fhan[e]] = e
                 /\ \A g \in File : g # e => ~Claims(g, fcon[e], fhan[e])'
      BY <2>1, <3>1
    <3>3. /\ table[fcon[e]][fhan[e]] = e
          /\ \A g \in File : g # e => ~Claims(g, fcon[e], fhan[e])
          /\ fcon[e] \in Client /\ fhan[e] \in Handle
      BY <3>2
    <3>4. ~(fcon[f] = fcon[e] /\ fhan[f] = fhan[e])
      BY <2>1, <2>3, <3>3
    <3>5. table'[fcon[e]][fhan[e]] = e
      <4>1. table \in [Client -> [Handle -> 0..MaxFiles]]
        OBVIOUS
      <4>2. [table EXCEPT ![fcon[f]][fhan[f]] = 0][fcon[e]][fhan[e]] = table[fcon[e]][fhan[e]]
        BY ONLY <3>3, <3>4, <4>1, OtherEntry, Zenon
      <4> QED
        BY <2>1, <3>3, <4>2
    <3>6. ASSUME NEW g \in File, g # e PROVE ~Claims(g, fcon[e], fhan[e])'
      BY <2>1, <3>3, <3>6
    <3> QED
      BY <3>5, <3>6
  <2> QED
    BY <2>2, <2>3
<1>12. CASE CloseClients
  BY <1>12 DEF CloseClients, EndSessions, Cached
<1>13. ASSUME NEW c \in Client, RemoteDrops(c) PROVE FileInv'
  BY <1>13 DEF RemoteDrops, EndSessions
<1>14. ASSUME NEW c \in Client, WaiterReleases(c) PROVE FileInv'
  BY <1>14 DEF WaiterReleases
<1>15. CASE UNCHANGED vars
  BY <1>15 DEF vars
<1> QED
  BY <1>1, <1>2, <1>3, <1>4, <1>5, <1>6, <1>7, <1>8, <1>9, <1>10, <1>11, <1>12, <1>13, <1>14, <1>15
     DEF Next, Worker

\* The strengthened invariant of the gateway.
THEOREM InvariantHolds == Spec => []IInv
<1>1. Init => IInv
  BY GatewayAssumption DEF Init, IInv, TypeOK, WorkInv, ConnInv, FileInv, Kept, NoStray, RefsBalanced,
     ActsOnNamedHost, Requests, NoRequest, Names, Client, File, Handle, Setup
<1>2. IInv /\ [Next]_vars => IInv'
  BY TypeStep, WorkStep, ConnStep, StrayStep, RefsStep, HostStep, FileStep DEF IInv
<1> QED
  BY <1>1, <1>2, PTL DEF Spec

\* Every variable of the gateway keeps its type, for any number of hosts.
THEOREM TypeCorrect == Spec => []TypeOK
<1>1. IInv => TypeOK
  BY DEF IInv
<1> QED
  BY <1>1, InvariantHolds, PTL

\* CreateSftpConn, GetSftpCon: no SFTP session is open outside the cache.
THEOREM ConnectionsKept == Spec => []NoStray
<1>1. IInv => NoStray
  BY DEF IInv
<1> QED
  BY <1>1, InvariantHolds, PTL

\* AcquireSession, ReleaseSession: each session is counted and released once.
THEOREM ReleasedOnce == Spec => []RefsBalanced
<1>1. IInv => RefsBalanced
  BY DEF IInv
<1> QED
  BY <1>1, InvariantHolds, PTL

\* getRemotHost, GetSftpCon: a command acts on the host its first path names.
THEOREM RightHost == Spec => []ActsOnNamedHost
<1>1. IInv => ActsOnNamedHost
  BY DEF IInv
<1> QED
  BY <1>1, InvariantHolds, PTL

\* Filewrite, Fileread: the second close of a file harms no clean one.
THEOREM CleanKept == Spec => []CleanFilesKept
<1>1. IInv => CleanFilesKept
  BY GatewayAssumption DEF IInv, TypeOK, FileInv, Kept, CleanFilesKept, File
<1> QED
  BY <1>1, InvariantHolds, PTL

-----------------------------------------------------------------------------
(* RemoteTree, for every tree: paths. *)

LEMMA FrontLast ==
  ASSUME NEW s \in Seq(Name), s # <<>>
  PROVE  /\ Front(s) \in Seq(Name) /\ Last(s) \in Name
         /\ Len(Front(s)) = Len(s) - 1 /\ Len(s) \in Nat \ {0}
         /\ \A i \in 1..(Len(s) - 1) : Front(s)[i] = s[i]
         /\ s = Append(Front(s), Last(s))
<1>1. Len(s) \in Nat \ {0}
  BY EmptySeq
<1>2. \A i \in 1..Len(s) : s[i] \in Name
  BY ElementOfSeq
<1> DEFINE o == SubSeq(s, 1, Len(s) - 1)
<1>3. o \in Seq(Name) /\ Len(o) = Len(s) - 1 /\ \A i \in 1..(Len(s) - 1) : o[i] = s[i]
  <2>1. \A i \in 1..(Len(s) - 1) : s[i] \in Name
    BY <1>1, <1>2
  <2>2. /\ o \in Seq(Name)
        /\ Len(o) = IF 1 <= Len(s) - 1 THEN Len(s) - 1 - 1 + 1 ELSE 0
        /\ \A i \in 1..(Len(s) - 1 - 1 + 1) : o[i] = s[1 + i - 1]
    BY <1>1, <2>1, SubSeqProperties
  <2> DEFINE k == Len(s)
  <2>3. k \in Nat \ {0} /\ Len(o) = IF 1 <= k - 1 THEN k - 1 - 1 + 1 ELSE 0
    BY <1>1, <2>2
  <2>4. \A i \in 1..(k - 1 - 1 + 1) : o[i] = s[1 + i - 1]
    BY <2>2
  <2> HIDE DEF k, o
  <2>5. Len(o) = k - 1
    BY <2>3
  <2>6. k - 1 - 1 + 1 = k - 1 /\ \A i \in 1..(k - 1) : 1 + i - 1 = i
    BY <2>3
  <2> QED BY <2>2, <2>4, <2>5, <2>6 DEF k
<1> HIDE DEF o
<1>4. s[Len(s)] \in Name
  BY <1>1, <1>2
<1> DEFINE a == Append(o, s[Len(s)])
<1>5. s = a
  <2>1. a \in Seq(Name) /\ Len(a) = Len(s) /\ a[Len(s)] = s[Len(s)]
    BY <1>1, <1>3, <1>4, AppendProperties
  <2>2. \A i \in 1..(Len(s) - 1) : a[i] = s[i]
    BY <1>1, <1>3, <1>4, AppendProperties
  <2> HIDE DEF a
  <2>3. \A i \in 1..Len(s) : s[i] = a[i]
    BY <1>1, <2>1, <2>2
  <2> QED BY <2>1, <2>3, SeqEqual
<1>6. Front(s) = o /\ Last(s) = s[Len(s)]
  BY DEF Front, Last, o
<1> QED BY <1>1, <1>3, <1>4, <1>5, <1>6

LEMMA FrontOfAppend ==
  ASSUME NEW s \in Seq(Name), NEW n \in Name
  PROVE  /\ Append(s, n) \in Seq(Name) /\ Append(s, n) # <<>>
         /\ Front(Append(s, n)) = s /\ Last(Append(s, n)) = n
<1> DEFINE a == Append(s, n)
<1>1. a \in Seq(Name) /\ a # <<>>
  BY AppendProperties
<1>2. Front(a) \in Seq(Name) /\ Last(a) \in Name /\ a = Append(Front(a), Last(a))
  BY <1>1, FrontLast
<1>3. Front(a) = s /\ Last(a) = n
  BY <1>2, AppendInjective
<1> QED BY <1>1, <1>3

LEMMA PrefixAt ==
  ASSUME NEW s \in Seq(Name), NEW t \in Seq(Name)
  PROVE  IsPrefix(s, t) <=> Len(s) <= Len(t) /\ \A i \in 1..Len(s) : s[i] = t[i]
<1>1. Len(s) \in Nat /\ Len(t) \in Nat
  BY LenProperties
<1> SUFFICES ASSUME Len(s) <= Len(t)
             PROVE  SubSeq(s, 1, Len(s)) = SubSeq(t, 1, Len(s))
                      <=> \A i \in 1..Len(s) : s[i] = t[i]
  BY DEF IsPrefix
<1>2. SubSeq(s, 1, Len(s)) = s
  BY SubSeqFull
<1> DEFINE p == SubSeq(t, 1, Len(s))
<1>3. p \in Seq(Name) /\ Len(p) = Len(s) /\ \A i \in 1..Len(s) : p[i] = t[i]
  <2>1. \A i \in 1..Len(s) : t[i] \in Name
    BY <1>1, ElementOfSeq
  <2>2. /\ p \in Seq(Name)
        /\ Len(p) = IF 1 <= Len(s) THEN Len(s) - 1 + 1 ELSE 0
        /\ \A i \in 1..(Len(s) - 1 + 1) : p[i] = t[1 + i - 1]
    BY <1>1, <2>1, SubSeqProperties
  <2> HIDE DEF p
  <2> QED BY <1>1, <2>2
<1> HIDE DEF p
<1>4. ASSUME \A i \in 1..Len(s) : s[i] = t[i] PROVE s = p
  BY <1>3, <1>4, SeqEqual
<1>5. s = p => \A i \in 1..Len(s) : s[i] = t[i]
  BY <1>3
<1> QED BY <1>2, <1>4, <1>5 DEF p

LEMMA PrefixOrder ==
  ASSUME NEW s \in Seq(Name), NEW t \in Seq(Name), NEW u \in Seq(Name)
  PROVE  /\ IsPrefix(<<>>, s) /\ IsPrefix(s, s)
         /\ (IsPrefix(s, t) /\ IsPrefix(t, u)) => IsPrefix(s, u)
         /\ IsPrefix(s, t) => Len(s) <= Len(t)
         /\ (IsPrefix(s, t) /\ Len(s) = Len(t)) => s = t
<1>1. Len(s) \in Nat /\ Len(t) \in Nat /\ Len(u) \in Nat
  BY LenProperties
<1>2. IsPrefix(s, s)
  BY <1>1, PrefixAt
<1>3. IsPrefix(<<>>, s)
  <2>1. <<>> \in Seq(Name) /\ Len(<<>>) = 0
    BY EmptySeq
  <2>2. IsPrefix(<<>>, s) <=> Len(<<>>) <= Len(s) /\ \A i \in 1..Len(<<>>) : <<>>[i] = s[i]
    BY <2>1, PrefixAt
  <2> DEFINE l == Len(<<>>)
  <2>3. Len(<<>>) <= Len(s) /\ \A i : i \notin 1..Len(<<>>)
    <3>1. l = 0
      BY <2>1
    <3> HIDE DEF l
    <3>2. l <= Len(s) /\ \A i : i \notin 1..l
      BY <1>1, <3>1
    <3> QED BY <3>2 DEF l
  <2> QED BY <2>2, <2>3
<1>4. IsPrefix(s, t) => Len(s) <= Len(t)
  BY DEF IsPrefix
<1>5. ASSUME IsPrefix(s, t), IsPrefix(t, u) PROVE IsPrefix(s, u)
  <2>1. Len(s) <= Len(t) /\ \A i \in 1..Len(s) : s[i] = t[i]
    BY <1>5, PrefixAt
  <2>2. Len(t) <= Len(u) /\ \A i \in 1..Len(t) : t[i] = u[i]
    BY <1>5, PrefixAt
  <2>3. \A i \in 1..Len(s) : s[i] = u[i]
    BY <1>1, <2>1, <2>2
  <2> QED BY <1>1, <2>1, <2>2, <2>3, PrefixAt
<1>6. ASSUME IsPrefix(s, t), Len(s) = Len(t) PROVE s = t
  <2>1. \A i \in 1..Len(s) : s[i] = t[i]
    BY <1>6, PrefixAt
  <2> QED BY <1>6, <2>1, SeqEqual
<1> QED BY <1>2, <1>3, <1>4, <1>5, <1>6

\* What is above Append(s, n) is s and what is above s.
LEMMA PrefixOfAppend ==
  ASSUME NEW s \in Seq(Name), NEW t \in Seq(Name), NEW n \in Name
  PROVE  /\ IsStrictPrefix(t, Append(s, n)) <=> IsPrefix(t, s)
         /\ IsPrefix(s, Append(s, n))
<1> DEFINE a == Append(s, n)
<1>1. /\ a \in Seq(Name) /\ Len(a) = Len(s) + 1
      /\ \A i \in 1..Len(s) : a[i] = s[i]
  BY AppendProperties
<1> HIDE DEF a
<1>2. Len(s) \in Nat /\ Len(t) \in Nat
  BY LenProperties
<1>3. IsPrefix(s, a)
  BY <1>1, <1>2, PrefixAt
<1>4. ASSUME IsPrefix(t, s) PROVE IsStrictPrefix(t, a)
  <2>1. IsPrefix(t, a) /\ Len(t) <= Len(s)
    BY <1>1, <1>3, <1>4, PrefixOrder
  <2>2. t # a
    BY <1>1, <1>2, <2>1
  <2> QED BY <2>1, <2>2 DEF IsStrictPrefix
<1>5. ASSUME IsStrictPrefix(t, a) PROVE IsPrefix(t, s)
  <2>1. IsPrefix(t, a) /\ t # a
    BY <1>5 DEF IsStrictPrefix
  <2>2. Len(t) <= Len(a) /\ \A i \in 1..Len(t) : t[i] = a[i]
    BY <1>1, <2>1, PrefixAt
  <2>3. Len(t) # Len(a)
    BY <1>1, <2>1, PrefixOrder
  <2>4. Len(t) <= Len(s)
    BY <1>1, <1>2, <2>2, <2>3
  <2>5. \A i \in 1..Len(t) : t[i] = s[i]
    BY <1>1, <1>2, <2>2, <2>4
  <2> QED BY <2>4, <2>5, PrefixAt
<1> QED BY <1>3, <1>4, <1>5 DEF a

\* On the way from s to what is below it there is an entry of s.
LEMMA NextOnTheWay ==
  ASSUME NEW s \in Seq(Name), NEW t \in Seq(Name), IsStrictPrefix(s, t)
  PROVE  LET c == SubSeq(t, 1, Len(s) + 1)
         IN  /\ c \in Seq(Name) /\ c # <<>> /\ Front(c) = s
             /\ IsPrefix(c, t) /\ Len(s) + 1 \in 0..Len(t)
<1> DEFINE c == SubSeq(t, 1, Len(s) + 1)
<1>1. Len(s) \in Nat /\ Len(t) \in Nat
  BY LenProperties
<1>2. IsPrefix(s, t) /\ s # t
  BY DEF IsStrictPrefix
<1>3. Len(s) <= Len(t) /\ Len(s) # Len(t) /\ \A i \in 1..Len(s) : s[i] = t[i]
  BY <1>2, PrefixAt, PrefixOrder
<1>4. Len(s) + 1 \in 1..Len(t)
  BY <1>1, <1>3
<1>5. c \in Seq(Name) /\ Len(c) = Len(s) + 1 /\ \A i \in 1..(Len(s) + 1) : c[i] = t[i]
  <2>1. \A i \in 1..(Len(s) + 1) : t[i] \in Name
    BY <1>1, <1>4, ElementOfSeq
  <2>2. /\ c \in Seq(Name)
        /\ Len(c) = IF 1 <= Len(s) + 1 THEN Len(s) + 1 - 1 + 1 ELSE 0
        /\ \A i \in 1..(Len(s) + 1 - 1 + 1) : c[i] = t[1 + i - 1]
    BY <1>1, <2>1, SubSeqProperties
  <2> HIDE DEF c
  <2> QED BY <1>1, <2>2
<1> HIDE DEF c
<1>6. c # <<>>
  BY <1>1, <1>5, EmptySeq
<1>7. Front(c) = s
  <2>1. /\ Front(c) \in Seq(Name) /\ Len(Front(c)) = Len(s)
        /\ \A i \in 1..Len(s) : Front(c)[i] = c[i]
    <3>1. /\ Front(c) \in Seq(Name) /\ Len(Front(c)) = Len(c) - 1
          /\ \A i \in 1..(Len(c) - 1) : Front(c)[i] = c[i]
      BY <1>5, <1>6, FrontLast
    <3>2. Len(c) - 1 = Len(s)
      BY <1>1, <1>5
    <3> QED BY <3>1, <3>2
  <2>2. \A i \in 1..Len(s) : Front(c)[i] = s[i]
    BY <1>1, <1>3, <1>5, <2>1
  <2> QED BY <2>1, <2>2, SeqEqual
<1>8. IsPrefix(c, t)
  BY <1>1, <1>4, <1>5, PrefixAt
<1>9. Len(s) + 1 \in 0..Len(t)
  BY <1>1, <1>4
<1> QED BY <1>5, <1>6, <1>7, <1>8, <1>9 DEF c

-----------------------------------------------------------------------------
(* The remote host follows a path. *)

LEMMA LeastNumber ==
  ASSUME NEW S \in SUBSET Nat, S # {}
  PROVE  \E m \in S : \A k \in S : m <= k
<1> DEFINE R == {ss \in Nat \X Nat : ss[1] < ss[2]}
<1>1. IsWellFoundedOn(R, Nat)
  BY NatLessThanWellFounded DEF OpToRel
<1> HIDE DEF R
<1>2. PICK m \in S : \A k \in S : ~(<<k, m>> \in R)
  BY <1>1, WFMin
<1>3. ASSUME NEW k \in S PROVE m <= k
  <2>1. ~(k < m)
    BY <1>2 DEF R
  <2> QED BY <2>1
<1> QED BY <1>2, <1>3

LEMMA FollowType ==
  ASSUME NEW f \in [Place -> Thing], NEW p \in Seq(Name)
  PROVE  /\ Follow(f, p) \in Seq(Name)
         /\ p \notin Place \/ f[p].kind # "link" => Follow(f, p) = p
<1>1. ASSUME p \in Place, f[p].kind = "link" PROVE f[p].to \in Seq(Name)
  <2>1. f[p] \in [kind : {"link"}, to : Targets]
    BY <1>1 DEF Thing, Absent, Plain, Directory
  <2>2. f[p].to \in Targets
    BY <2>1
  <2> QED BY <2>2, TreeAssumption
<1> QED BY <1>1 DEF Follow

\* g is how path is followed in f, as far as its first k names.
Follows(f, path, k, g) == \A i \in 1..k : g[i] = Follow(f, Append(g[i - 1], path[i]))
Followed(f, path, k, g) ==
  g \in [0..k -> Seq(Name)] /\ g[0] = <<>> /\ Follows(f, path, k, g)

LEMMA CanFollow ==
  ASSUME NEW f \in [Place -> Thing], NEW path \in Seq(Name)
  PROVE  \E g : Followed(f, path, Len(path), g)
<1> DEFINE L == Len(path)
           Can(k) == \E g : Followed(f, path, k, g)
           Bad == {k \in Nat : k <= L /\ ~Can(k)}
<1>1. L \in Nat /\ \A i \in 1..L : path[i] \in Name
  BY LenProperties, ElementOfSeq
<1> HIDE DEF L
<1> HIDE DEF Can
<1>2. Bad = {} => Can(L)
  BY <1>1
<1>3. SUFFICES ASSUME Bad # {} PROVE FALSE
  BY <1>2 DEF Can, L
<1>4. PICK m \in Bad : \A k \in Bad : m <= k
  <2>1. Bad \in SUBSET Nat
    OBVIOUS
  <2> HIDE DEF Bad
  <2> QED BY <1>3, <2>1, LeastNumber
<1>5. m \in Nat /\ m <= L /\ ~Can(m)
  OBVIOUS
<1>6. CASE m = 0
  <2> DEFINE g == [i \in 0..0 |-> <<>>]
  <2>1. g \in [0..0 -> Seq(Name)] /\ g[0] = <<>>
    BY EmptySeq
  <2>2. \A i : i \notin 1..0
    OBVIOUS
  <2> HIDE DEF g
  <2>3. Followed(f, path, 0, g)
    BY <2>1, <2>2 DEF Followed, Follows
  <2> QED BY <1>5, <1>6, <2>3 DEF Can
<1>7. CASE m # 0
  <2>1. m - 1 \in Nat /\ m - 1 <= L /\ ~(m <= m - 1) /\ m \in 1..L
    BY <1>1, <1>5, <1>7
  <2>2. Can(m - 1)
    BY <1>4, <2>1
  <2>3. PICK g : Followed(f, path, m - 1, g)
    BY <2>2 DEF Can
  <2> DEFINE last == Follow(f, Append(g[m - 1], path[m]))
             h == [i \in 0..m |-> IF i = m THEN last ELSE g[i]]
  <2>4. /\ g \in [0..(m - 1) -> Seq(Name)] /\ g[0] = <<>>
        /\ \A i \in 1..(m - 1) : g[i] = Follow(f, Append(g[i - 1], path[i]))
    BY <2>3 DEF Followed, Follows
  <2>5. m - 1 \in 0..(m - 1)
    BY <2>1
  <2>6. last \in Seq(Name)
    <3>1. g[m - 1] \in Seq(Name) /\ path[m] \in Name
      BY <1>1, <2>1, <2>4, <2>5
    <3>2. Append(g[m - 1], path[m]) \in Seq(Name)
      BY <3>1, AppendProperties
    <3> QED BY <3>2, FollowType
  <2>7. h \in [0..m -> Seq(Name)] /\ h[0] = <<>> /\ h[m] = last
    <3>1. \A i \in 0..m : i # m => i \in 0..(m - 1)
      BY <2>1
    <3>2. 0 \in 0..m /\ 0 # m /\ m \in 0..m
      BY <1>5, <1>7
    <3> HIDE DEF last
    <3> QED BY <2>4, <2>6, <3>1, <3>2
  <2>8. \A i \in 0..m : i # m => h[i] = g[i]
    OBVIOUS
  <2>9. \A i \in 1..m : h[i] = Follow(f, Append(h[i - 1], path[i]))
    <3> TAKE i \in 1..m
    <3>1. i \in 0..m /\ i - 1 \in 0..m /\ i - 1 # m
      BY <2>1
    <3>2. h[i - 1] = g[i - 1]
      BY <2>8, <3>1
    <3>3. CASE i = m
      BY <2>7, <3>2, <3>3
    <3>4. CASE i # m
      <4>1. i \in 1..(m - 1)
        BY <2>1, <3>4
      <4>2. h[i] = g[i]
        BY <2>8, <3>1, <3>4
      <4> HIDE DEF h
      <4> QED BY <2>4, <3>2, <4>1, <4>2
    <3> QED BY <3>3, <3>4
  <2> HIDE DEF h
  <2>10. Followed(f, path, m, h)
    BY <2>7, <2>9 DEF Followed, Follows
  <2> QED BY <1>5, <2>10 DEF Can
<1> QED BY <1>6, <1>7

LEMMA FollowedOnce ==
  ASSUME NEW f, NEW path, NEW g, NEW h, NEW k \in Nat, g[0] = h[0],
         Follows(f, path, k, g), Follows(f, path, k, h)
  PROVE  \A i \in 0..k : g[i] = h[i]
<1> DEFINE Bad == {i \in 0..k : g[i] # h[i]}
<1>1. SUFFICES ASSUME Bad # {} PROVE FALSE
  OBVIOUS
<1>2. PICK m \in Bad : \A i \in Bad : m <= i
  <2>1. Bad \in SUBSET Nat
    OBVIOUS
  <2> HIDE DEF Bad
  <2> QED BY <1>1, <2>1, LeastNumber
<1>3. m \in 1..k /\ m - 1 \in 0..k /\ ~(m <= m - 1)
  OBVIOUS
<1>4. g[m - 1] = h[m - 1]
  BY <1>2, <1>3
<1>5. g[m] = h[m]
  BY <1>3, <1>4 DEF Follows
<1> QED BY <1>5

LEMMA RouteFollowed ==
  ASSUME NEW f \in [Place -> Thing], NEW path \in Seq(Name)
  PROVE  Followed(f, path, Len(path), Route(f, path))
<1> DEFINE L == Len(path)
           Body(g) == [i \in 0..L |->
                        IF i = 0 THEN <<>> ELSE Follow(f, Append(g[i - 1], path[i]))]
<1>1. L \in Nat
  BY LenProperties
<1>2. PICK g : Followed(f, path, L, g)
  BY CanFollow
<1>3. g = Body(g)
  <2>1. /\ g \in [0..L -> Seq(Name)] /\ g[0] = <<>>
        /\ \A i \in 1..L : g[i] = Follow(f, Append(g[i - 1], path[i]))
    BY <1>2 DEF Followed, Follows
  <2> HIDE DEF L
  <2>2. \A i \in 0..L : i # 0 => i \in 1..L
    BY <1>1
  <2>3. \A i \in 0..L : g[i] = Body(g)[i]
    BY <2>1, <2>2
  <2> QED BY <2>1, <2>3
<1>4. Route(f, path) = CHOOSE r : r = Body(r)
  BY DEF Route
<1> HIDE DEF Body
<1>5. Route(f, path) = Body(Route(f, path))
  BY <1>3, <1>4
<1> DEFINE r == Route(f, path)
<1> HIDE DEF r
<1>6. r = Body(r)
  BY <1>5 DEF r
<1>7. /\ r[0] = <<>>
      /\ \A i \in 1..L : r[i] = Follow(f, Append(r[i - 1], path[i]))
  <2> HIDE DEF L
  <2>1. \A i \in 0..L : r[i] = IF i = 0 THEN <<>> ELSE Follow(f, Append(r[i - 1], path[i]))
    BY <1>6 DEF Body
  <2>2. 0 \in 0..L /\ \A i \in 1..L : i \in 0..L /\ i # 0
    BY <1>1
  <2> QED BY <2>1, <2>2
<1>8. /\ g \in [0..L -> Seq(Name)] /\ g[0] = <<>>
      /\ \A i \in 1..L : g[i] = Follow(f, Append(g[i - 1], path[i]))
  BY <1>2 DEF Followed, Follows
<1> HIDE DEF L
<1>9. \A i \in 0..L : r[i] = g[i]
  <2>1. Follows(f, path, L, r) /\ Follows(f, path, L, g) /\ r[0] = g[0]
    BY <1>7, <1>8 DEF Follows
  <2> QED BY <1>1, <2>1, FollowedOnce
<1>10. r \in [0..L -> Seq(Name)]
  <2>1. r = [i \in 0..L |-> r[i]]
    BY <1>6 DEF Body
  <2> QED BY <1>8, <1>9, <2>1
<1> QED BY <1>7, <1>10 DEF Followed, Follows, L, r

\* Opening a path opens all but its last name, and follows what is then there.
LEMMA OpensAppend ==
  ASSUME NEW f \in [Place -> Thing], NEW path \in Seq(Name), NEW n \in Name
  PROVE  Opens(f, Append(path, n)) = Follow(f, Append(Opens(f, path), n))
<1> DEFINE L == Len(path)
           a == Append(path, n)
           r == Route(f, path)
           s == Route(f, a)
<1>1. /\ L \in Nat /\ a \in Seq(Name) /\ Len(a) = L + 1
      /\ a[L + 1] = n /\ \A i \in 1..L : a[i] = path[i]
  BY AppendProperties, LenProperties
<1>2. Followed(f, path, L, r) /\ Followed(f, a, Len(a), s)
  <2>1. Followed(f, path, L, r)
    BY RouteFollowed
  <2> HIDE DEF a, r
  <2> QED BY <1>1, <2>1, RouteFollowed
<1>3. Opens(f, path) = r[L] /\ Opens(f, a) = s[Len(a)]
  BY DEF Opens
<1> HIDE DEF L, a, r, s
<1>4. /\ r[0] = s[0]
      /\ \A i \in 1..L : r[i] = Follow(f, Append(r[i - 1], path[i]))
      /\ \A i \in 1..(L + 1) : s[i] = Follow(f, Append(s[i - 1], a[i]))
  BY <1>1, <1>2 DEF Followed, Follows
<1>5. Follows(f, path, L, s) /\ Follows(f, path, L, r)
  BY <1>1, <1>4 DEF Follows
<1>6. r[L] = s[L]
  <2>1. \A i \in 0..L : r[i] = s[i]
    BY <1>1, <1>4, <1>5, FollowedOnce
  <2> QED BY <1>1, <2>1
<1>7. s[L + 1] = Follow(f, Append(s[L], n))
  <2>1. L + 1 \in 1..(L + 1) /\ L + 1 - 1 = L
    BY <1>1
  <2> QED BY <1>1, <1>4, <2>1
<1> QED BY <1>1, <1>3, <1>6, <1>7 DEF a

LEMMA OpensType ==
  ASSUME NEW f \in [Place -> Thing]
  PROVE  /\ Opens(f, <<>>) = <<>>
         /\ \A path \in Seq(Name) : Opens(f, path) \in Seq(Name)
<1>1. ASSUME NEW path \in Seq(Name)
      PROVE  Opens(f, path) \in Seq(Name) /\ (path = <<>> => Opens(f, path) = <<>>)
  <2> DEFINE L == Len(path)
             r == Route(f, path)
  <2>1. Followed(f, path, L, r)
    BY RouteFollowed
  <2>2. L \in Nat /\ (path = <<>> => L = 0)
    BY LenProperties, EmptySeq
  <2>3. Opens(f, path) = r[L]
    BY DEF Opens
  <2> HIDE DEF L, r
  <2>4. L \in 0..L
    BY <2>2
  <2> QED BY <2>1, <2>2, <2>3, <2>4 DEF Followed, Follows
<1>2. <<>> \in Seq(Name)
  BY EmptySeq
<1> QED BY <1>1, <1>2

\* A path with no link on it opens the place it names.
LEMMA OpensStraight ==
  ASSUME NEW f, IsTree(f), NEW p \in Place, f[p] = Directory
  PROVE  Opens(f, p) = p
<1>1. /\ f \in [Place -> Thing] /\ f[<<>>] = Directory /\ Directory.kind = "dir"
      /\ \A q \in Place : f[p] # Absent /\ IsStrictPrefix(q, p) => f[q] = Directory
  BY DEF IsTree, Directory
<1>2. /\ p \in Seq(Name) /\ Place \subseteq Seq(Name)
      /\ \A n \in 0..Len(p) : SubSeq(p, 1, n) \in Place
  BY TreeAssumption
<1> DEFINE L == Len(p)
           At(n) == SubSeq(p, 1, n)
           Bad == {n \in 0..L : Opens(f, At(n)) # At(n)}
<1>3. L \in Nat /\ At(L) = p
  BY <1>2, LenProperties, SubSeqFull
<1>4. SUFFICES ASSUME Bad # {} PROVE FALSE
  <2>1. L \in 0..L
    BY <1>3
  <2> QED BY <1>3, <1>4, <2>1
<1>5. PICK m \in Bad : \A n \in Bad : m <= n
  <2>1. Bad \in SUBSET Nat
    BY <1>3
  <2> HIDE DEF Bad
  <2> QED BY <1>4, <2>1, LeastNumber
<1>6. CASE m = 0
  <2>1. At(0) = <<>>
    BY SubSeqEmpty
  <2> QED BY <1>1, <1>6, <2>1, OpensType
<1>7. CASE m # 0
  <2>1. m \in 1..L /\ m - 1 \in 0..L /\ ~(m <= m - 1)
    BY <1>3, <1>7
  <2>2. Opens(f, At(m - 1)) = At(m - 1)
    BY <1>5, <2>1
  <2> DEFINE a == At(m)
             b == At(m - 1)
  <2>3. a \in Place /\ b \in Seq(Name) /\ p[m] \in Name
    BY <1>2, <2>1, ElementOfSeq
  <2>4. a = Append(b, p[m])
    <3>1. 1 \in 1..L /\ m \in 1..L
      BY <1>3, <2>1
    <3>2. a = b \o <<p[m]>>
      BY <1>2, <2>1, <3>1, SubSeqRecursiveSecond
    <3> HIDE DEF a, b
    <3> QED BY <2>3, <3>2, AppendIsConcat
  <2>5. f[a] = Directory
    <3>1. IsPrefix(a, p)
      <4>1. /\ a \in Seq(Name) /\ Len(a) = m
            /\ \A i \in 1..m : a[i] = p[i]
        <5>1. \A i \in 1..m : p[i] \in Name
          BY <1>2, <1>3, <2>1, ElementOfSeq
        <5>2. /\ a \in Seq(Name)
              /\ Len(a) = IF 1 <= m THEN m - 1 + 1 ELSE 0
              /\ \A i \in 1..(m - 1 + 1) : a[i] = p[1 + i - 1]
          BY <2>1, <5>1, SubSeqProperties
        <5> HIDE DEF a
        <5> QED BY <2>1, <5>2
      <4>2. m <= Len(p)
        BY <1>3, <2>1
      <4> HIDE DEF a
      <4> QED BY <1>2, <4>1, <4>2, PrefixAt
    <3>2. f[p] # Absent
      BY DEF Directory, Absent
    <3> HIDE DEF a
    <3> QED BY <1>1, <2>3, <3>1, <3>2 DEF IsStrictPrefix
  <2> HIDE DEF a, b
  <2>6. Opens(f, a) = Follow(f, Append(b, p[m]))
    BY <1>1, <2>2, <2>3, <2>4, OpensAppend DEF b
  <2>7. Opens(f, a) = a
    <3>1. a \in Seq(Name) /\ f[a].kind # "link"
      BY <1>1, <1>2, <2>3, <2>5
    <3> QED BY <1>1, <2>4, <2>6, <3>1, FollowType
  <2> QED BY <1>5, <2>7 DEF a
<1> QED BY <1>6, <1>7

\* The place of what exists there is what its path names.
LEMMA EntryStraight ==
  ASSUME NEW f, IsTree(f), NEW p \in Place, p # <<>>, f[p] # Absent
  PROVE  /\ Front(p) \in Place /\ f[Front(p)] = Directory
         /\ Entry(f, p) = p
<1>1. p \in Seq(Name)
  BY TreeAssumption
<1>2. Front(p) \in Seq(Name) /\ Last(p) \in Name /\ p = Append(Front(p), Last(p))
      /\ Len(p) \in Nat \ {0}
  BY <1>1, FrontLast
<1>3. Front(p) \in Place
  <2>1. Len(p) - 1 \in 0..Len(p)
    BY <1>2
  <2> QED BY <2>1, TreeAssumption DEF Front
<1>4. IsStrictPrefix(Front(p), p)
  <2>1. IsPrefix(Front(p), Front(p))
    BY <1>2, PrefixOrder
  <2>2. IsStrictPrefix(Front(p), Append(Front(p), Last(p)))
    BY <1>2, <2>1, PrefixOfAppend
  <2> QED BY <1>2, <2>2
<1>5. f[Front(p)] = Directory
  BY <1>3, <1>4 DEF IsTree
<1>6. Opens(f, Front(p)) = Front(p)
  BY <1>3, <1>5, OpensStraight
<1> QED BY <1>2, <1>3, <1>5, <1>6 DEF Entry

-----------------------------------------------------------------------------
(* Trees *)

\* A directory without entries has nothing below it, and what is no directory neither.
LEMMA EmptyBelow ==
  ASSUME IsTree(tree), NEW p, Removable(p), NEW q \in Place, IsStrictPrefix(p, q)
  PROVE  p \in Place /\ tree[p] # Absent /\ tree[q] = Absent
<1>1. p \in Place /\ tree[p] # Absent
  BY DEF Removable, RemovableDir, ReadableDir, Absent, Directory
<1>2. SUFFICES ASSUME tree[q] # Absent PROVE FALSE
  BY <1>1
<1>3. tree[p] = Directory
  BY <1>1, <1>2 DEF IsTree
<1>4. Children(p) = {}
  BY <1>3 DEF Removable, RemovableDir
<1>5. p \in Seq(Name) /\ q \in Seq(Name)
  BY <1>1, TreeAssumption
<1> DEFINE c == SubSeq(q, 1, Len(p) + 1)
<1>6. /\ c \in Seq(Name) /\ c # <<>> /\ Front(c) = p
      /\ IsPrefix(c, q) /\ Len(p) + 1 \in 0..Len(q)
  BY <1>5, NextOnTheWay
<1>7. c \in Place
  BY <1>6, TreeAssumption
<1> HIDE DEF c
<1>8. tree[c] # Absent
  <2>1. CASE c = q
    BY <1>2, <2>1
  <2>2. CASE c # q
    <3>1. tree[c] = Directory
      BY <1>2, <1>6, <1>7, <2>2 DEF IsTree, IsStrictPrefix
    <3> QED BY <3>1 DEF Directory, Absent
  <2> QED BY <2>1, <2>2
<1> QED BY <1>4, <1>6, <1>7, <1>8 DEF Children

\* A removal of what is at p.
Removal(p) == p # <<>> /\ Removable(p) /\ Becomes([tree EXCEPT ![p] = Absent])

LEMMA RemovalTree ==
  ASSUME IsTree(tree), NEW p, Removal(p)
  PROVE  /\ p \in Place /\ tree[p] # Absent /\ tree'[p] = Absent
         /\ \A q \in Place : q # p => tree'[q] = tree[q]
         /\ \A q \in Place : IsStrictPrefix(p, q) => tree[q] = Absent /\ tree'[q] = Absent
         /\ IsTree(tree')
<1>1. p \in Place /\ tree[p] # Absent /\ p # <<>>
  BY DEF Removal, Removable, RemovableDir, ReadableDir, Absent, Directory
<1>2. tree \in [Place -> Thing] /\ tree[<<>>] = Directory
  BY DEF IsTree
<1>3. tree' = [tree EXCEPT ![p] = Absent]
  BY DEF Removal, Becomes
<1>4. Absent \in Thing
  BY DEF Thing
<1>5. /\ tree' \in [Place -> Thing] /\ tree'[p] = Absent
      /\ \A q \in Place : q # p => tree'[q] = tree[q]
  BY <1>1, <1>2, <1>3, <1>4
<1>6. \A q \in Place : IsStrictPrefix(p, q) => tree[q] = Absent
  BY EmptyBelow DEF Removal
<1>7. \A q \in Place : IsStrictPrefix(p, q) => q # p
  BY DEF IsStrictPrefix
<1>8. tree'[<<>>] = Directory
  BY <1>1, <1>2, <1>5, TreeAssumption
<1>9. \A q, s \in Place : tree'[q] # Absent /\ IsStrictPrefix(s, q) => tree'[s] = Directory
  <2> SUFFICES ASSUME NEW q \in Place, NEW s \in Place, tree'[q] # Absent,
                      IsStrictPrefix(s, q)
               PROVE  tree'[s] = Directory
    OBVIOUS
  <2>1. q # p /\ tree[q] # Absent
    BY <1>5
  <2>2. tree[s] = Directory
    BY <2>1 DEF IsTree
  <2>3. s # p
    BY <1>6, <2>1
  <2> QED BY <1>5, <2>2, <2>3
<1>10. \A q \in Place : tree'[q].kind = "link" => tree'[tree'[q].to].kind # "link"
  <2> SUFFICES ASSUME NEW q \in Place, tree'[q].kind = "link"
               PROVE  tree'[tree'[q].to].kind # "link"
    OBVIOUS
  <2>1. Absent.kind # "link"
    BY DEF Absent
  <2>2. q # p
    BY <1>5, <2>1
  <2>3. tree'[q] = tree[q] /\ tree[q].kind = "link"
    BY <1>5, <2>2
  <2>4. tree[q].to \in Place
    <3>1. tree[q] \in [kind : {"link"}, to : Targets]
      BY <1>2, <2>3 DEF Thing, Absent, Plain, Directory
    <3>2. tree[q].to \in Targets
      BY <3>1
    <3> QED BY <3>2, TreeAssumption
  <2>5. tree[tree[q].to].kind # "link"
    BY <2>3 DEF IsTree
  <2>6. CASE tree[q].to = p
    BY <1>5, <2>1, <2>3, <2>6
  <2>7. CASE tree[q].to # p
    BY <1>5, <2>3, <2>4, <2>5, <2>7
  <2> QED BY <2>6, <2>7
<1>11. IsTree(tree')
  BY <1>5, <1>8, <1>9, <1>10 DEF IsTree
<1> QED BY <1>1, <1>5, <1>6, <1>7, <1>11

-----------------------------------------------------------------------------
(* What a step does to the calls of RedirAll. *)

Depth == Len(calls)
Innermost == calls[Depth]

\* The innermost call becomes c,
Changed(c) ==
  /\ calls' \in Seq(Listing) /\ Len(calls') = Depth /\ calls'[Depth] = c
  /\ \A i \in 1..Depth : i < Depth => calls'[i] = calls[i]

\* makes another call d,
Pushed(c, d) ==
  /\ calls' \in Seq(Listing) /\ Len(calls') = Depth + 1
  /\ calls'[Depth] = c /\ calls'[Depth + 1] = d
  /\ \A i \in 1..Depth : i < Depth => calls'[i] = calls[i]

\* or returns.
Popped ==
  /\ calls' \in Seq(Listing) /\ Len(calls') = Depth - 1
  /\ \A i \in 1..Depth : i < Depth => calls'[i] = calls[i]

LEMMA InnermostCall ==
  ASSUME calls \in Seq(Listing), calls # <<>>
  PROVE  /\ Depth \in Nat \ {0} /\ Depth \in 1..Depth /\ 1 \in 1..Depth
         /\ Inner = Innermost /\ Innermost \in Listing
         /\ Outer \in Seq(Listing) /\ Len(Outer) = Depth - 1
         /\ \A i \in 1..Depth : i < Depth => Outer[i] = calls[i]
         /\ \A i \in 1..Depth : calls[i] \in Listing
<1> DEFINE o == SubSeq(calls, 1, Depth - 1)
<1>1. Depth \in Nat \ {0}
  BY EmptySeq, LenProperties DEF Depth
<1>2. \A i \in 1..Depth : calls[i] \in Listing
  BY ElementOfSeq DEF Depth
<1>3. o \in Seq(Listing) /\ Len(o) = Depth - 1 /\ \A i \in 1..(Depth - 1) : o[i] = calls[i]
  <2>1. \A i \in 1..(Depth - 1) : calls[i] \in Listing
    BY <1>1, <1>2
  <2>2. /\ o \in Seq(Listing)
        /\ Len(o) = IF 1 <= Depth - 1 THEN Depth - 1 - 1 + 1 ELSE 0
        /\ \A i \in 1..(Depth - 1 - 1 + 1) : o[i] = calls[1 + i - 1]
    BY <1>1, <2>1, SubSeqProperties
  <2> HIDE DEF o
  <2>3. Len(o) = Depth - 1
    BY <1>1, <2>2
  <2> QED BY <1>1, <2>2, <2>3
<1>4. Outer = o /\ Inner = Innermost
  BY DEF Outer, Inner, Innermost, Depth
<1> HIDE DEF o
<1>5. \A i \in 1..Depth : i < Depth => o[i] = calls[i]
  BY <1>1, <1>3
<1> QED BY <1>1, <1>2, <1>3, <1>4, <1>5 DEF Innermost

LEMMA CallsBecome ==
  ASSUME calls \in Seq(Listing), calls # <<>>, NEW c \in Listing
  PROVE  /\ calls' = Append(Outer, c) => Changed(c)
         /\ \A d \in Listing : calls' = Append(Append(Outer, c), d) => Pushed(c, d)
         /\ calls' = Outer => Popped
<1> DEFINE o == Outer
           q == Append(o, c)
<1>1. /\ Depth \in Nat \ {0} /\ o \in Seq(Listing) /\ Len(o) = Depth - 1
      /\ \A i \in 1..Depth : i < Depth => o[i] = calls[i]
  BY InnermostCall
<1> HIDE DEF o
<1>2. /\ q \in Seq(Listing) /\ Len(q) = Depth /\ q[Depth] = c
      /\ \A i \in 1..Depth : i < Depth => q[i] = calls[i]
  <2>1. /\ q \in Seq(Listing) /\ Len(q) = Len(o) + 1 /\ q[Len(o) + 1] = c
        /\ \A i \in 1..Len(o) : q[i] = o[i]
    BY <1>1, AppendProperties
  <2> HIDE DEF q
  <2>2. Len(o) + 1 = Depth /\ \A i \in 1..Depth : i < Depth => i \in 1..Len(o)
    BY <1>1
  <2> QED BY <1>1, <2>1, <2>2
<1> HIDE DEF q
<1>3. ASSUME NEW d \in Listing, calls' = Append(q, d) PROVE Pushed(c, d)
  <2>1. /\ calls' \in Seq(Listing) /\ Len(calls') = Depth + 1 /\ calls'[Depth + 1] = d
        /\ \A i \in 1..Depth : calls'[i] = q[i]
    BY <1>2, <1>3, AppendProperties
  <2>2. Depth \in 1..Depth
    BY <1>1
  <2> QED BY <1>2, <2>1, <2>2 DEF Pushed
<1>4. calls' = q => Changed(c)
  BY <1>2 DEF Changed
<1>5. calls' = o => Popped
  BY <1>1 DEF Popped
<1> QED BY <1>3, <1>4, <1>5 DEF o, q

LEMMA CallType ==
  ASSUME NEW p \in Seq(Name)
  PROVE  /\ Call(p) \in Listing
         /\ Call(p).path = p /\ Call(p).todo = {} /\ ~Call(p).listed
BY DEF Call, Listing

\* The call once item x is dealt with.
Without(x) == [Innermost EXCEPT !.todo = @ \ {x}]

LEMMA WithoutCall ==
  ASSUME calls \in Seq(Listing), calls # <<>>, NEW x
  PROVE  /\ Without(x) \in Listing
         /\ Without(x).path = Innermost.path /\ Without(x).listed = Innermost.listed
         /\ Without(x).todo = Innermost.todo \ {x}
<1>1. Innermost \in Listing
  BY InnermostCall
<1> DEFINE t == Innermost.todo \ {x}
<1>2. t \in SUBSET Item /\ Without(x) = [Innermost EXCEPT !.todo = t]
  BY <1>1 DEF Without, Listing
<1> HIDE DEF t
<1>3. Without(x) \in Listing
  BY <1>1, <1>2 DEF Listing
<1>4. Without(x).path = Innermost.path
  BY <1>1, <1>2 DEF Listing
<1>5. Without(x).listed = Innermost.listed
  BY <1>1, <1>2 DEF Listing
<1>6. Without(x).todo = t
  BY <1>1, <1>2 DEF Listing
<1> QED BY <1>3, <1>4, <1>5, <1>6 DEF t

-----------------------------------------------------------------------------
(* The calls that have not returned lead down from the named path. *)

Nested ==
  /\ calls \in Seq(Listing)
  /\ calls # <<>> => calls[1].path = root
  /\ \A i \in 1..Depth : ~calls[i].listed => i = Depth /\ calls[i].todo = {}
  /\ \A i \in 2..Depth : calls[i].path # <<>> /\ Front(calls[i].path) = calls[i - 1].path
  /\ \A i \in 1..Depth : Len(calls[i].path) = Len(root) + i - 1

LEMMA ChangedNested ==
  ASSUME Nested, calls # <<>>, root' = root, NEW c \in Listing, Changed(c),
         c.path = Innermost.path, c.listed
  PROVE  Nested'
<1>1. Depth \in Nat \ {0} /\ Depth' = Depth /\ 1 \in 1..Depth /\ Depth \in 1..Depth
  BY InnermostCall DEF Nested, Changed, Depth
<1>2. /\ \A i \in 1..Depth : i # Depth => calls'[i] = calls[i]
      /\ calls'[Depth] = c /\ calls'[Depth].path = calls[Depth].path
  BY <1>1 DEF Changed, Innermost
<1>3. \A i \in 1..Depth : calls'[i].path = calls[i].path
  BY <1>2
<1>4. calls' \in Seq(Listing) /\ calls'[1].path = root'
  BY <1>1, <1>3 DEF Changed, Nested
<1>5. \A i \in 1..Depth : ~calls'[i].listed => i = Depth /\ calls'[i].todo = {}
  BY <1>2 DEF Nested
<1>6. \A i \in 2..Depth : calls'[i].path # <<>> /\ Front(calls'[i].path) = calls'[i - 1].path
  <2> TAKE i \in 2..Depth
  <2>1. i \in 1..Depth /\ i - 1 \in 1..Depth
    BY <1>1
  <2> QED BY <1>3, <2>1 DEF Nested
<1>7. \A i \in 1..Depth : Len(calls'[i].path) = Len(root') + i - 1
  BY <1>3 DEF Nested
<1> HIDE DEF Depth
<1> QED BY <1>1, <1>4, <1>5, <1>6, <1>7 DEF Nested

LEMMA PushedNested ==
  ASSUME Nested, calls # <<>>, root' = root, NEW c \in Listing, NEW d \in Listing,
         Pushed(c, d), c.path = Innermost.path, c.listed,
         NEW n \in Name, d.path = Append(c.path, n), d.todo = {}
  PROVE  Nested'
<1>1. /\ Depth \in Nat \ {0} /\ Depth' = Depth + 1 /\ Depth \in 1..Depth /\ 1 \in 1..Depth
      /\ Innermost \in Listing
  BY InnermostCall DEF Nested, Pushed, Depth
<1>2. /\ \A i \in 1..Depth : i # Depth => calls'[i] = calls[i]
      /\ calls'[Depth] = c /\ calls'[Depth].path = calls[Depth].path
      /\ calls'[Depth + 1] = d
  BY <1>1 DEF Pushed, Innermost
<1>3. \A i \in 1..Depth : calls'[i].path = calls[i].path
  BY <1>2
<1>4. calls' \in Seq(Listing) /\ calls'[1].path = root'
  BY <1>1, <1>3 DEF Pushed, Nested
<1>5. /\ d.path # <<>> /\ Front(d.path) = calls[Depth].path
      /\ Len(d.path) = Len(calls[Depth].path) + 1
  <2>1. c.path \in Seq(Name)
    BY DEF Listing
  <2>2. d.path # <<>> /\ Front(d.path) = c.path
    BY <2>1, FrontOfAppend
  <2>3. Len(d.path) = Len(c.path) + 1
    BY <2>1, AppendProperties
  <2> QED BY <1>2, <2>2, <2>3
<1>6. \A i \in 1..(Depth + 1) : ~calls'[i].listed => i = Depth + 1 /\ calls'[i].todo = {}
  <2> TAKE i \in 1..(Depth + 1)
  <2>1. CASE i = Depth + 1
    BY <1>2, <2>1
  <2>2. CASE i = Depth
    BY <1>2, <2>2
  <2>3. CASE i # Depth + 1 /\ i # Depth
    <3>1. i \in 1..Depth
      BY <1>1, <2>3
    <3> QED BY <1>2, <2>3, <3>1 DEF Nested
  <2> QED BY <2>1, <2>2, <2>3
<1>7. \A i \in 2..(Depth + 1) :
        calls'[i].path # <<>> /\ Front(calls'[i].path) = calls'[i - 1].path
  <2> TAKE i \in 2..(Depth + 1)
  <2>1. CASE i = Depth + 1
    <3>1. i - 1 = Depth
      BY <1>1, <2>1
    <3> QED BY <1>1, <1>2, <1>3, <1>5, <2>1, <3>1
  <2>2. CASE i # Depth + 1
    <3>1. i \in 1..Depth /\ i - 1 \in 1..Depth /\ i \in 2..Depth
      BY <1>1, <2>2
    <3> QED BY <1>3, <3>1 DEF Nested
  <2> QED BY <2>1, <2>2
<1>8. \A i \in 1..(Depth + 1) : Len(calls'[i].path) = Len(root') + i - 1
  <2> TAKE i \in 1..(Depth + 1)
  <2>1. CASE i = Depth + 1
    <3>1. Len(calls[Depth].path) = Len(root) + Depth - 1
      BY <1>1 DEF Nested
    <3>2. Len(root) \in Nat
      <4>1. calls[1] \in Listing /\ calls[1].path = root
        BY InnermostCall DEF Nested
      <4>2. root \in Seq(Name)
        BY <4>1 DEF Listing
      <4> QED BY <4>2, LenProperties
    <3> QED BY <1>1, <1>2, <1>5, <2>1, <3>1, <3>2
  <2>2. CASE i # Depth + 1
    <3>1. i \in 1..Depth
      BY <1>1, <2>2
    <3> QED BY <1>3, <3>1 DEF Nested
  <2> QED BY <2>1, <2>2
<1> HIDE DEF Depth
<1> QED BY <1>1, <1>4, <1>6, <1>7, <1>8 DEF Nested

LEMMA PoppedNested ==
  ASSUME Nested, calls # <<>>, root' = root, Popped
  PROVE  Nested'
<1>1. Depth \in Nat \ {0} /\ Depth' = Depth - 1
  BY InnermostCall DEF Nested, Popped, Depth
<1>2. \A i \in 1..(Depth - 1) : i \in 1..Depth /\ i # Depth /\ calls'[i] = calls[i]
  BY <1>1 DEF Popped
<1>3. calls' \in Seq(Listing)
  BY DEF Popped
<1>4. \A i \in 2..(Depth - 1) :
        calls'[i].path # <<>> /\ Front(calls'[i].path) = calls'[i - 1].path
  <2> TAKE i \in 2..(Depth - 1)
  <2>1. i \in 1..(Depth - 1) /\ i - 1 \in 1..(Depth - 1) /\ i \in 2..Depth
    BY <1>1
  <2> QED BY <1>2, <2>1 DEF Nested
<1>5. calls' # <<>> => calls'[1].path = root'
  <2> SUFFICES ASSUME calls' # <<>> PROVE calls'[1].path = root'
    OBVIOUS
  <2>1. Depth' # 0
    BY <1>3, EmptySeq DEF Depth
  <2>2. 1 \in 1..(Depth - 1)
    BY <1>1, <2>1
  <2> QED BY <1>2, <2>2 DEF Nested
<1>6. \A i \in 1..(Depth - 1) : ~calls'[i].listed => i = Depth - 1 /\ calls'[i].todo = {}
  BY <1>2 DEF Nested
<1>7. \A i \in 1..(Depth - 1) : Len(calls'[i].path) = Len(root') + i - 1
  BY <1>2 DEF Nested
<1> HIDE DEF Depth
<1> QED BY <1>1, <1>3, <1>4, <1>5, <1>6, <1>7 DEF Nested

LEMMA IdleNested ==
  ASSUME Nested, root' = root, calls' = calls \/ calls' = <<>>
  PROVE  Nested'
<1>1. CASE calls' = calls
  <2>1. Depth' = Depth
    BY <1>1 DEF Depth
  <2> HIDE DEF Depth
  <2>2. \A i : calls'[i] = calls[i]
    BY <1>1
  <2>3. calls' \in Seq(Listing) /\ (calls' # <<>> => calls'[1].path = root')
    BY <1>1 DEF Nested
  <2>4. /\ \A i \in 1..Depth : ~calls'[i].listed => i = Depth /\ calls'[i].todo = {}
        /\ \A i \in 2..Depth :
             calls'[i].path # <<>> /\ Front(calls'[i].path) = calls'[i - 1].path
        /\ \A i \in 1..Depth : Len(calls'[i].path) = Len(root') + i - 1
    BY <2>2 DEF Nested
  <2> QED BY <2>1, <2>3, <2>4 DEF Nested
<1>2. CASE calls' = <<>>
  <2>1. Depth' = 0 /\ calls' \in Seq(Listing)
    BY <1>2, EmptySeq DEF Depth
  <2>2. \A i : i \notin 1..0 /\ i \notin 2..0
    OBVIOUS
  <2> HIDE DEF Depth
  <2> QED BY <1>2, <2>1, <2>2 DEF Nested
<1> QED BY <1>1, <1>2

-----------------------------------------------------------------------------
(* The invariant *)

\* As long as no path of the walk has come to lead elsewhere, every one of them leads
\* to where the named path leads or below.
Straight ==
  ~diverted => \A d \in InHand : IsPrefix(Opens(tree, root), Opens(tree, d))

\* As long as nobody refuses a request or changes the tree, what the calls have listed
\* is there, and what is there they have listed.
There(c, x) ==
  LET p == Append(c.path, x.name)
  IN p \in Place /\ tree[p] # Absent /\ x.dir = (tree[p] = Directory)

Listed(i) ==
  /\ calls[i].path \in Place /\ calls[i].path # <<>> /\ tree[calls[i].path] = Directory
  /\ \A x \in calls[i].todo : There(calls[i], x)
  /\ calls[i].listed =>
       \A q \in Children(calls[i].path) :
         \/ \E x \in calls[i].todo : x.name = Last(q)
         \/ i < Depth /\ q = calls[i + 1].path
  /\ i < Depth => \A x \in calls[i].todo : x.name # Last(calls[i + 1].path)

Calm == ~refused /\ meddles = 0 /\ StartTree[root] = Directory

Undisturbed == Calm => err # "error" /\ \A i \in 1..Depth : Listed(i)

TreeInv == TreeTypeOK /\ Nested /\ Straight /\ Undisturbed

\* The calls in progress, while Rmdir runs.
LEMMA Busy ==
  ASSUME TreeInv, calls # <<>>
  PROVE  /\ err = "none" /\ IsTree(tree) /\ tree \in [Place -> Thing]
         /\ root \in Seq(Name) /\ root # <<>> /\ calls \in Seq(Listing) /\ calls[1].path = root
         /\ Depth \in Nat \ {0} /\ Depth \in 1..Depth /\ 1 \in 1..Depth
         /\ \A i \in 1..Depth : calls[i] \in Listing /\ calls[i].path \in Seq(Name)
         /\ Inner = Innermost /\ Innermost = calls[Depth] /\ Innermost \in Listing
<1>1. calls \in Seq(Listing) /\ calls[1].path = root
  BY DEF TreeInv, Nested
<1>2. \A i \in 1..Depth : calls[i] \in Listing /\ calls[i].path \in Seq(Name)
  <2>1. \A i \in 1..Depth : calls[i] \in Listing
    BY <1>1, InnermostCall
  <2> QED BY <2>1 DEF Listing
<1>3. err = "none" /\ IsTree(tree) /\ root \in Place /\ root # <<>>
  BY DEF TreeInv, TreeTypeOK
<1>4. tree \in [Place -> Thing] /\ root \in Seq(Name)
  BY <1>3, TreeAssumption DEF IsTree
<1>5. Innermost = calls[Depth]
  BY DEF Innermost
<1> QED BY <1>1, <1>2, <1>3, <1>4, <1>5, InnermostCall

-----------------------------------------------------------------------------
(* The steps *)

LEMMA ListStep ==
  ASSUME TreeInv, List
  PROVE  \E c \in Listing :
           /\ calls # <<>> /\ Changed(c) /\ c.listed /\ c.path = Innermost.path
           /\ c.todo = {[name |-> Last(q), dir |-> IsDir(q)] :
                          q \in Children(Opens(tree, Innermost.path))}
           /\ UNCHANGED <<tree, root, err, refused, meddles, diverted>>
<1> DEFINE t == {[name |-> Last(q), dir |-> IsDir(q)] :
                   q \in Children(Opens(tree, Innermost.path))}
           c == [Innermost EXCEPT !.listed = TRUE, !.todo = t]
<1>1. calls # <<>> /\ calls \in Seq(Listing)
  BY DEF List, Running, TreeInv, Nested
<1>2. Innermost \in Listing /\ Inner = Innermost
  BY <1>1, InnermostCall
<1>3. /\ calls' = Append(Outer, c)
      /\ UNCHANGED <<tree, root, err, refused, meddles, diverted>>
  BY <1>2 DEF List, Proceed, Here
<1>4. t \in SUBSET Item
  <2> SUFFICES ASSUME NEW p, NEW q \in Children(p)
               PROVE  [name |-> Last(q), dir |-> IsDir(q)] \in Item
    OBVIOUS
  <2>1. q \in Seq(Name) /\ q # <<>>
    BY TreeAssumption DEF Children
  <2>2. Last(q) \in Name
    BY <2>1, FrontLast
  <2>3. IsDir(q) \in BOOLEAN
    BY DEF IsDir
  <2> QED BY <2>2, <2>3 DEF Item
<1> HIDE DEF t
<1>5. c \in Listing
  BY <1>2, <1>4 DEF Listing
<1>6. c.listed
  BY <1>2, <1>4 DEF Listing
<1>7. c.path = Innermost.path
  BY <1>2, <1>4 DEF Listing
<1>8. c.todo = t
  BY <1>2, <1>4 DEF Listing
<1> HIDE DEF c
<1>9. Changed(c)
  BY <1>1, <1>3, <1>5, CallsBecome
<1> QED BY <1>1, <1>3, <1>5, <1>6, <1>7, <1>8, <1>9 DEF t

LEMMA DescendStep ==
  ASSUME TreeInv, NEW x \in Item, Descend(x)
  PROVE  /\ calls # <<>> /\ x \in Innermost.todo /\ x.dir /\ x.name \in Name
         /\ LET d == Call(Append(Innermost.path, x.name))
            IN  /\ Pushed(Without(x), d) /\ d \in Listing
                /\ d.path = Append(Innermost.path, x.name) /\ d.todo = {} /\ ~d.listed
         /\ UNCHANGED <<tree, root, err, refused, meddles, diverted>>
<1> DEFINE p == Append(Innermost.path, x.name)
           d == Call(p)
<1>1. calls # <<>> /\ calls \in Seq(Listing)
  BY DEF Descend, Running, TreeInv, Nested
<1>2. Inner = Innermost /\ Innermost.path \in Seq(Name)
  <2>1. Inner = Innermost /\ Innermost \in Listing
    BY <1>1, InnermostCall
  <2> QED BY <2>1 DEF Listing
<1>3. /\ calls' = Append(Append(Outer, Without(x)), d)
      /\ x \in Innermost.todo /\ x.dir
      /\ UNCHANGED <<tree, root, err, refused, meddles, diverted>>
  BY <1>2 DEF Descend, Without, Join
<1>4. x.name \in Name
  BY DEF Item
<1>5. p \in Seq(Name)
  BY <1>2, <1>4, AppendProperties
<1> HIDE DEF p
<1>6. d \in Listing /\ d.path = p /\ d.todo = {} /\ ~d.listed
  BY <1>5, CallType
<1>7. Without(x) \in Listing
  BY <1>1, WithoutCall
<1> HIDE DEF d
<1>8. Pushed(Without(x), d)
  BY <1>1, <1>3, <1>6, <1>7, CallsBecome
<1> QED BY <1>1, <1>3, <1>4, <1>6, <1>8 DEF d, p

LEMMA RemoveItemStep ==
  ASSUME TreeInv, NEW x \in Item, RemoveItem(x)
  PROVE  /\ calls # <<>> /\ x \in Innermost.todo /\ ~x.dir /\ x.name \in Name
         /\ Changed(Without(x)) /\ Innermost.path \in Seq(Name)
         /\ Removal(Append(Opens(tree, Innermost.path), x.name))
         /\ UNCHANGED <<root, err, refused, meddles>>
<1>1. calls # <<>> /\ calls \in Seq(Listing)
  BY DEF RemoveItem, Running, TreeInv, Nested
<1>2. Inner = Innermost /\ Innermost.path \in Seq(Name)
  <2>1. Inner = Innermost /\ Innermost \in Listing
    BY <1>1, InnermostCall
  <2> QED BY <2>1 DEF Listing
<1>3. x.name \in Name
  BY DEF Item
<1> DEFINE p == Append(Opens(tree, Innermost.path), x.name)
<1>4. Entry(tree, Join(Inner.path, x.name)) = p
  <2>1. /\ Front(Append(Innermost.path, x.name)) = Innermost.path
        /\ Last(Append(Innermost.path, x.name)) = x.name
    BY <1>2, <1>3, FrontOfAppend
  <2> QED BY <1>2, <2>1 DEF Entry, Join
<1>5. p # <<>>
  <2>1. tree \in [Place -> Thing]
    BY <1>1, Busy
  <2>2. Opens(tree, Innermost.path) \in Seq(Name)
    BY <1>2, <2>1, OpensType
  <2> QED BY <1>3, <2>2, AppendProperties
<1> HIDE DEF p
<1>6. /\ calls' = Append(Outer, Without(x))
      /\ x \in Innermost.todo /\ ~x.dir
      /\ Removable(p) /\ Becomes([tree EXCEPT ![p] = Absent])
      /\ UNCHANGED <<root, err, refused, meddles>>
  BY <1>2, <1>4 DEF RemoveItem, Without, Proceed
<1>7. Without(x) \in Listing
  BY <1>1, WithoutCall
<1>8. Changed(Without(x))
  BY <1>1, <1>6, <1>7, CallsBecome
<1> QED BY <1>1, <1>2, <1>3, <1>5, <1>6, <1>8 DEF Removal, p

LEMMA RemoveDirectoryStep ==
  ASSUME TreeInv, RemoveDirectory
  PROVE  /\ calls # <<>> /\ Innermost.listed /\ Innermost.todo = {}
         /\ Removal(Entry(tree, Innermost.path)) /\ RemovableDir(Entry(tree, Innermost.path))
         /\ Popped
         /\ (calls' = <<>>) = (Depth = 1)
         /\ err' = IF Depth = 1 THEN "nil" ELSE err
         /\ UNCHANGED <<root, refused, meddles>>
<1>1. calls # <<>> /\ calls \in Seq(Listing)
  BY DEF RemoveDirectory, Running, TreeInv, Nested
<1>2. /\ Inner = Innermost /\ Depth \in Nat \ {0} /\ Innermost \in Listing
      /\ Outer \in Seq(Listing) /\ Len(Outer) = Depth - 1
  BY <1>1, InnermostCall
<1>3. (Outer = <<>>) = (Depth = 1)
  <2>1. Outer = <<>> <=> Len(Outer) = 0
    BY <1>2, EmptySeq
  <2> QED BY <1>2, <2>1
<1>4. calls' = Outer
  BY DEF RemoveDirectory
<1>5. Popped
  BY <1>1, <1>2, <1>4, CallsBecome
<1> DEFINE p == Entry(tree, Innermost.path)
<1>6. p # <<>>
  <2>1. Innermost.path # <<>>
    <3>1. /\ Depth \in 1..Depth /\ Innermost = calls[Depth]
          /\ calls[1].path = root /\ root # <<>>
      BY <1>1, Busy
    <3>2. CASE Depth = 1
      BY <3>1, <3>2
    <3>3. CASE Depth # 1
      <4>1. Depth \in 2..Depth
        BY <1>2, <3>3
      <4> QED BY <3>1, <4>1 DEF TreeInv, Nested
    <3> QED BY <3>2, <3>3
  <2>2. Innermost.path \in Seq(Name) /\ tree \in [Place -> Thing]
    <3>1. tree \in [Place -> Thing]
      BY <1>1, Busy
    <3> QED BY <1>2, <3>1 DEF Listing
  <2>3. Front(Innermost.path) \in Seq(Name) /\ Last(Innermost.path) \in Name
    BY <2>1, <2>2, FrontLast
  <2>4. Opens(tree, Front(Innermost.path)) \in Seq(Name)
    BY <2>2, <2>3, OpensType
  <2> QED BY <2>3, <2>4, AppendProperties DEF Entry
<1> HIDE DEF p
<1>7. /\ Innermost.listed /\ Innermost.todo = {}
      /\ RemovableDir(p) /\ Becomes([tree EXCEPT ![p] = Absent])
      /\ UNCHANGED <<root, refused, meddles>>
  BY <1>2 DEF RemoveDirectory, p
<1>8. err' = IF Depth = 1 THEN "nil" ELSE err
  BY <1>3 DEF RemoveDirectory
<1>9. Removal(p)
  BY <1>6, <1>7 DEF Removal, Removable
<1> QED BY <1>1, <1>3, <1>4, <1>5, <1>7, <1>8, <1>9 DEF p

\* What Descend, RemoveItem and RemoveDirectory do not do.
LEMMA FailStep ==
  ASSUME ListFails \/ RemoveDirectoryFails \/ \E x \in Item : RemoveItemFails(x)
  PROVE  /\ calls # <<>> /\ calls' = <<>> /\ err' = "error"
         /\ refused' = TRUE \/ refused' = refused
         /\ UNCHANGED <<tree, root, meddles, diverted>>
BY DEF ListFails, RemoveDirectoryFails, RemoveItemFails, ReturnError, FailsOr, Running

\* An item is only there once the listing has been made.
LEMMA ListedCall ==
  ASSUME TreeInv, calls # <<>>, NEW x \in Innermost.todo
  PROVE  Innermost.listed
<1>1. Innermost = calls[Depth] /\ Depth \in 1..Depth
  BY Busy
<1> QED BY <1>1 DEF TreeInv, Nested

LEMMA NestedKept ==
  ASSUME TreeInv, [TreeNext]_treeVars
  PROVE  Nested'
<1>1. Nested
  BY DEF TreeInv
<1>2. ASSUME NEW p, NEW x, Meddle(p, x) PROVE Nested'
  BY <1>1, <1>2, IdleNested DEF Meddle
<1>3. CASE List
  <2>1. PICK c \in Listing : /\ calls # <<>> /\ Changed(c) /\ c.listed
                             /\ c.path = Innermost.path /\ root' = root
    BY <1>3, ListStep
  <2> QED BY <1>1, <2>1, ChangedNested
<1>4. CASE ListFails \/ RemoveDirectoryFails \/ \E x \in Item : RemoveItemFails(x)
  BY <1>1, <1>4, FailStep, IdleNested
<1>5. ASSUME NEW x \in Innermost.todo, calls # <<>>
      PROVE  /\ Without(x) \in Listing
             /\ Without(x).path = Innermost.path /\ Without(x).listed
  <2>1. calls \in Seq(Listing)
    BY <1>1 DEF Nested
  <2> QED BY <1>5, <2>1, ListedCall, WithoutCall
<1>6. ASSUME NEW x \in Item, Descend(x) PROVE Nested'
  <2> DEFINE d == Call(Append(Innermost.path, x.name))
  <2>1. /\ calls # <<>> /\ x \in Innermost.todo /\ x.name \in Name
        /\ Pushed(Without(x), d) /\ d \in Listing
        /\ d.path = Append(Innermost.path, x.name) /\ d.todo = {} /\ root' = root
    BY <1>6, DescendStep
  <2> HIDE DEF d
  <2> QED BY <1>1, <1>5, <2>1, PushedNested
<1>7. ASSUME NEW x \in Item, RemoveItem(x) PROVE Nested'
  <2>1. calls # <<>> /\ x \in Innermost.todo /\ Changed(Without(x)) /\ root' = root
    BY <1>7, RemoveItemStep
  <2> QED BY <1>1, <1>5, <2>1, ChangedNested
<1>8. CASE RemoveDirectory
  <2>1. calls # <<>> /\ Popped /\ root' = root
    BY <1>8, RemoveDirectoryStep
  <2> QED BY <1>1, <2>1, PoppedNested
<1>9. CASE UNCHANGED treeVars
  BY <1>1, <1>9, IdleNested DEF treeVars
<1> QED BY <1>2, <1>3, <1>4, <1>6, <1>7, <1>8, <1>9 DEF TreeNext, Walk

LEMMA IsTreeKept ==
  ASSUME TreeInv, [TreeNext]_treeVars
  PROVE  IsTree(tree')
<1>1. IsTree(tree)
  BY DEF TreeInv, TreeTypeOK
<1>2. CASE tree' = tree
  BY <1>1, <1>2
<1>3. ASSUME NEW p, NEW x, Meddle(p, x) PROVE IsTree(tree')
  BY <1>3 DEF Meddle, Becomes
<1>4. ASSUME NEW p, Removal(p) PROVE IsTree(tree')
  BY <1>1, <1>4, RemovalTree
<1>5. ASSUME NEW x \in Item, RemoveItem(x) PROVE IsTree(tree')
  BY <1>4, <1>5, RemoveItemStep
<1>6. CASE RemoveDirectory
  BY <1>4, <1>6, RemoveDirectoryStep
<1>7. CASE \/ List \/ ListFails \/ RemoveDirectoryFails
           \/ \E x \in Item : Descend(x) \/ RemoveItemFails(x)
  <2>1. tree' = tree
    BY <1>7 DEF List, ListFails, RemoveDirectoryFails, Descend, RemoveItemFails, ReturnError
  <2> QED BY <1>2, <2>1
<1>8. CASE UNCHANGED treeVars
  BY <1>2, <1>8 DEF treeVars
<1> QED BY <1>3, <1>5, <1>6, <1>7, <1>8 DEF TreeNext, Walk

LEMMA TreeTypeKept ==
  ASSUME TreeInv, [TreeNext]_treeVars
  PROVE  TreeTypeOK'
<1> DEFINE Rest == /\ root' \in Place /\ root' # <<>>
                   /\ err' \in {"none", "nil", "error"} /\ (err' # "none" <=> calls' = <<>>)
                   /\ refused' \in BOOLEAN /\ meddles' \in 0..MaxMeddles
                   /\ diverted' \in BOOLEAN
<1>1. /\ root \in Place /\ root # <<>>
      /\ err \in {"none", "nil", "error"} /\ (err # "none" <=> calls = <<>>)
      /\ refused \in BOOLEAN /\ meddles \in 0..MaxMeddles /\ diverted \in BOOLEAN
  BY DEF TreeInv, TreeTypeOK
<1>2. MaxMeddles \in Nat
  BY TreeAssumption
<1>3. ASSUME NEW f, Becomes(f) PROVE diverted' \in BOOLEAN
  BY <1>1, <1>3 DEF Becomes
<1>4. ASSUME NEW p, NEW x, Meddle(p, x) PROVE Rest
  <2>1. /\ meddles' \in 0..MaxMeddles
        /\ UNCHANGED <<root, calls, err, refused>>
    BY <1>1, <1>2, <1>4 DEF Meddle
  <2>2. diverted' \in BOOLEAN
    BY <1>3, <1>4 DEF Meddle
  <2> QED BY <1>1, <2>1, <2>2
<1>5. ASSUME NEW c, calls # <<>>, Changed(c), diverted' \in BOOLEAN,
             UNCHANGED <<root, err, refused, meddles>>
      PROVE  Rest
  <2>1. Len(calls') # 0 /\ calls' \in Seq(Listing)
    BY <1>5, Busy DEF Changed
  <2>2. calls' # <<>>
    BY <2>1, EmptySeq
  <2> QED BY <1>1, <1>5, <2>2
<1>6. ASSUME List PROVE Rest
  <2>1. PICK c \in Listing :
           /\ calls # <<>> /\ Changed(c)
           /\ UNCHANGED <<tree, root, err, refused, meddles, diverted>>
    BY <1>6, ListStep
  <2> QED BY <1>1, <1>5, <2>1
<1>7. ASSUME ListFails \/ RemoveDirectoryFails \/ \E x \in Item : RemoveItemFails(x)
      PROVE  Rest
  BY <1>1, <1>7, FailStep
<1>8. ASSUME NEW x \in Item, Descend(x) PROVE Rest
  <2>1. /\ calls # <<>> /\ \E c, d : Pushed(c, d)
        /\ UNCHANGED <<tree, root, err, refused, meddles, diverted>>
    BY <1>8, DescendStep
  <2>2. Len(calls') # 0 /\ calls' \in Seq(Listing)
    BY <2>1, Busy DEF Pushed
  <2>3. calls' # <<>>
    BY <2>2, EmptySeq
  <2> QED BY <1>1, <2>1, <2>3
<1>9. ASSUME NEW x \in Item, RemoveItem(x) PROVE Rest
  <2>1. diverted' \in BOOLEAN
    BY <1>3, <1>9, RemoveItemStep DEF Removal
  <2> QED BY <1>5, <1>9, <2>1, RemoveItemStep
<1>10. ASSUME RemoveDirectory PROVE Rest
  <2>1. /\ calls # <<>> /\ (calls' = <<>>) = (Depth = 1)
        /\ err' = IF Depth = 1 THEN "nil" ELSE err
        /\ UNCHANGED <<root, refused, meddles>>
    BY <1>10, RemoveDirectoryStep
  <2>2. diverted' \in BOOLEAN
    BY <1>3, <1>10, RemoveDirectoryStep DEF Removal
  <2>3. err = "none"
    BY <2>1, Busy
  <2> QED BY <1>1, <2>1, <2>2, <2>3
<1>11. ASSUME UNCHANGED treeVars PROVE Rest
  <2>1. UNCHANGED <<tree, root, calls, err, refused, meddles, diverted>>
    BY <1>11 DEF treeVars
  <2> QED BY <1>1, <2>1
<1>12. Rest
  BY <1>4, <1>6, <1>7, <1>8, <1>9, <1>10, <1>11 DEF TreeNext, Walk
<1>13. (err' # "none") = (calls' = <<>>)
  BY <1>12
<1>14. Nested'
  BY NestedKept
<1>15. /\ calls' \in Seq(Listing) /\ (calls' # <<>> => calls'[1].path = root')
       /\ \A i \in 1..Len(calls') : ~calls'[i].listed => i = Len(calls') /\ calls'[i].todo = {}
       /\ \A i \in 2..Len(calls') :
            calls'[i].path # <<>> /\ Front(calls'[i].path) = calls'[i - 1].path
  BY <1>14 DEF Nested, Depth
<1>16. IsTree(tree)'
  <2>1. IsTree(tree')
    BY IsTreeKept
  <2> QED BY <2>1 DEF IsTree
<1> QED BY <1>12, <1>13, <1>15, <1>16 DEF TreeTypeOK

-----------------------------------------------------------------------------
(* The paths of the walk stay below the named one. *)

\* d is a path that call c has in hand.
Holds(c, d) == d = c.path \/ \E x \in c.todo : x.dir /\ d = Append(c.path, x.name)

LEMMA InHandIs ==
  /\ calls \in Seq(Listing) =>
       \A d : d \in InHand <=> \E i \in 1..Depth : Holds(calls[i], d)
  /\ calls' \in Seq(Listing) =>
       \A d : d \in InHand' <=> \E i \in 1..Len(calls') : Holds(calls'[i], d)
<1> DEFINE Of(s) ==
      UNION {{c.path} \cup {Append(c.path, x.name) : x \in {y \in c.todo : y.dir}} : c \in Range(s)}
<1>1. ASSUME NEW s \in Seq(Listing)
      PROVE  \A d : d \in Of(s) <=> \E i \in 1..Len(s) : Holds(s[i], d)
  <2>1. Range(s) = {s[i] : i \in 1..Len(s)}
    <3>1. DOMAIN s = 1..Len(s)
      BY LenProperties
    <3> QED BY <3>1 DEF Range
  <2> TAKE d
  <2>2. \A c : d \in {c.path} \cup {Append(c.path, x.name) : x \in {y \in c.todo : y.dir}}
                 <=> Holds(c, d)
    BY DEF Holds
  <2> HIDE DEF Holds
  <2>3. d \in Of(s) <=> \E c \in Range(s) :
          d \in {c.path} \cup {Append(c.path, x.name) : x \in {y \in c.todo : y.dir}}
    OBVIOUS
  <2>4. d \in Of(s) <=> \E c \in Range(s) : Holds(c, d)
    BY <2>2, <2>3
  <2> HIDE DEF Of
  <2> QED BY <2>1, <2>4
<1>2. InHand = Of(calls) /\ InHand' = Of(calls')
  BY DEF InHand
<1> HIDE DEF Of
<1> QED BY <1>1, <1>2 DEF Depth

LEMMA ChangedInHand ==
  ASSUME calls \in Seq(Listing), calls # <<>>, NEW c, Changed(c)
  PROVE  \A d \in InHand' : d \in InHand \/ Holds(c, d)
<1> SUFFICES ASSUME NEW d \in InHand' PROVE d \in InHand \/ Holds(c, d)
  OBVIOUS
<1>1. calls' \in Seq(Listing) /\ Len(calls') = Depth
  BY DEF Changed
<1>2. PICK i \in 1..Depth : Holds(calls'[i], d)
  BY <1>1, InHandIs
<1>3. Depth \in Nat
  BY InnermostCall
<1>4. CASE i = Depth
  BY <1>2, <1>4 DEF Changed
<1>5. CASE i # Depth
  <2>1. calls'[i] = calls[i]
    BY <1>3, <1>5 DEF Changed
  <2> QED BY <1>2, <2>1, InHandIs
<1> QED BY <1>4, <1>5

LEMMA WithoutInHand ==
  ASSUME calls \in Seq(Listing), calls # <<>>, NEW x, NEW d, Holds(Without(x), d)
  PROVE  d \in InHand
<1>1. Without(x).path = Innermost.path /\ Without(x).todo \subseteq Innermost.todo
  BY WithoutCall
<1>2. Holds(Innermost, d)
  BY <1>1 DEF Holds
<1>3. Innermost = calls[Depth] /\ Depth \in 1..Depth
  BY InnermostCall DEF Innermost
<1> QED BY <1>2, <1>3, InHandIs

LEMMA PushedInHand ==
  ASSUME calls \in Seq(Listing), calls # <<>>, NEW x \in Innermost.todo, x.dir,
         NEW d, Pushed(Without(x), d), d.path = Append(Innermost.path, x.name), d.todo = {}
  PROVE  InHand' \subseteq InHand
<1> SUFFICES ASSUME NEW p \in InHand' PROVE p \in InHand
  OBVIOUS
<1>1. calls' \in Seq(Listing) /\ Len(calls') = Depth + 1
  BY DEF Pushed
<1>2. PICK i \in 1..(Depth + 1) : Holds(calls'[i], p)
  BY <1>1, InHandIs
<1>3. Depth \in Nat /\ Depth \in 1..Depth /\ Innermost = calls[Depth]
  BY InnermostCall DEF Innermost
<1>4. CASE i = Depth + 1
  <2>1. Holds(d, p)
    BY <1>2, <1>4 DEF Pushed
  <2>2. Holds(Innermost, p)
    BY <2>1 DEF Holds
  <2> QED BY <1>3, <2>2, InHandIs
<1>5. CASE i = Depth
  <2>1. Holds(Without(x), p)
    BY <1>2, <1>5 DEF Pushed
  <2> QED BY <2>1, WithoutInHand
<1>6. CASE i # Depth + 1 /\ i # Depth
  <2>1. i \in 1..Depth /\ i < Depth
    BY <1>3, <1>6
  <2>2. calls'[i] = calls[i]
    BY <2>1 DEF Pushed
  <2> QED BY <1>2, <2>1, <2>2, InHandIs
<1> QED BY <1>4, <1>5, <1>6

LEMMA PoppedInHand ==
  ASSUME calls \in Seq(Listing), calls # <<>>, Popped
  PROVE  InHand' \subseteq InHand
<1> SUFFICES ASSUME NEW p \in InHand' PROVE p \in InHand
  OBVIOUS
<1>1. calls' \in Seq(Listing) /\ Len(calls') = Depth - 1
  BY DEF Popped
<1>2. PICK i \in 1..(Depth - 1) : Holds(calls'[i], p)
  BY <1>1, InHandIs
<1>3. Depth \in Nat \ {0}
  BY InnermostCall
<1>4. i \in 1..Depth /\ i < Depth
  BY <1>3
<1>5. calls'[i] = calls[i]
  BY <1>4 DEF Popped
<1> QED BY <1>2, <1>4, <1>5, InHandIs

LEMMA IdleInHand ==
  /\ calls' = calls => InHand' = InHand
  /\ calls' = <<>> => InHand' = {}
<1>1. calls' = calls => InHand' = InHand
  BY DEF InHand
<1>2. ASSUME calls' = <<>> PROVE InHand' = {}
  <2>1. calls' \in Seq(Listing) /\ Len(calls') = 0
    BY <1>2, EmptySeq
  <2>2. \A i : i \notin 1..0
    OBVIOUS
  <2> QED BY <2>1, <2>2, InHandIs
<1> QED BY <1>1, <1>2

\* While a call runs, the named path is in hand.
LEMMA RootInHand ==
  ASSUME TreeInv, NEW d \in InHand
  PROVE  root \in InHand
<1>1. calls \in Seq(Listing)
  BY DEF TreeInv, Nested
<1>2. PICK i \in 1..Depth : Holds(calls[i], d)
  BY <1>1, InHandIs
<1>3. calls # <<>>
  BY <1>1, <1>2, EmptySeq DEF Depth
<1>4. calls[1].path = root /\ 1 \in 1..Depth
  BY <1>3, Busy
<1>5. Holds(calls[1], root)
  BY <1>4 DEF Holds
<1> QED BY <1>1, <1>4, <1>5, InHandIs

\* A change of the tree that turns none of the paths elsewhere,
LEMMA StraightThrough ==
  ASSUME TreeInv, NEW f, Becomes(f), root' = root, InHand' \subseteq InHand
  PROVE  Straight'
<1> SUFFICES ASSUME ~diverted', NEW d \in InHand'
             PROVE  IsPrefix(Opens(tree', root'), Opens(tree', d))
  BY DEF Straight, Opens, Route, Follow
<1>1. /\ ~diverted /\ tree' = f
      /\ \A p \in InHand : Opens(f, p) = Opens(tree, p)
  BY DEF Becomes
<1>2. d \in InHand /\ root \in InHand
  BY RootInHand
<1>3. Opens(tree', root') = Opens(tree, root) /\ Opens(tree', d) = Opens(tree, d)
  BY <1>1, <1>2
<1> QED BY <1>1, <1>2, <1>3 DEF TreeInv, Straight

\* and a step that does not change the tree.
LEMMA StraightOn ==
  ASSUME TreeInv, UNCHANGED <<tree, root, diverted>>,
         ~diverted => \A d \in InHand' : d \in InHand \/ IsPrefix(Opens(tree, root), Opens(tree, d))
  PROVE  Straight'
<1> SUFFICES ASSUME ~diverted', NEW d \in InHand'
             PROVE  IsPrefix(Opens(tree', root'), Opens(tree', d))
  BY DEF Straight, Opens, Route, Follow
<1>1. IsPrefix(Opens(tree, root), Opens(tree, d))
  BY DEF TreeInv, Straight
<1> QED BY <1>1

\* What has been listed as a directory is one: no link leads away from it.
LEMMA ListStraight ==
  ASSUME TreeInv, List
  PROVE  Straight'
<1>1. PICK c \in Listing :
           /\ calls # <<>> /\ Changed(c) /\ c.path = Innermost.path
           /\ c.todo = {[name |-> Last(q), dir |-> IsDir(q)] :
                          q \in Children(Opens(tree, Innermost.path))}
           /\ UNCHANGED <<tree, root, diverted>>
  BY ListStep
<1>2. /\ tree \in [Place -> Thing] /\ root \in Seq(Name) /\ calls \in Seq(Listing)
      /\ Innermost.path \in Seq(Name) /\ Innermost = calls[Depth] /\ Depth \in 1..Depth
  BY <1>1, Busy
<1> DEFINE top == Opens(tree, root)
           here == Opens(tree, Innermost.path)
<1>3. top \in Seq(Name) /\ here \in Seq(Name)
  BY <1>2, OpensType
<1>4. Innermost.path \in InHand
  <2>1. Holds(Innermost, Innermost.path)
    BY DEF Holds
  <2> QED BY <1>2, <2>1, InHandIs
<1>5. ASSUME ~diverted, NEW d \in InHand', d \notin InHand
      PROVE  IsPrefix(top, Opens(tree, d))
  <2>1. Holds(c, d)
    BY <1>1, <1>2, <1>5, ChangedInHand
  <2>2. PICK x \in c.todo : x.dir /\ d = Append(Innermost.path, x.name)
    BY <1>1, <1>4, <1>5, <2>1 DEF Holds
  <2>3. PICK q \in Children(here) : x = [name |-> Last(q), dir |-> IsDir(q)]
    BY <1>1, <2>2
  <2>4. x.name = Last(q) /\ tree[q] = Directory
    BY <2>2, <2>3 DEF IsDir
  <2>5. q \in Place /\ q \in Seq(Name) /\ q # <<>> /\ Front(q) = here
    BY TreeAssumption DEF Children
  <2> HIDE DEF here, top
  <2>6. Last(q) \in Name /\ q = Append(here, Last(q))
    BY <2>5, FrontLast
  <2>7. Opens(tree, d) = Follow(tree, q)
    <3>1. Opens(tree, d) = Follow(tree, Append(here, x.name))
      BY <1>2, <2>2, <2>4, <2>6, OpensAppend DEF here
    <3> QED BY <2>4, <2>6, <3>1
  <2>8. Follow(tree, q) = q
    <3>1. tree[q].kind # "link"
      BY <2>4 DEF Directory
    <3> QED BY <1>2, <2>5, <3>1, FollowType
  <2>9. IsPrefix(top, here)
    BY <1>4, <1>5 DEF TreeInv, Straight, top, here
  <2>10. IsPrefix(here, q)
    BY <1>3, <2>6, PrefixOfAppend
  <2>11. IsPrefix(top, q)
    BY <1>3, <2>5, <2>9, <2>10, PrefixOrder
  <2> QED BY <2>7, <2>8, <2>11
<1> QED BY <1>1, <1>5, StraightOn

LEMMA StraightKept ==
  ASSUME TreeInv, [TreeNext]_treeVars
  PROVE  Straight'
<1>1. calls \in Seq(Listing)
  BY DEF TreeInv, Nested
<1>2. ASSUME NEW p, NEW x, Meddle(p, x) PROVE Straight'
  <2>1. InHand' = InHand
    BY <1>2, IdleInHand DEF Meddle
  <2>2. root' = root /\ \E f : Becomes(f)
    BY <1>2 DEF Meddle
  <2> QED BY <2>1, <2>2, StraightThrough
<1>3. CASE ListFails \/ RemoveDirectoryFails \/ \E x \in Item : RemoveItemFails(x)
  <2>1. InHand' = {} /\ UNCHANGED <<tree, root, diverted>>
    BY <1>3, FailStep, IdleInHand
  <2> QED BY <2>1, StraightOn
<1>4. ASSUME NEW x \in Item, Descend(x) PROVE Straight'
  <2> DEFINE d == Call(Append(Innermost.path, x.name))
  <2>1. /\ calls # <<>> /\ x \in Innermost.todo /\ x.dir
        /\ Pushed(Without(x), d)
        /\ d.path = Append(Innermost.path, x.name) /\ d.todo = {}
        /\ UNCHANGED <<tree, root, diverted>>
    BY <1>4, DescendStep
  <2> HIDE DEF d
  <2>2. InHand' \subseteq InHand
    BY <1>1, <2>1, PushedInHand
  <2> QED BY <2>1, <2>2, StraightOn
<1>5. ASSUME NEW x \in Item, RemoveItem(x) PROVE Straight'
  <2>1. calls # <<>> /\ Changed(Without(x)) /\ root' = root /\ \E p : Removal(p)
    BY <1>5, RemoveItemStep
  <2>2. InHand' \subseteq InHand
    BY <1>1, <2>1, ChangedInHand, WithoutInHand
  <2> QED BY <2>1, <2>2, StraightThrough DEF Removal
<1>6. CASE RemoveDirectory
  <2>1. calls # <<>> /\ Popped /\ root' = root /\ \E p : Removal(p)
    BY <1>6, RemoveDirectoryStep
  <2>2. InHand' \subseteq InHand
    BY <1>1, <2>1, PoppedInHand
  <2> QED BY <2>1, <2>2, StraightThrough DEF Removal
<1>7. CASE UNCHANGED treeVars
  <2>1. calls' = calls /\ UNCHANGED <<tree, root, diverted>>
    BY <1>7 DEF treeVars
  <2>2. InHand' = InHand
    BY <2>1, IdleInHand
  <2> QED BY <2>1, <2>2, StraightOn
<1> QED BY <1>2, <1>3, <1>4, <1>5, <1>6, <1>7, ListStraight DEF TreeNext, Walk

-----------------------------------------------------------------------------
(* The walk fails for a cause. *)

\* While nobody interferes, what the innermost call names is a directory, opened at its
\* place; what it has listed is there, and what is there it has listed.
LEMMA CalmCall ==
  ASSUME TreeInv, Calm, calls # <<>>
  PROVE  /\ \A i \in 1..Depth : Listed(i)
         /\ Innermost.path \in Place /\ Innermost.path # <<>>
         /\ tree[Innermost.path] = Directory
         /\ Opens(tree, Innermost.path) = Innermost.path
         /\ Entry(tree, Innermost.path) = Innermost.path
<1>1. \A i \in 1..Depth : Listed(i)
  BY DEF TreeInv, Undisturbed
<1>2. Depth \in 1..Depth /\ Innermost = calls[Depth] /\ IsTree(tree)
  BY Busy
<1>3. /\ Innermost.path \in Place /\ Innermost.path # <<>>
      /\ tree[Innermost.path] = Directory
  BY <1>1, <1>2 DEF Listed
<1>4. tree[Innermost.path] # Absent
  BY <1>3 DEF Directory, Absent
<1> QED BY <1>1, <1>2, <1>3, <1>4, OpensStraight, EntryStraight

\* The directories of two calls lie at different depths.
LEMMA CallsApart ==
  ASSUME TreeInv, calls # <<>>
  PROVE  \A i, j \in 1..Depth : i # j => calls[i].path # calls[j].path
<1>1. /\ Depth \in Nat /\ root \in Seq(Name)
  BY Busy
<1>2. Len(root) \in Nat
  BY <1>1, LenProperties
<1> SUFFICES ASSUME NEW i \in 1..Depth, NEW j \in 1..Depth, i # j,
                    calls[i].path = calls[j].path
             PROVE  FALSE
  OBVIOUS
<1>3. /\ Len(calls[i].path) = Len(root) + i - 1
      /\ Len(calls[j].path) = Len(root) + j - 1
  BY DEF TreeInv, Nested
<1> QED BY <1>1, <1>2, <1>3

\* A request only fails because somebody refused it.
LEMMA CalmFails ==
  ASSUME TreeInv, Calm, ListFails \/ RemoveDirectoryFails \/ \E x \in Item : RemoveItemFails(x)
  PROVE  refused' = TRUE
<1>1. calls # <<>>
  BY FailStep
<1>2. /\ Listed(Depth) /\ Depth \in 1..Depth /\ Depth \in Nat
      /\ Innermost = calls[Depth] /\ Inner = Innermost
      /\ Innermost.path \in Place /\ tree[Innermost.path] = Directory
      /\ Opens(tree, Innermost.path) = Innermost.path
      /\ Entry(tree, Innermost.path) = Innermost.path
  BY <1>1, Busy, CalmCall
<1>3. CASE ListFails
  BY <1>2, <1>3 DEF ListFails, FailsOr, ReadableDir, Here
<1>4. CASE RemoveDirectoryFails
  <2>1. Innermost.listed /\ Innermost.todo = {}
    BY <1>2, <1>4 DEF RemoveDirectoryFails
  <2>2. Children(Innermost.path) = {}
    BY <1>2, <2>1 DEF Listed
  <2>3. RemovableDir(Entry(tree, Inner.path))
    BY <1>2, <2>2 DEF RemovableDir, ReadableDir
  <2> QED BY <1>4, <2>3 DEF RemoveDirectoryFails, FailsOr
<1>5. ASSUME NEW x \in Item, RemoveItemFails(x) PROVE refused' = TRUE
  <2>1. x \in Innermost.todo /\ ~x.dir /\ x.name \in Name
    BY <1>2, <1>5 DEF RemoveItemFails, Item
  <2> DEFINE p == Append(Innermost.path, x.name)
  <2>2. Entry(tree, Join(Inner.path, x.name)) = p
    <3>1. Innermost.path \in Seq(Name)
      BY <1>2, TreeAssumption
    <3>2. Front(p) = Innermost.path /\ Last(p) = x.name
      BY <2>1, <3>1, FrontOfAppend
    <3> QED BY <1>2, <3>2 DEF Entry, Join
  <2>3. p \in Place /\ tree[p] # Absent /\ tree[p] # Directory
    BY <1>2, <2>1 DEF Listed, There
  <2> HIDE DEF p
  <2> QED BY <1>5, <2>2, <2>3 DEF RemoveItemFails, FailsOr, Removable
<1> QED BY <1>3, <1>4, <1>5

LEMMA CalmBefore ==
  ASSUME TreeInv, [TreeNext]_treeVars, Calm'
  PROVE  /\ Calm /\ refused' = refused /\ root' = root
         /\ \A p, x : ~Meddle(p, x)
<1>1. meddles \in Nat /\ refused \in BOOLEAN
  BY TreeAssumption DEF TreeInv, TreeTypeOK
<1>2. ~refused' /\ meddles' = 0 /\ StartTree[root'] = Directory
  BY DEF Calm
<1>3. \A p, x : ~Meddle(p, x)
  BY <1>1, <1>2 DEF Meddle
<1>4. CASE ListFails \/ RemoveDirectoryFails \/ \E x \in Item : RemoveItemFails(x)
  BY <1>1, <1>2, <1>3, <1>4, FailStep DEF Calm
<1>5. CASE List \/ RemoveDirectory \/ \E x \in Item : Descend(x) \/ RemoveItem(x)
  BY <1>1, <1>2, <1>3, <1>5 DEF Calm, List, RemoveDirectory, Descend, RemoveItem
<1>6. CASE UNCHANGED treeVars
  BY <1>1, <1>2, <1>3, <1>6 DEF Calm, treeVars
<1> QED BY <1>3, <1>4, <1>5, <1>6 DEF TreeNext, Walk

\* What a call has listed stays listed when something that it does not list is removed.
LEMMA ListedKept ==
  ASSUME TreeInv, NEW i \in 1..Depth, Listed(i), NEW p, Removal(p),
         p # calls[i].path, \A x \in calls[i].todo : Append(calls[i].path, x.name) # p,
         i # Depth, calls'[i] = calls[i],
         i < Depth' => calls'[i + 1].path = calls[i + 1].path,
         ~(i < Depth') => calls[i + 1].path = p
  PROVE  Listed(i)'
<1> DEFINE c == calls[i]
<1>1. IsTree(tree)
  BY DEF TreeInv, TreeTypeOK
<1>2. /\ \A q \in Place : q # p => tree'[q] = tree[q]
      /\ tree'[p] = Absent
  BY <1>1, RemovalTree
<1>3. Depth \in Nat /\ i < Depth
  <2>1. calls \in Seq(Listing)
    BY DEF TreeInv, Nested
  <2>2. Depth \in Nat
    BY <2>1, LenProperties DEF Depth
  <2> QED BY <2>2
<1>4. c.path \in Place /\ c.path # <<>> /\ tree[c.path] = Directory
  BY DEF Listed
<1>5. tree'[c.path] = Directory
  BY <1>2, <1>4
<1>6. \A x \in c.todo : There(c, x)
  BY DEF Listed
<1>7. \A x \in c.todo : There(c, x)'
  <2> SUFFICES ASSUME NEW x \in c.todo
               PROVE  LET q == Append(c.path, x.name)
                      IN q \in Place /\ tree'[q] # Absent /\ x.dir = (tree'[q] = Directory)
    BY DEF There
  <2> DEFINE q == Append(c.path, x.name)
  <2>1. q \in Place /\ tree[q] # Absent /\ x.dir = (tree[q] = Directory) /\ q # p
    BY <1>6 DEF There
  <2> QED BY <1>2, <2>1
<1>8. c.listed => \A q \in Children(c.path)' :
                    \/ \E x \in c.todo : x.name = Last(q)
                    \/ i < Depth' /\ q = calls'[i + 1].path
  <2> SUFFICES ASSUME c.listed, NEW q \in Children(c.path)'
               PROVE  \/ \E x \in c.todo : x.name = Last(q)
                      \/ i < Depth' /\ q = calls'[i + 1].path
    OBVIOUS
  <2>1. q \in Place /\ q # <<>> /\ Front(q) = c.path /\ tree'[q] # Absent
    BY DEF Children
  <2>2. q # p /\ tree[q] # Absent
    BY <1>2, <2>1
  <2>3. q \in Children(c.path)
    BY <2>1, <2>2 DEF Children
  <2>4. \/ \E x \in c.todo : x.name = Last(q)
        \/ q = calls[i + 1].path
    BY <2>3 DEF Listed
  <2> QED BY <2>2, <2>4
<1>9. i < Depth' => \A x \in c.todo : x.name # Last(calls'[i + 1].path)
  BY <1>3 DEF Listed
<1> QED BY <1>4, <1>5, <1>7, <1>8, <1>9 DEF Listed, There

\* What is in directory p after a step.
Left(p) == {q \in Place : q # <<>> /\ Front(q) = p /\ tree'[q] # Absent}

LEMMA ListedSame ==
  ASSUME NEW i \in 1..Depth, Listed(i), tree' = tree, calls'[i] = calls[i],
         (i < Depth') = (i < Depth), i < Depth => calls'[i + 1].path = calls[i + 1].path
  PROVE  Listed(i)'
<1>1. \A p : Children(p)' = Children(p)
  BY DEF Children
<1>2. \A x : There(calls[i], x)' = There(calls[i], x)
  BY DEF There
<1>3. \A x \in calls[i].todo : There(calls[i], x)'
  BY <1>2 DEF Listed
<1> HIDE DEF There
<1> QED BY <1>1, <1>3 DEF Listed

LEMMA UndisturbedList ==
  ASSUME TreeInv, Calm, List, NEW i \in 1..Depth'
  PROVE  Listed(i)'
<1>1. PICK c \in Listing :
           /\ calls # <<>> /\ Changed(c) /\ c.path = Innermost.path
           /\ c.todo = {[name |-> Last(q), dir |-> IsDir(q)] :
                          q \in Children(Opens(tree, Innermost.path))}
           /\ tree' = tree
  BY ListStep
<1>2. /\ Depth \in Nat \ {0} /\ Depth' = Depth /\ Innermost = calls[Depth]
      /\ calls'[Depth] = c
      /\ \A j \in 1..Depth : j < Depth => calls'[j] = calls[j]
  BY <1>1, Busy DEF Changed, Depth
<1>3. /\ \A j \in 1..Depth : Listed(j)
      /\ c.path \in Place /\ c.path # <<>> /\ tree[c.path] = Directory
      /\ Opens(tree, Innermost.path) = c.path
  BY <1>1, CalmCall
<1>4. CASE i = Depth
  <2>1. c.todo = {[name |-> Last(q), dir |-> IsDir(q)] : q \in Children(c.path)}
    BY <1>1, <1>3
  <2>2. \A x \in c.todo : There(c, x)
    <3> SUFFICES ASSUME NEW q \in Children(c.path)
                 PROVE  There(c, [name |-> Last(q), dir |-> IsDir(q)])
      BY <2>1
    <3>1. q \in Place /\ q # <<>> /\ Front(q) = c.path /\ tree[q] # Absent /\ q \in Seq(Name)
      BY TreeAssumption DEF Children
    <3>2. Append(c.path, Last(q)) = q
      BY <3>1, FrontLast
    <3> QED BY <3>1, <3>2 DEF There, IsDir
  <2>3. \A q \in Children(c.path) : \E x \in c.todo : x.name = Last(q)
    <3> SUFFICES ASSUME NEW q \in Children(c.path)
                 PROVE  \E x \in c.todo : x.name = Last(q)
      OBVIOUS
    <3> DEFINE x == [name |-> Last(q), dir |-> IsDir(q)]
    <3>1. x \in c.todo /\ x.name = Last(q)
      BY <2>1
    <3> QED BY <3>1
  <2>4. \A p : Children(p)' = Children(p)
    BY <1>1 DEF Children
  <2>5. \A x : There(c, x)' = There(c, x)
    BY <1>1 DEF There
  <2>6. \A x \in c.todo : There(calls[i], x)'
    <3>1. \A x \in c.todo : There(c, x)'
      BY <2>2, <2>5
    <3> QED BY <1>2, <1>4, <3>1 DEF There
  <2>7. ~(i < Depth')
    BY <1>2, <1>4
  <2> HIDE DEF There
  <2> QED BY <1>1, <1>2, <1>3, <1>4, <2>3, <2>4, <2>6, <2>7 DEF Listed
<1>5. CASE i # Depth
  <2>1. i \in 1..Depth /\ i < Depth /\ i + 1 \in 1..Depth
    BY <1>2, <1>5
  <2>2. calls'[i] = calls[i] /\ calls'[i + 1].path = calls[i + 1].path
    <3>1. CASE i + 1 = Depth
      BY <1>1, <1>2, <2>1, <3>1
    <3>2. CASE i + 1 # Depth
      <4>1. i + 1 < Depth
        BY <1>2, <2>1, <3>2
      <4> QED BY <1>2, <2>1, <4>1
    <3> QED BY <3>1, <3>2
  <2> QED BY <1>1, <1>2, <1>3, <2>1, <2>2, ListedSame
<1> QED BY <1>4, <1>5

LEMMA UndisturbedDescend ==
  ASSUME TreeInv, Calm, NEW x \in Item, Descend(x), NEW i \in 1..Depth'
  PROVE  Listed(i)'
<1> DEFINE d == Call(Append(Innermost.path, x.name))
           c == Without(x)
<1>1. /\ calls # <<>> /\ x \in Innermost.todo /\ x.dir /\ x.name \in Name
      /\ Pushed(c, d) /\ d \in Listing /\ d.path = Append(Innermost.path, x.name)
      /\ d.todo = {} /\ ~d.listed /\ tree' = tree
  BY DescendStep
<1>2. c.path = Innermost.path /\ c.todo = Innermost.todo \ {x}
  <2>1. calls \in Seq(Listing)
    BY DEF TreeInv, Nested
  <2> QED BY <1>1, <2>1, WithoutCall
<1> HIDE DEF c, d
<1>3. /\ Depth \in Nat \ {0} /\ Depth' = Depth + 1 /\ Innermost = calls[Depth]
      /\ calls'[Depth] = c /\ calls'[Depth + 1] = d
      /\ \A j \in 1..Depth : j < Depth => calls'[j] = calls[j]
  BY <1>1, Busy DEF Pushed, Depth
<1>4. /\ \A j \in 1..Depth : Listed(j)
      /\ Innermost.path \in Place /\ Innermost.path # <<>>
      /\ tree[Innermost.path] = Directory
      /\ Listed(Depth)
  BY <1>1, <1>3, CalmCall
<1>5. Innermost.path \in Seq(Name)
  BY <1>4, TreeAssumption
<1>6. /\ d.path \in Place /\ d.path # <<>> /\ tree[d.path] = Directory
      /\ Last(d.path) = x.name
  <2>1. There(Innermost, x)
    BY <1>1, <1>3, <1>4 DEF Listed
  <2>2. Last(d.path) = x.name /\ d.path # <<>>
    BY <1>1, <1>5, FrontOfAppend
  <2> QED BY <1>1, <2>1, <2>2 DEF There
<1>7. CASE i = Depth + 1
  <2>1. calls'[i] = d /\ ~(i < Depth')
    BY <1>3, <1>7
  <2> QED BY <1>1, <1>6, <2>1 DEF Listed
<1>8. CASE i = Depth
  <2>1. calls'[i] = c /\ i < Depth' /\ calls'[i + 1] = d
    BY <1>3, <1>8
  <2>2. \A y \in c.todo : There(calls[i], y)'
    <3> SUFFICES ASSUME NEW y \in c.todo PROVE There(calls[i], y)'
      OBVIOUS
    <3>1. There(calls[Depth], y)
      BY <1>2, <1>3, <1>4 DEF Listed
    <3> QED BY <1>1, <1>2, <1>3, <2>1, <3>1 DEF There
  <2>3. \A y \in c.todo : y.name # Last(d.path)
    <3> SUFFICES ASSUME NEW y \in c.todo, y.name = x.name PROVE FALSE
      BY <1>6
    <3>1. There(Innermost, y) /\ There(Innermost, x)
      BY <1>1, <1>2, <1>3, <1>4 DEF Listed
    <3>2. y.dir = x.dir
      BY <3>1 DEF There
    <3>3. y \in Item
      <4>1. Innermost \in Listing
        BY <1>1, Busy
      <4> QED BY <1>2, <4>1 DEF Listing
    <3>4. y = x
      BY <3>2, <3>3 DEF Item
    <3> QED BY <1>2, <3>4
  <2>4. \A q \in Left(c.path) :
          \/ \E y \in c.todo : y.name = Last(q)
          \/ q = d.path
    <3> SUFFICES ASSUME NEW q \in Left(c.path), Last(q) = x.name PROVE q = d.path
      <4> SUFFICES ASSUME NEW q \in Left(c.path), Last(q) # x.name
                   PROVE  \E y \in c.todo : y.name = Last(q)
        OBVIOUS
      <4>1. q \in Children(Innermost.path)
        BY <1>1, <1>2 DEF Children, Left
      <4>2. Innermost.listed
        BY <1>1, ListedCall
      <4>3. PICK y \in Innermost.todo : y.name = Last(q)
        BY <1>3, <1>4, <4>1, <4>2 DEF Listed
      <4> QED BY <1>2, <4>3
    <3>1. q \in Place /\ q # <<>> /\ Front(q) = Innermost.path /\ q \in Seq(Name)
      BY <1>2, TreeAssumption DEF Left
    <3> QED BY <1>1, <3>1, FrontLast
  <2> HIDE DEF There
  <2> QED BY <1>1, <1>2, <1>4, <2>1, <2>2, <2>3, <2>4 DEF Listed, Children, Left
<1>9. CASE i # Depth + 1 /\ i # Depth
  <2>1. i \in 1..Depth /\ i < Depth /\ i + 1 \in 1..Depth /\ i < Depth'
    BY <1>3, <1>9
  <2>2. calls'[i] = calls[i] /\ calls'[i + 1].path = calls[i + 1].path
    <3>1. CASE i + 1 = Depth
      BY <1>2, <1>3, <2>1, <3>1
    <3>2. CASE i + 1 # Depth
      <4>1. i + 1 < Depth
        BY <1>3, <2>1, <3>2
      <4> QED BY <1>3, <2>1, <4>1
    <3> QED BY <3>1, <3>2
  <2> QED BY <1>1, <1>4, <2>1, <2>2, ListedSame
<1> QED BY <1>7, <1>8, <1>9

LEMMA UndisturbedRemoveItem ==
  ASSUME TreeInv, Calm, NEW x \in Item, RemoveItem(x), NEW i \in 1..Depth'
  PROVE  Listed(i)'
<1> DEFINE p == Append(Innermost.path, x.name)
           c == Without(x)
<1>1. /\ calls # <<>> /\ x \in Innermost.todo /\ ~x.dir /\ x.name \in Name
      /\ Changed(c) /\ Innermost.path \in Seq(Name)
      /\ Removal(Append(Opens(tree, Innermost.path), x.name))
  BY RemoveItemStep
<1>2. c.path = Innermost.path /\ c.todo = Innermost.todo \ {x}
  <2>1. calls \in Seq(Listing)
    BY DEF TreeInv, Nested
  <2> QED BY <1>1, <2>1, WithoutCall
<1> HIDE DEF c
<1>3. /\ Depth \in Nat \ {0} /\ Depth' = Depth /\ Innermost = calls[Depth]
      /\ calls'[Depth] = c
      /\ \A j \in 1..Depth : j < Depth => calls'[j] = calls[j]
  BY <1>1, Busy DEF Changed, Depth
<1>4. /\ \A j \in 1..Depth : Listed(j)
      /\ Innermost.path \in Place /\ Innermost.path # <<>>
      /\ tree[Innermost.path] = Directory
      /\ Listed(Depth) /\ Removal(p)
  BY <1>1, <1>3, CalmCall
<1>5. p \in Place /\ tree[p] # Directory
  <2>1. There(Innermost, x)
    BY <1>1, <1>3, <1>4 DEF Listed
  <2> QED BY <1>1, <2>1 DEF There
<1>6. \A q \in Place : q # p => tree'[q] = tree[q]
  <2>1. IsTree(tree)
    BY <1>1, Busy
  <2> QED BY <1>4, <2>1, RemovalTree
<1>7. tree'[p] = Absent
  <2>1. IsTree(tree)
    BY <1>1, Busy
  <2> QED BY <1>4, <2>1, RemovalTree
<1>8. Last(p) = x.name /\ \A j \in 1..Depth : \A y \in calls[j].todo :
        Append(calls[j].path, y.name) = p => calls[j].path = Innermost.path /\ y.name = x.name
  <2>1. Last(p) = x.name
    BY <1>1, FrontOfAppend
  <2>2. \A j \in 1..Depth : \A y \in calls[j].todo :
          Append(calls[j].path, y.name) = p => calls[j].path = Innermost.path /\ y.name = x.name
    <3> SUFFICES ASSUME NEW j \in 1..Depth, NEW y \in calls[j].todo,
                        Append(calls[j].path, y.name) = p
                 PROVE  calls[j].path = Innermost.path /\ y.name = x.name
      OBVIOUS
    <3>1. calls[j].path \in Seq(Name) /\ calls[j].todo \subseteq Item
      <4>1. calls[j] \in Listing
        BY <1>1, Busy
      <4> QED BY <4>1 DEF Listing
    <3>2. y.name \in Name
      BY <3>1 DEF Item
    <3>3. Innermost.path \in Seq(Name) /\ x.name \in Name
      BY <1>1
    <3>4. \A s, t \in Seq(Name), m, n \in Name :
            Append(s, m) = Append(t, n) => s = t /\ m = n
      BY AppendInjective
    <3> QED BY <3>1, <3>2, <3>3, <3>4
  <2> QED BY <2>1, <2>2
<1> HIDE DEF p
<1>9. CASE i = Depth
  <2>1. calls'[i] = c /\ ~(i < Depth')
    BY <1>3, <1>9
  <2>2. tree'[c.path] = Directory
    BY <1>2, <1>4, <1>5, <1>6
  <2>3. \A y \in c.todo : There(calls[i], y)'
    <3> SUFFICES ASSUME NEW y \in c.todo PROVE There(calls[i], y)'
      OBVIOUS
    <3>1. There(Innermost, y) /\ There(Innermost, x) /\ y \in calls[Depth].todo /\ Depth \in 1..Depth
      BY <1>1, <1>2, <1>3, <1>4 DEF Listed
    <3>2. Append(Innermost.path, y.name) # p
      <4>1. SUFFICES ASSUME y.name = x.name PROVE FALSE
        BY <1>3, <1>8, <3>1
      <4>2. y.dir = x.dir
        BY <3>1, <4>1 DEF There
      <4>3. y \in Item
        <5>1. Innermost \in Listing
          BY <1>1, Busy
        <5> QED BY <1>2, <5>1 DEF Listing
      <4>4. y = x
        BY <4>1, <4>2, <4>3 DEF Item
      <4> QED BY <1>2, <4>4
    <3> DEFINE q == Append(Innermost.path, y.name)
    <3>3. q \in Place /\ tree[q] # Absent /\ y.dir = (tree[q] = Directory)
      BY <3>1 DEF There
    <3>4. tree'[q] = tree[q]
      BY <1>6, <3>2, <3>3
    <3>5. calls'[i].path = Innermost.path
      BY <1>2, <2>1
    <3> QED BY <3>3, <3>4, <3>5 DEF There
  <2>4. \A q \in Left(c.path) : \E y \in c.todo : y.name = Last(q)
    <3> SUFFICES ASSUME NEW q \in Left(c.path)
                 PROVE  \E y \in c.todo : y.name = Last(q)
      OBVIOUS
    <3>1. q \in Place /\ q # <<>> /\ Front(q) = Innermost.path /\ tree'[q] # Absent
      BY <1>2 DEF Left
    <3>2. q # p /\ tree[q] # Absent
      BY <1>6, <1>7, <3>1
    <3>3. q \in Children(Innermost.path)
      BY <3>1, <3>2 DEF Children
    <3>4. Innermost.listed
      BY <1>1, ListedCall
    <3>5. PICK y \in Innermost.todo : y.name = Last(q)
      BY <1>3, <1>4, <3>3, <3>4 DEF Listed
    <3>6. Last(q) # x.name
      <4>1. q \in Seq(Name)
        BY <3>1, TreeAssumption
      <4>2. q = Append(Innermost.path, Last(q))
        BY <3>1, <4>1, FrontLast
      <4> QED BY <3>2, <4>2 DEF p
    <3> QED BY <1>2, <3>5, <3>6
  <2> HIDE DEF There
  <2> QED BY <1>2, <1>4, <2>1, <2>2, <2>3, <2>4 DEF Listed, Children, Left
<1>10. CASE i # Depth
  <2>1. i \in 1..Depth /\ i < Depth /\ i + 1 \in 1..Depth /\ i < Depth' /\ Depth \in 1..Depth
    BY <1>3, <1>10
  <2>2. calls'[i] = calls[i] /\ calls'[i + 1].path = calls[i + 1].path
    <3>1. CASE i + 1 = Depth
      BY <1>2, <1>3, <2>1, <3>1
    <3>2. CASE i + 1 # Depth
      <4>1. i + 1 < Depth
        BY <1>3, <2>1, <3>2
      <4> QED BY <1>3, <2>1, <4>1
    <3> QED BY <3>1, <3>2
  <2>3. Listed(i) /\ calls[i].path # Innermost.path
    BY <1>1, <1>3, <1>4, <1>10, <2>1, CallsApart
  <2>4. p # calls[i].path
    BY <1>5, <2>3 DEF Listed
  <2>5. \A y \in calls[i].todo : Append(calls[i].path, y.name) # p
    BY <1>8, <2>1, <2>3
  <2> QED BY <1>4, <1>10, <2>1, <2>2, <2>3, <2>4, <2>5, ListedKept
<1> QED BY <1>9, <1>10

LEMMA UndisturbedRemoveDirectory ==
  ASSUME TreeInv, Calm, RemoveDirectory, NEW i \in 1..Depth'
  PROVE  Listed(i)'
<1> DEFINE p == Innermost.path
<1>1. calls # <<>> /\ Popped /\ Removal(Entry(tree, p))
  BY RemoveDirectoryStep
<1>2. /\ Depth \in Nat \ {0} /\ Depth' = Depth - 1 /\ Innermost = calls[Depth]
      /\ Depth \in 1..Depth
      /\ \A j \in 1..Depth : j < Depth => calls'[j] = calls[j]
  BY <1>1, Busy DEF Popped, Depth
<1>3. (\A j \in 1..Depth : Listed(j)) /\ Removal(p)
  BY <1>1, CalmCall
<1>4. i \in 1..Depth /\ i < Depth /\ i # Depth /\ i + 1 \in 1..Depth
  BY <1>2
<1>5. calls[i].path # p
  BY <1>1, <1>2, <1>4, CallsApart
<1>6. \A y \in calls[i].todo : Append(calls[i].path, y.name) # p
  <2> SUFFICES ASSUME NEW y \in calls[i].todo, Append(calls[i].path, y.name) = p PROVE FALSE
    OBVIOUS
  <2>1. calls[i].path \in Seq(Name) /\ y.name \in Name
    <3>1. calls[i] \in Listing
      BY <1>1, <1>4, Busy
    <3> QED BY <3>1 DEF Listing, Item
  <2>2. Front(p) = calls[i].path /\ Last(p) = y.name
    BY <2>1, FrontOfAppend
  <2>3. Depth \in 2..Depth /\ Depth - 1 \in 1..Depth
    BY <1>2, <1>4
  <2>4. Front(p) = calls[Depth - 1].path
    BY <1>2, <2>3 DEF TreeInv, Nested
  <2>5. i = Depth - 1
    BY <1>1, <1>4, <2>2, <2>3, <2>4, CallsApart
  <2>6. i + 1 = Depth
    BY <1>2, <2>5
  <2>7. y.name # Last(calls[i + 1].path)
    BY <1>3, <1>4 DEF Listed
  <2> QED BY <1>2, <2>2, <2>6, <2>7
<1>7. calls'[i] = calls[i]
  BY <1>2, <1>4
<1>8. i < Depth' => calls'[i + 1].path = calls[i + 1].path
  <2> SUFFICES ASSUME i < Depth' PROVE calls'[i + 1] = calls[i + 1]
    OBVIOUS
  <2>1. i + 1 < Depth
    BY <1>2, <1>4
  <2> QED BY <1>2, <1>4, <2>1
<1>9. ~(i < Depth') => calls[i + 1].path = p
  <2> SUFFICES ASSUME ~(i < Depth') PROVE calls[i + 1].path = p
    OBVIOUS
  <2>1. i + 1 = Depth
    BY <1>2, <1>4
  <2> QED BY <1>2, <2>1
<1>10. Listed(i)
  BY <1>3, <1>4
<1> HIDE DEF p
<1> QED BY <1>3, <1>4, <1>5, <1>6, <1>7, <1>8, <1>9, <1>10, ListedKept

LEMMA UndisturbedKept ==
  ASSUME TreeInv, [TreeNext]_treeVars
  PROVE  Undisturbed'
<1> SUFFICES ASSUME Calm' PROVE err' # "error" /\ \A i \in 1..Depth' : Listed(i)'
  BY DEF Undisturbed
<1>1. Calm /\ refused' = refused /\ ~refused /\ \A p, x : ~Meddle(p, x)
  BY CalmBefore DEF Calm
<1>2. err # "error"
  BY <1>1 DEF TreeInv, Undisturbed
<1>3. ~(ListFails \/ RemoveDirectoryFails \/ \E x \in Item : RemoveItemFails(x))
  BY <1>1, CalmFails
<1>4. CASE List
  BY <1>1, <1>2, <1>4, UndisturbedList DEF List
<1>5. ASSUME NEW x \in Item, Descend(x)
      PROVE  err' # "error" /\ \A i \in 1..Depth' : Listed(i)'
  BY <1>1, <1>2, <1>5, UndisturbedDescend DEF Descend
<1>6. ASSUME NEW x \in Item, RemoveItem(x)
      PROVE  err' # "error" /\ \A i \in 1..Depth' : Listed(i)'
  BY <1>1, <1>2, <1>6, UndisturbedRemoveItem DEF RemoveItem
<1>7. CASE RemoveDirectory
  <2>1. err' # "error"
    BY <1>2, <1>7, RemoveDirectoryStep
  <2> QED BY <1>1, <1>7, <2>1, UndisturbedRemoveDirectory
<1>8. CASE UNCHANGED treeVars
  <2>1. calls' = calls /\ tree' = tree /\ err' = err /\ Depth' = Depth
    BY <1>8 DEF treeVars, Depth
  <2>2. \A i \in 1..Depth : Listed(i)
    BY <1>1 DEF TreeInv, Undisturbed
  <2> HIDE DEF Depth
  <2>3. \A i \in 1..Depth : Listed(i)'
    BY <2>1, <2>2, ListedSame
  <2> QED BY <1>2, <2>1, <2>3
<1> QED BY <1>1, <1>3, <1>4, <1>5, <1>6, <1>7, <1>8 DEF TreeNext, Walk

\* For every tree and every bound: the invariant holds in every behaviour.
THEOREM TreeInvHolds == TreeSpec => []TreeInv
<1>1. TreeInit => TreeInv
  <2> SUFFICES ASSUME TreeInit PROVE TreeInv
    OBVIOUS
  <2> DEFINE c == Call(root)
  <2>1. /\ tree = StartTree /\ root \in Place /\ root # <<>> /\ StartTree[root] # Absent
        /\ calls = <<c>> /\ err = "none" /\ refused = FALSE /\ meddles = 0 /\ diverted = FALSE
    BY DEF TreeInit
  <2>2. root \in Seq(Name) /\ IsTree(tree) /\ MaxMeddles \in Nat
    BY <2>1, TreeAssumption
  <2>3. c \in Listing /\ c.path = root /\ c.todo = {} /\ ~c.listed
    BY <2>2, CallType
  <2> HIDE DEF c
  <2>4. calls \in Seq(Listing) /\ Depth = 1 /\ calls[1] = c /\ calls # <<>>
    BY <2>1, <2>3 DEF Depth
  <2>5. \A i \in 1..Depth : i = 1 /\ calls[i] = c
    BY <2>4
  <2>6. \A i : i \notin 2..Depth
    BY <2>4
  <2>7. Len(root) \in Nat
    BY <2>2, LenProperties
  <2>8. Nested
    BY <2>3, <2>4, <2>5, <2>6, <2>7 DEF Nested
  <2>9. Straight
    <3> SUFFICES ASSUME NEW d \in InHand PROVE IsPrefix(Opens(tree, root), Opens(tree, d))
      BY DEF Straight
    <3>1. PICK i \in 1..Depth : Holds(calls[i], d)
      BY <2>4, InHandIs
    <3>2. d = root
      BY <2>3, <2>5, <3>1 DEF Holds
    <3>3. Opens(tree, root) \in Seq(Name)
      BY <2>2, OpensType DEF IsTree
    <3> QED BY <3>2, <3>3, PrefixOrder
  <2>10. Undisturbed
    <3> SUFFICES ASSUME Calm, NEW i \in 1..Depth PROVE Listed(i)
      BY <2>1 DEF Undisturbed
    <3>1. tree[root] = Directory
      BY <2>1 DEF Calm
    <3>2. ~(i < Depth) /\ calls[i] = c
      BY <2>4, <2>5
    <3> QED BY <2>1, <2>3, <3>1, <3>2 DEF Listed
  <2>11. TreeTypeOK
    <3>1. (err # "none") = (calls = <<>>)
      BY <2>1, <2>4
    <3>2. meddles \in 0..MaxMeddles
      BY <2>1, <2>2
    <3>4. refused \in BOOLEAN /\ diverted \in BOOLEAN /\ err \in {"none", "nil", "error"}
      BY <2>1
    <3>3. /\ calls \in Seq(Listing) /\ (calls # <<>> => calls[1].path = root)
          /\ \A i \in 1..Len(calls) : ~calls[i].listed => i = Len(calls) /\ calls[i].todo = {}
          /\ \A i \in 2..Len(calls) :
               calls[i].path # <<>> /\ Front(calls[i].path) = calls[i - 1].path
      BY <2>8 DEF Nested, Depth
    <3> QED BY <2>1, <2>2, <3>1, <3>2, <3>3, <3>4 DEF TreeTypeOK
  <2> QED BY <2>8, <2>9, <2>10, <2>11 DEF TreeInv
<1>2. TreeInv /\ [TreeNext]_treeVars => TreeInv'
  BY TreeTypeKept, NestedKept, StraightKept, UndisturbedKept DEF TreeInv
<1> QED BY <1>1, <1>2, PTL DEF TreeSpec

\* For every tree: what the remote host holds stays a tree, whatever is removed and
\* whatever others do, and every call removes what its caller has listed.
THEOREM TreeTypes == TreeSpec => []TreeTypeOK
<1>1. TreeInv => TreeTypeOK
  BY DEF TreeInv
<1> QED BY <1>1, TreeInvHolds, PTL

\* When nobody refuses a request or changes the tree, removing a directory does not fail.
THEOREM RmdirFailsForCause == TreeSpec => []ErrorHasCause
<1>1. TreeInv => ErrorHasCause
  <2> SUFFICES ASSUME TreeInv, err = "error", ~refused, ~(meddles > 0),
                      StartTree[root] = Directory
               PROVE  FALSE
    BY DEF ErrorHasCause
  <2>1. meddles = 0
    BY TreeAssumption DEF TreeInv, TreeTypeOK
  <2> QED BY <2>1 DEF TreeInv, Undisturbed, Calm
<1> QED BY <1>1, TreeInvHolds, PTL

\* Whatever links the tree holds and whatever others put, remove or replace: until a
\* path of the walk leads elsewhere than it did, a step of the walk removes nothing but
\* what the named path names and what is below the place that it opens.
THEOREM RmdirStaysInside == TreeSpec => OnlyInside
<1> DEFINE In(p) == p = Entry(tree, root) \/ p \in Under(Opens(tree, root))
           Inside == \A p \in Place : tree[p] # Absent /\ tree'[p] = Absent => In(p)
<1>1. ASSUME TreeInv, Walk, ~diverted PROVE Inside
  <2>1. /\ IsTree(tree) /\ tree \in [Place -> Thing] /\ calls \in Seq(Listing)
        /\ root \in Seq(Name)
    BY <1>1, TreeAssumption DEF TreeInv, TreeTypeOK, IsTree
  <2>2. ASSUME NEW q, Removal(q), In(q) PROVE Inside
    BY <2>1, <2>2, RemovalTree
  <2>3. ASSUME NEW path, path \in InHand, path \in Seq(Name), NEW n \in Name,
               Removal(Append(Opens(tree, path), n))
        PROVE  In(Append(Opens(tree, path), n))
    <3> DEFINE top == Opens(tree, root)
               here == Opens(tree, path)
    <3>1. top \in Seq(Name) /\ here \in Seq(Name)
      BY <2>1, <2>3, OpensType
    <3>2. IsPrefix(top, here)
      BY <1>1, <2>3 DEF TreeInv, Straight
    <3> HIDE DEF top, here
    <3>3. IsStrictPrefix(top, Append(here, n))
      BY <3>1, <3>2, PrefixOfAppend
    <3>4. Append(here, n) \in Place
      BY <2>1, <2>3, RemovalTree DEF here
    <3> QED BY <3>3, <3>4 DEF Under, here, top
  <2>4. ASSUME calls # <<>>
        PROVE  \A i \in 1..Depth : calls[i].path \in InHand /\ calls[i].path \in Seq(Name)
    <3> TAKE i \in 1..Depth
    <3>1. Holds(calls[i], calls[i].path)
      BY DEF Holds
    <3> QED BY <1>1, <2>1, <2>4, <3>1, InHandIs, Busy
  <2>5. ASSUME NEW x \in Item, RemoveItem(x) PROVE Inside
    <3>1. /\ calls # <<>> /\ x.name \in Name
          /\ Removal(Append(Opens(tree, Innermost.path), x.name))
      BY <1>1, <2>5, RemoveItemStep
    <3>2. Depth \in 1..Depth /\ Innermost = calls[Depth]
      BY <1>1, <3>1, Busy
    <3>3. In(Append(Opens(tree, Innermost.path), x.name))
      BY <2>3, <2>4, <3>1, <3>2
    <3> HIDE DEF In, Inside
    <3> QED BY <2>2, <3>1, <3>3
  <2>6. CASE RemoveDirectory
    <3> DEFINE p == Entry(tree, Innermost.path)
    <3>1. calls # <<>> /\ Removal(p)
      BY <1>1, <2>6, RemoveDirectoryStep
    <3>2. /\ Depth \in Nat \ {0} /\ Depth \in 1..Depth /\ Innermost = calls[Depth]
          /\ calls[1].path = root
      BY <1>1, <3>1, Busy
    <3>3. CASE Depth = 1
      <4>1. p = Entry(tree, root)
        BY <3>2, <3>3
      <4> QED BY <2>2, <3>1, <4>1
    <3>4. CASE Depth # 1
      <4>1. Depth \in 2..Depth /\ Depth - 1 \in 1..Depth
        BY <3>2, <3>4
      <4> DEFINE above == calls[Depth - 1].path
      <4>2. Innermost.path # <<>> /\ Front(Innermost.path) = above
        BY <1>1, <3>2, <4>1 DEF TreeInv, Nested
      <4>3. above \in InHand /\ above \in Seq(Name) /\ Innermost.path \in Seq(Name)
        BY <2>4, <3>1, <3>2, <4>1
      <4>4. Last(Innermost.path) \in Name
        BY <4>2, <4>3, FrontLast
      <4>5. p = Append(Opens(tree, above), Last(Innermost.path))
        BY <4>2 DEF Entry
      <4> HIDE DEF above, p, In
      <4>6. In(p)
        BY <2>3, <3>1, <4>3, <4>4, <4>5
      <4> HIDE DEF Inside
      <4> QED BY <2>2, <3>1, <4>6
    <3> QED BY <3>3, <3>4
  <2>7. CASE \/ List \/ ListFails \/ RemoveDirectoryFails
             \/ \E x \in Item : Descend(x) \/ RemoveItemFails(x)
    <3>1. tree' = tree
      BY <2>7 DEF List, ListFails, RemoveDirectoryFails, Descend, RemoveItemFails, ReturnError
    <3> QED BY <3>1
  <2> HIDE DEF Inside
  <2> QED BY <1>1, <2>5, <2>6, <2>7 DEF Walk
<1>2. TreeInv /\ [TreeNext]_treeVars =>
        [Walk /\ ~diverted =>
           \A p \in Place : tree[p] # Absent /\ tree'[p] = Absent =>
             p = Entry(tree, root) \/ p \in Under(Opens(tree, root))]_treeVars
  BY <1>1
<1> QED BY <1>2, TreeInvHolds, PTL DEF TreeSpec, OnlyInside

\* When Rmdir reports success nothing is left where its path led, nor at any depth below:
\* the last removal is of an empty directory, and what there is, is in a directory.
THEOREM SuccessIsComplete == TreeSpec => SuccessMeansGone
<1>1. ASSUME TreeInv, TreeNext, err' = "nil", err = "none"
      PROVE  \A p \in {Entry(tree, root)} \cup Under(Entry(tree, root)) : tree'[p] = Absent
  <2>1. RemoveDirectory
    BY <1>1 DEF TreeNext, Walk, Meddle, List, ListFails, Descend, RemoveItem,
                RemoveItemFails, RemoveDirectoryFails, ReturnError
  <2>2. calls # <<>> /\ Removal(Entry(tree, Innermost.path)) /\ Depth = 1
    BY <1>1, <2>1, RemoveDirectoryStep
  <2>3. Innermost.path = root /\ IsTree(tree)
    BY <1>1, <2>2, Busy
  <2> QED BY <2>2, <2>3, RemovalTree DEF Under
<1>2. TreeInv /\ [TreeNext]_treeVars =>
        [err' = "nil" /\ err = "none" =>
           \A p \in {Entry(tree, root)} \cup Under(Entry(tree, root)) : tree'[p] = Absent]_treeVars
  BY <1>1
<1> QED BY <1>2, TreeInvHolds, PTL DEF TreeSpec, SuccessMeansGone
=============================================================================
