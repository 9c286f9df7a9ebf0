------------------------------- MODULE Access -------------------------------
(***************************************************************************)
(* Which hosts a login gets (app/data/config.go, app/sshd/server.go,       *)
(* active.go).  config.json may be edited at any moment, and every load    *)
(* opens it twice: Loadcnf reads the hosts, GetUser reads the user's       *)
(* assets.  The panel loads at login and on the command r, an SFTP session *)
(* when it opens; nobody tells them that the file has changed.             *)
(*                                                                         *)
(* A version is what config.json says about one user: the machine behind   *)
(* every host ID, the IDs in the user's assets, and whether the user is    *)
(* there at all.  Another process writes the file, so a read may also find *)
(* it half written.                                                        *)
(***************************************************************************)
EXTENDS Naturals

CONSTANTS
  Versions,    \* records [machine: ID -> machine, assets: IDs, user: BOOLEAN]
  Broken       \* stands for a file that does not parse

ASSUME AccessAssumption == Broken \notin Versions

VARIABLES
  file,    \* what config.json holds
  kind,    \* the session is a "panel" or "sftp"
  at,      \* "auth", "hosts", "user" (the two reads), "open", "left", "crashed"
  cnf,     \* the version Loadcnf returned
  hosts,   \* the machines the session may connect to
  window,  \* the versions the file held from the last load's start to its end
  sound    \* the file has always parsed and named the user since the login

vars == <<file, kind, at, cnf, hosts, window, sound>>

Contents == Versions \cup {Broken}

Named(c) == c # Broken /\ c.user

\* The hosts of c1 whose ID is among the assets c2 gives the user.
Grant(c1, c2) == {c1.machine[i] : i \in DOMAIN c1.machine \cap c2.assets}

Loading == at \in {"hosts", "user", "refresh"}

Init ==
  /\ file \in Versions
  /\ kind \in {"panel", "sftp"}
  /\ at = "auth"
  /\ cnf = Broken /\ hosts = {} /\ window = {}
  /\ sound = Named(file)

-----------------------------------------------------------------------------

\* Somebody edits the file; an editor may truncate it before it writes.
Edit(c) ==
  /\ at \notin {"left", "crashed"}
  /\ file' = c
  /\ window' = IF Loading THEN window \cup {c} ELSE window
  /\ sound' = (sound /\ Named(c))
  /\ UNCHANGED <<kind, at, cnf, hosts>>

\* PasswordAuth, PublicKeyAuth: the credentials match the user's entry.
Authenticate ==
  /\ at = "auth" /\ Named(file)
  /\ at' = "hosts"
  /\ window' = {file} /\ sound' = TRUE
  /\ UNCHANGED <<file, kind, cnf, hosts>>

\* The handler's Loadcnf; the panel's nil result takes the server down.
Fails ==
  at' = IF kind = "panel" THEN "crashed" ELSE "left"

LoadHosts ==
  /\ at = "hosts" /\ file # Broken
  /\ cnf' = file /\ at' = "user"
  /\ UNCHANGED <<file, kind, hosts, window, sound>>

LoadHostsFails ==
  /\ at = "hosts" /\ file = Broken
  /\ Fails
  /\ UNCHANGED <<file, kind, cnf, hosts, window, sound>>

\* GetUser, and the filter over the hosts read before.
LoadUserNoFilter ==                       \* the assets are not looked at
  /\ at = "user" /\ Named(file)
  /\ hosts' = {cnf.machine[i] : i \in DOMAIN cnf.machine} /\ at' = "open"
  /\ UNCHANGED <<file, kind, cnf, window, sound>>
LoadUser ==
  /\ at = "user" /\ Named(file)
  /\ hosts' = Grant(cnf, file) /\ at' = "open"
  /\ UNCHANGED <<file, kind, cnf, window, sound>>

LoadUserFailsIgnored ==                   \* err of GetUser not tested
  /\ at = "user" /\ ~Named(file)
  /\ at' = "crashed"
  /\ UNCHANGED <<file, kind, cnf, hosts, window, sound>>
LoadUserFails ==
  /\ at = "user" /\ ~Named(file)
  /\ Fails
  /\ UNCHANGED <<file, kind, cnf, hosts, window, sound>>

-----------------------------------------------------------------------------
(* The command r of the panel: a failed Loadcnf keeps the old list, a       *)
(* failed GetUser ends the session.                                         *)

RefreshHosts ==
  /\ at = "open" /\ kind = "panel" /\ file # Broken
  /\ cnf' = file /\ at' = "refresh"
  /\ window' = {file}
  /\ UNCHANGED <<file, kind, hosts, sound>>

RefreshUser ==
  /\ at = "refresh" /\ Named(file)
  /\ hosts' = Grant(cnf, file) /\ at' = "open"
  /\ UNCHANGED <<file, kind, cnf, window, sound>>

RefreshUserFails ==
  /\ at = "refresh" /\ ~Named(file)
  /\ at' = "left"
  /\ UNCHANGED <<file, kind, cnf, hosts, window, sound>>

Leave ==
  /\ at = "open" /\ at' = "left"
  /\ UNCHANGED <<file, kind, cnf, hosts, window, sound>>

Next ==
  \/ \E c \in Contents : Edit(c)
  \/ Authenticate \/ LoadHosts \/ LoadHostsFails \/ LoadUser \/ LoadUserFails
  \/ RefreshHosts \/ RefreshUser \/ RefreshUserFails \/ Leave

Spec == Init /\ [][Next]_vars

-----------------------------------------------------------------------------
(* Properties *)

\* What an administrator has to respect for the two reads to be mixed safely:
\* an ID stands for one machine in every version and a machine for one ID
\* (config.go calls the ID unique), and assets name hosts that exist.
StableIDs ==
  /\ \A v, w \in Versions : \A i \in DOMAIN v.machine, j \in DOMAIN w.machine :
       v.machine[i] = w.machine[j] <=> i = j
  /\ \A v \in Versions : v.assets \subseteq DOMAIN v.machine

TypeOK ==
  /\ file \in Contents /\ kind \in {"panel", "sftp"}
  /\ at \in {"auth", "hosts", "user", "refresh", "open", "left", "crashed"}
  /\ cnf \in Contents /\ window \subseteq Contents
  /\ sound \in BOOLEAN
  /\ at \in {"user", "refresh"} => cnf # Broken

\* The README says of assets that they authorize, host by host, what the user
\* may access: some version the file held between the first read and the second
\* grants everything in the list.  With StableIDs, mixing the hosts of one
\* version with the assets of another keeps that.
ListGranted ==
  at = "open" => \E v \in window \ {Broken} : hosts \subseteq Grant(v, v)

\* With StableIDs, what every version the file held during the load grants is in the list.
ListComplete ==
  at = "open" =>
    \A v \in window \ {Broken} : \A m \in Grant(v, v) :
      (\A w \in window \ {Broken} : m \in Grant(w, w)) => m \in hosts

\* A list lies between what some version grants and what all versions grant,
\* although it may be the list of none of them.
ListRight == ListGranted /\ ListComplete

\* Opening a session takes the server down only if the file was unreadable,
\* or without the user, at some moment since the login; SFTP never does.
CrashCause == at = "crashed" => kind = "panel" /\ ~sound
=============================================================================
