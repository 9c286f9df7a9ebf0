----------------------------- MODULE HostPanel -----------------------------
(***************************************************************************)
(* The host panel a user sees after logging in (app/sshd/active.go): the   *)
(* list of hosts loaded at login and again by the command r, the page the  *)
(* user is on, and what the commands Enter, n and b put on the screen.     *)
(*                                                                         *)
(* A host is its position in d.hosts.  config.json is edited while the     *)
(* server runs, so every load may find any number of hosts, an unreadable  *)
(* file, or no such user.  A Go panic in a session ends the whole process. *)
(***************************************************************************)
EXTENDS Integers

CONSTANTS
  HostCounts,   \* how many hosts a load of config.json may grant the user
  Capacity(_)   \* the capacity append gives a slice grown from nil to n hosts

ASSUME PanelAssumption ==
  /\ HostCounts \subseteq Nat
  /\ \A n \in HostCounts : Capacity(n) \in Nat /\ n <= Capacity(n)
  /\ Capacity(0) = 0

VARIABLES
  at,      \* "login", "menu", "proxied", "left" or "crashed"
  hosts,   \* len(d.hosts)
  page,    \* d.page
  rows,    \* the hosts the last listing printed
  blanks,  \* how many empty rows it printed besides
  since,   \* what happened last to the list: "login", "refresh" or "enter"
  seen     \* the hosts printed since this list was opened with Enter

vars == <<at, hosts, page, rows, blanks, since, seen>>

PageMax == 10

Init ==
  /\ at = "login"
  /\ hosts = 0 /\ page = 1
  /\ rows = {} /\ blanks = 0
  /\ since = "login" /\ seen = {}

-----------------------------------------------------------------------------
(* InitactiveH and SessionHandler. *)

Login ==
  /\ at = "login" /\ at' = "menu"
  /\ hosts' \in HostCounts
  /\ UNCHANGED <<page, rows, blanks, since, seen>>

\* Loadcnf or GetUser failed: InitactiveH returns nil and SessionHandler
\* uses it.
LoginFails ==
  /\ at = "login" /\ at' = "crashed"
  /\ UNCHANGED <<hosts, page, rows, blanks, since, seen>>

-----------------------------------------------------------------------------
(* HostsPage. *)

TotalNoRemainder(n) == n \div PageMax              \* the odd page forgotten
Total(n) == (n \div PageMax) + (IF n % PageMax # 0 THEN 1 ELSE 0)

TurnUnbounded(key) ==                              \* n without the test
  IF key = "n" THEN page + 1
  ELSE IF key = "b" THEN (IF page # 1 THEN page - 1 ELSE page)
  ELSE 1
Turn(key) ==
  IF key = "n" THEN (IF page < Total(hosts) THEN page + 1 ELSE page)
  ELSE IF key = "b" THEN (IF page # 1 THEN page - 1 ELSE page)
  ELSE 1

Start(pg) == pg * PageMax - PageMax

EndFull(pg) == pg * PageMax                        \* the short page forgotten
End(pg) ==
  IF pg = Total(hosts) THEN Start(pg) + (hosts % PageMax) ELSE pg * PageMax

\* d.hosts[art:end] is legal up to the capacity of the slice, not its length:
\* between the two lie zero hosts, printed as empty rows.
Printed(pg) == {h \in (Start(pg) + 1)..End(pg) : h <= hosts}
Empty(pg) ==
  IF End(pg) <= hosts THEN 0
  ELSE IF Start(pg) <= hosts THEN End(pg) - hosts ELSE End(pg) - Start(pg)
Legal(pg) == End(pg) <= Capacity(hosts)

List(key) ==
  /\ at = "menu" /\ Legal(Turn(key))
  /\ page' = Turn(key)
  /\ rows' = Printed(page') /\ blanks' = Empty(page')
  /\ since' = IF key = "e" THEN "enter" ELSE since
  /\ seen' = CASE key = "e" -> rows'
               [] key # "e" /\ since = "enter" -> seen \cup rows'
               [] OTHER -> seen
  /\ UNCHANGED <<at, hosts>>

ListPanics(key) ==
  /\ at = "menu" /\ ~Legal(Turn(key))
  /\ page' = Turn(key)
  /\ at' = "crashed"
  /\ UNCHANGED <<hosts, rows, blanks, since, seen>>

-----------------------------------------------------------------------------
(* The other commands of Displayterm. *)

\* r: the list is replaced, the page is not.
Refresh ==
  /\ at = "menu"
  /\ hosts' \in HostCounts
  /\ since' = "refresh" /\ seen' = {}
  /\ UNCHANGED <<at, page, rows, blanks>>

\* r while config.json no longer names the user: the panel ends.
RefreshWithoutUser ==
  /\ at = "menu" /\ at' = "left"
  /\ UNCHANGED <<hosts, page, rows, blanks, since, seen>>

\* SelectHost with the ID or IP of a listed host.
Select ==
  /\ at = "menu" /\ hosts > 0 /\ at' = "proxied"
  /\ UNCHANGED <<hosts, page, rows, blanks, since, seen>>

ProxyReturns ==
  /\ at = "proxied" /\ at' = "menu"
  /\ UNCHANGED <<hosts, page, rows, blanks, since, seen>>

\* q, exit, quit, or an error of ReadLine.
Leave ==
  /\ at = "menu" /\ at' = "left"
  /\ UNCHANGED <<hosts, page, rows, blanks, since, seen>>

Next ==
  \/ Login \/ LoginFails
  \/ \E key \in {"e", "n", "b"} : List(key) \/ ListPanics(key)
  \/ Refresh \/ RefreshWithoutUser
  \/ Select \/ ProxyReturns \/ Leave

Spec == Init /\ [][Next]_vars

-----------------------------------------------------------------------------
(* Properties *)

TypeOK ==
  /\ at \in {"login", "menu", "proxied", "left", "crashed"}
  /\ hosts \in Nat /\ page \in Nat \ {0}
  /\ rows \subseteq Nat /\ seen \subseteq Nat /\ blanks \in Nat
  /\ since \in {"login", "refresh", "enter"}

\* Until a refresh replaces the list, the page lies inside it, so that n and b
\* stay on real pages whatever their order.
PageInList ==
  since # "refresh" => page = 1 \/ page <= Total(hosts)

\* The listing takes the server down only for a user without a host, or when
\* a refresh shortened the list and the user turns pages before Enter.
CrashCause ==
  [][ at = "menu" /\ at' = "crashed"
      => hosts = 0 \/ (since = "refresh" /\ page > Total(hosts)) ]_vars

\* A host that does not exist is printed only from such a stale page.
BlanksCause == blanks > 0 => since = "refresh"

\* From Enter, turning pages to the last one has shown every host -- unless
\* the number of hosts is a multiple of the page size.
WalkComplete ==
  since = "enter" /\ page = Total(hosts) /\ hosts % PageMax # 0
    => seen = 1..hosts
=============================================================================
