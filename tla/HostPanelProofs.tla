-------------------------- MODULE HostPanelProofs --------------------------
(***************************************************************************)
(* Theorems about HostPanel, for every set of host counts and every growth *)
(* policy of append: what a walk through the pages shows, and what a       *)
(* listing must meet to take the server down.                              *)
(***************************************************************************)
EXTENDS HostPanel, TLAPS

\* What HostsPage computes as the number of pages.
LEMMA TotalFacts ==
  ASSUME NEW n \in Nat
  PROVE  /\ Total(n) \in Nat
         /\ n <= Total(n) * PageMax
         /\ n > 0 => Total(n) > 0 /\ (Total(n) - 1) * PageMax < n
         /\ n % PageMax # 0 => n = (Total(n) - 1) * PageMax + (n % PageMax)
         /\ n % PageMax = 0 => n = Total(n) * PageMax
         /\ n % PageMax \in 0..9
<1>1. n = 10 * (n \div 10) + (n % 10) /\ n % 10 \in 0..9 /\ n \div 10 \in Nat
  OBVIOUS
<1> QED
  BY <1>1 DEF Total, PageMax

\* Every page starts and ends at a natural number, at most PageMax apart.
LEMMA PageBounds ==
  ASSUME NEW pg \in Nat \ {0}, hosts \in Nat
  PROVE  Start(pg) \in Nat /\ End(pg) \in Nat /\ End(pg) - Start(pg) \in Nat
<1>1. hosts % 10 \in 0..9
  OBVIOUS
<1>2. Start(pg) = pg * 10 - 10 /\ Start(pg) \in Nat
  BY DEF Start, PageMax
<1>3. End(pg) = Start(pg) + (hosts % 10) \/ End(pg) = Start(pg) + 10
  BY <1>2 DEF End, PageMax
<1> QED
  BY <1>1, <1>2, <1>3

\* A page of the list ends inside the list, and before the later pages do.
LEMMA PageFacts ==
  ASSUME NEW pg \in Nat \ {0}, hosts \in Nat, pg <= Total(hosts)
  PROVE  /\ End(pg) \in Nat /\ Start(pg) \in Nat
         /\ Start(pg) <= End(pg) /\ End(pg) <= hosts
         /\ pg < Total(hosts) => End(pg) = Start(pg) + PageMax
         /\ pg = Total(hosts) /\ hosts % PageMax # 0 => End(pg) = hosts
<1>1. /\ Total(hosts) \in Nat /\ hosts <= Total(hosts) * 10
      /\ hosts > 0 => (Total(hosts) - 1) * 10 < hosts
      /\ hosts % 10 # 0 => hosts = (Total(hosts) - 1) * 10 + (hosts % 10)
      /\ hosts % 10 = 0 => hosts = Total(hosts) * 10
      /\ hosts % 10 \in 0..9
  BY TotalFacts DEF PageMax
<1>2. CASE pg = Total(hosts)
  <2>1. Start(pg) = Total(hosts) * 10 - 10 /\ End(pg) = Start(pg) + (hosts % 10)
    BY <1>2 DEF Start, End, PageMax
  <2> QED
    BY <1>1, <1>2, <2>1 DEF PageMax
<1>3. CASE pg < Total(hosts)
  <2>1. Start(pg) = pg * 10 - 10 /\ End(pg) = pg * 10
    BY <1>1, <1>3 DEF Start, End, PageMax
  <2>2. hosts > 0
    BY <1>1, <1>3
  <2> QED
    BY <1>1, <1>3, <2>1, <2>2 DEF PageMax
<1> QED
  BY <1>1, <1>2, <1>3

\* The pages up to some page k, at least the current one, have been shown.
Walked ==
  since = "enter" =>
    /\ page <= Total(hosts)
    /\ \E k \in 1..Total(hosts) : page <= k /\ seen = 1..End(k)

Loaded ==
  /\ at = "login" => since = "login" /\ page = 1
  /\ at \in {"menu", "proxied"} => hosts \in HostCounts

IInv == TypeOK /\ Loaded /\ PageInList /\ BlanksCause /\ Walked

\* A page the commands can turn to lies in the list, unless the list is empty
\* or a refresh has left the page behind.
LEMMA TurnFacts ==
  ASSUME IInv, at = "menu", hosts > 0, NEW key \in {"e", "n", "b"},
         since # "refresh" \/ page <= Total(hosts)
  PROVE  /\ Turn(key) \in Nat \ {0} /\ Turn(key) <= Total(hosts)
         /\ Legal(Turn(key)) /\ Empty(Turn(key)) = 0
         /\ Printed(Turn(key)) = (Start(Turn(key)) + 1)..End(Turn(key))
<1>1. hosts \in Nat /\ hosts \in HostCounts /\ page \in Nat \ {0}
  BY DEF IInv, TypeOK, Loaded
<1>2. Total(hosts) \in Nat /\ Total(hosts) > 0
  BY <1>1, TotalFacts
<1>3. page <= Total(hosts)
  BY <1>1, <1>2 DEF IInv, PageInList
<1>4. Turn(key) \in Nat \ {0} /\ Turn(key) <= Total(hosts)
  BY <1>1, <1>2, <1>3 DEF Turn
<1>5. End(Turn(key)) \in Nat /\ Start(Turn(key)) \in Nat /\ End(Turn(key)) <= hosts
  BY <1>1, <1>4, PageFacts
<1>6. hosts <= Capacity(hosts) /\ Capacity(hosts) \in Nat
  BY <1>1, PanelAssumption
<1> QED
  BY <1>1, <1>4, <1>5, <1>6 DEF Legal, Empty, Printed

\* An empty list cannot be listed: d.hosts[0:10] of a nil slice panics.
LEMMA EmptyPanics ==
  ASSUME IInv, hosts = 0, NEW key \in {"e", "n", "b"}
  PROVE  ~Legal(Turn(key))
<1>1. page \in Nat \ {0} /\ Total(0) = 0
  BY DEF IInv, TypeOK, Total, PageMax
<1>2. Turn(key) \in Nat \ {0}
  BY <1>1 DEF Turn
<1>3. End(Turn(key)) = Turn(key) * 10
  BY <1>1, <1>2 DEF End, PageMax
<1> QED
  BY <1>2, <1>3, PanelAssumption DEF Legal

\* A listing keeps the invariant: the case all the others hang on.
LEMMA ListStep ==
  ASSUME IInv, NEW key \in {"e", "n", "b"}, List(key)
  PROVE  IInv'
<1>1. /\ hosts \in Nat /\ hosts' = hosts /\ page \in Nat \ {0} /\ at = "menu" /\ at' = "menu"
      /\ page' = Turn(key) /\ rows' = Printed(page') /\ blanks' = Empty(page')
      /\ rows \subseteq Nat /\ seen \subseteq Nat
  BY DEF List, IInv, TypeOK
<1>2. Total(hosts) \in Nat
  BY <1>1, TotalFacts
<1>3. hosts > 0
  BY <1>1, EmptyPanics DEF List
<1>4. page' \in Nat \ {0}
  BY <1>1, <1>2 DEF Turn
<1>5. Start(page') \in Nat /\ End(page') \in Nat /\ End(page') - Start(page') \in Nat
  BY <1>1, <1>4, PageBounds
<1>6. rows' \subseteq Nat /\ seen' \subseteq Nat
  <2>1. rows' \subseteq Nat
    BY <1>1, <1>5 DEF Printed
  <2> QED
    BY <1>1, <2>1 DEF List
<1>7. blanks' \in Nat
  BY <1>1, <1>5 DEF Empty
<1>8. TypeOK'
  BY <1>1, <1>4, <1>6, <1>7 DEF List, IInv, TypeOK
<1>9. Loaded'
  BY <1>1 DEF IInv, Loaded
<1>10. CASE since' = "refresh"
  BY <1>8, <1>9, <1>10 DEF IInv, PageInList, BlanksCause, Walked
<1>11. CASE since' # "refresh"
  <2>1. key = "e" \/ since # "refresh"
    BY <1>11 DEF List
  <2>2. page' \in Nat \ {0} /\ page' <= Total(hosts) /\ blanks' = 0
        /\ rows' = (Start(page') + 1)..End(page')
    <3>1. CASE since # "refresh"
      BY <1>1, <1>3, <3>1, TurnFacts
    <3>2. CASE key = "e"
      <4>1. page' = 1 /\ Total(hosts) > 0
        BY <1>1, <1>3, <3>2, TotalFacts DEF Turn
      <4>2. End(1) <= hosts /\ End(1) \in Nat /\ Start(1) \in Nat
        BY <1>1, <1>2, <4>1, PageFacts
      <4> QED
        BY <1>1, <1>2, <4>1, <4>2 DEF Empty, Printed
    <3> QED
      BY <2>1, <3>1, <3>2
  <2>3. PageInList' /\ BlanksCause'
    BY <1>1, <2>2 DEF PageInList, BlanksCause, Total
  <2>4. Walked'
    <3> SUFFICES ASSUME since' = "enter"
                 PROVE  \E k \in 1..Total(hosts) : page' <= k /\ seen' = 1..End(k)'
      BY <1>1, <2>2 DEF Walked, Total
    <3>1. \A k : End(k)' = End(k)
      BY <1>1 DEF End, Start, Total
    <3>2. CASE key = "e"
      <4>1. page' = 1 /\ seen' = 1..End(1)
        BY <1>1, <2>2, <3>2 DEF List, Turn, Start, PageMax
      <4> QED
        BY <1>2, <2>2, <3>1, <4>1
    <3>3. CASE key # "e"
      <4>1. since = "enter" /\ seen' = seen \cup rows'
        BY <3>3 DEF List
      <4>2. PICK k \in 1..Total(hosts) : page <= k /\ seen = 1..End(k)
        BY <4>1 DEF IInv, Walked
      <4>3. page' <= page + 1
        BY <1>1, <1>2, <3>3 DEF Turn
      <4>4. End(k) \in Nat /\ Start(k) \in Nat /\ Start(page') \in Nat /\ End(page') \in Nat
        BY <1>1, <1>2, <2>2, <4>2, PageFacts
      <4>5. CASE page' <= k
        <5>1. End(page') <= End(k)
          <6>1. CASE page' = k
            BY <4>4, <6>1
          <6>2. CASE page' < k
            <7>1. End(page') = page' * 10 /\ Start(k) = k * 10 - 10 /\ Start(k) <= End(k)
              BY <1>1, <1>2, <2>2, <4>2, <6>2, PageFacts DEF End, Start, PageMax
            <7> QED
              BY <4>2, <4>4, <6>2, <7>1, <2>2
          <6> QED
            BY <4>2, <4>5, <6>1, <6>2, <2>2
        <5>2. seen' = 1..End(k)
          BY <2>2, <4>1, <4>2, <4>4, <5>1
        <5> QED
          BY <3>1, <4>2, <4>5, <5>2
      <4>6. CASE page' > k
        <5>1. page' = k + 1 /\ k < Total(hosts)
          BY <1>1, <1>2, <2>2, <4>2, <4>3, <4>6
        <5>2. End(k) = k * 10 /\ Start(page') = k * 10
          BY <1>1, <4>2, <5>1 DEF End, Start, PageMax
        <5>3. Start(page') <= End(page')
          BY <1>1, <2>2, PageFacts
        <5>4. seen' = 1..End(page')
          BY <2>2, <4>1, <4>2, <4>4, <5>2, <5>3
        <5> QED
          BY <1>2, <2>2, <3>1, <5>4
      <4> QED
        BY <1>4, <4>2, <4>5, <4>6
    <3> QED
      BY <3>2, <3>3
  <2> QED
    BY <1>8, <1>9, <2>3, <2>4 DEF IInv
<1> QED
  BY <1>10, <1>11

\* The invariant holds at login and after every command.
LEMMA InvStep == IInv /\ [Next]_vars => IInv'
<1> SUFFICES ASSUME IInv, [Next]_vars PROVE IInv'
  OBVIOUS
<1>1. CASE \E key \in {"e", "n", "b"} : List(key)
  BY <1>1, ListStep
<1>2. CASE Login
  <2>1. page' = page /\ page = 1 /\ since = "login" /\ since' = since /\ blanks' = blanks
    BY <1>2 DEF Login, IInv, Loaded
  <2>2. TypeOK' /\ Loaded'
    BY <1>2, PanelAssumption DEF Login, IInv, TypeOK, Loaded
  <2> QED
    BY <2>1, <2>2 DEF IInv, PageInList, BlanksCause, Walked
<1>3. CASE Refresh
  <2>1. TypeOK' /\ Loaded'
    BY <1>3, PanelAssumption DEF Refresh, IInv, TypeOK, Loaded
  <2> QED
    BY <1>3, <2>1 DEF Refresh, IInv, PageInList, BlanksCause, Walked
<1>4. CASE \/ LoginFails \/ RefreshWithoutUser \/ Select \/ ProxyReturns \/ Leave
           \/ UNCHANGED vars
  <2>1. UNCHANGED <<hosts, page, rows, blanks, since, seen>>
    BY <1>4 DEF LoginFails, RefreshWithoutUser, Select, ProxyReturns, Leave, vars
  <2>2. at' = "login" => at = "login"
    BY <1>4 DEF LoginFails, RefreshWithoutUser, Select, ProxyReturns, Leave, vars
  <2>3. at' \in {"menu", "proxied"} => at \in {"menu", "proxied"}
    BY <1>4 DEF LoginFails, RefreshWithoutUser, Select, ProxyReturns, Leave, vars
  <2>4. TypeOK'
    BY <1>4, <2>1 DEF IInv, TypeOK, LoginFails, RefreshWithoutUser, Select,
                      ProxyReturns, Leave, vars
  <2>5. Loaded'
    BY <2>1, <2>2, <2>3 DEF IInv, Loaded
  <2> QED
    BY <2>1, <2>4, <2>5 DEF IInv, PageInList, BlanksCause, Walked, Total, End, Start
<1>5. CASE \E key \in {"e", "n", "b"} : ListPanics(key)
  <2>1. PICK key \in {"e", "n", "b"} : ListPanics(key)
    BY <1>5
  <2>2. UNCHANGED <<hosts, rows, blanks, since, seen>> /\ page' = Turn(key)
        /\ at' = "crashed" /\ at = "menu" /\ ~Legal(Turn(key))
    BY <2>1 DEF ListPanics
  <2>3. page' \in Nat \ {0}
    BY <2>2, TotalFacts DEF IInv, TypeOK, Turn
  <2>4. TypeOK' /\ Loaded'
    BY <2>2, <2>3 DEF IInv, TypeOK, Loaded
  <2>5. since = "refresh" \/ hosts = 0
    BY <2>2, TurnFacts DEF IInv, TypeOK
  <2>6. CASE since = "refresh"
    BY <2>2, <2>4, <2>6 DEF IInv, PageInList, BlanksCause, Walked
  <2>7. CASE since # "refresh" /\ hosts = 0
    <3>1. Total(0) = 0
      BY DEF Total, PageMax
    <3>2. page = 1 /\ since # "enter"
      BY <2>7, <3>1 DEF IInv, PageInList, Walked, TypeOK
    <3>3. page' = 1
      BY <2>2, <2>7, <3>1, <3>2 DEF Turn
    <3> QED
      BY <2>2, <2>4, <2>7, <3>2, <3>3 DEF IInv, PageInList, BlanksCause, Walked
  <2> QED
    BY <2>5, <2>6, <2>7
<1> QED
  BY <1>1, <1>2, <1>3, <1>4, <1>5 DEF Next

\* The inductive invariant of the panel.
THEOREM InvariantHolds == Spec => []IInv
<1>1. Init => IInv
  BY DEF Init, IInv, TypeOK, Loaded, PageInList, BlanksCause, Walked
<1> QED
  BY <1>1, InvStep, PTL DEF Spec

\* Every variable of the panel keeps its type, for lists of every length.
THEOREM TypeCorrect == Spec => []TypeOK
<1>1. IInv => TypeOK
  BY DEF IInv
<1> QED
  BY <1>1, InvariantHolds, PTL

\* Between two refreshes the page is one of the list (HostsPage's clamping).
THEOREM PageStaysInList == Spec => []PageInList
<1>1. IInv => PageInList
  BY DEF IInv
<1> QED
  BY <1>1, InvariantHolds, PTL

\* Empty rows are printed only after a refresh made the list shorter.
THEOREM BlanksHaveCause == Spec => []BlanksCause
<1>1. IInv => BlanksCause
  BY DEF IInv
<1> QED
  BY <1>1, InvariantHolds, PTL

\* Turning the pages from Enter to the last one has shown every host, when
\* their number is no multiple of the page size.
THEOREM WalkShowsAll == Spec => []WalkComplete
<1>1. IInv => WalkComplete
  <2> SUFFICES ASSUME IInv, since = "enter", page = Total(hosts), hosts % PageMax # 0
               PROVE  seen = 1..hosts
    BY DEF WalkComplete
  <2>1. hosts \in Nat /\ page \in Nat \ {0} /\ Total(hosts) \in Nat
    BY TotalFacts DEF IInv, TypeOK
  <2>2. PICK k \in 1..Total(hosts) : page <= k /\ seen = 1..End(k)
    BY DEF IInv, Walked
  <2>3. k = Total(hosts)
    BY <2>1, <2>2
  <2>4. End(k) = hosts
    BY <2>1, <2>3, PageFacts
  <2> QED
    BY <2>2, <2>4
<1> QED
  BY <1>1, InvariantHolds, PTL

\* Turning pages takes the server down only with an empty list, or from a page
\* that a refresh has left behind the end of the list.
THEOREM CrashHasCause == Spec => CrashCause
<1>1. IInv /\ [Next]_vars =>
        (at = "menu" /\ at' = "crashed"
         => hosts = 0 \/ (since = "refresh" /\ page > Total(hosts)))
  <2> SUFFICES ASSUME IInv, [Next]_vars, at = "menu", at' = "crashed", hosts # 0
               PROVE  since = "refresh" /\ page > Total(hosts)
    OBVIOUS
  <2>1. PICK key \in {"e", "n", "b"} : ~Legal(Turn(key))
    BY DEF Next, vars, Login, LoginFails, List, ListPanics, Refresh,
           RefreshWithoutUser, Select, ProxyReturns, Leave
  <2>2. hosts \in Nat /\ hosts > 0 /\ page \in Nat /\ Total(hosts) \in Nat
    BY TotalFacts DEF IInv, TypeOK
  <2>3. ~(since # "refresh" \/ page <= Total(hosts))
    BY <2>1, <2>2, TurnFacts
  <2> QED
    BY <2>2, <2>3
<1> QED
  BY <1>1, InvariantHolds, PTL DEF Spec, CrashCause

=============================================================================
