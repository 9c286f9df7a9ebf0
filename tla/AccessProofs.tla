---------------------------- MODULE AccessProofs ----------------------------
(***************************************************************************)
(* When the two reads of config.json may be mixed: for every set of        *)
(* versions in which an ID keeps its machine.                              *)
(***************************************************************************)
EXTENDS Access, TLAPS

\* While a load runs, the file and the version already read are in the window.
Window ==
  /\ Loading => file \in window
  /\ at \in {"user", "refresh"} => cnf \in window

Reading == sound => Named(file)

IInv == TypeOK /\ Window /\ Reading /\ CrashCause

\* The list a load ends with, from the version with the hosts and the version
\* with the assets.
LEMMA MixedGrant ==
  ASSUME StableIDs, NEW v \in Versions, NEW w \in Versions
  PROVE  /\ Grant(v, w) \subseteq Grant(w, w)
         /\ Grant(v, v) \cap Grant(w, w) \subseteq Grant(v, w)
<1>1. Grant(v, w) \subseteq Grant(w, w)
  BY DEF Grant, StableIDs
<1>2. Grant(v, v) \cap Grant(w, w) \subseteq Grant(v, w)
  BY DEF Grant, StableIDs
<1> QED
  BY <1>1, <1>2

\* Every variable of Access keeps its type.
LEMMA TypeStep == TypeOK /\ [Next]_vars => TypeOK'
  BY AccessAssumption
     DEF TypeOK, Contents, Next, vars, Edit, Loading, Authenticate, LoadHosts,
         LoadHostsFails, LoadUser, LoadUserFails, RefreshHosts, RefreshUser,
         RefreshUserFails, Leave, Fails, Named

\* The end of a load, at login or by the command r.
LEMMA LoadStep ==
  ASSUME StableIDs, IInv, LoadUser \/ RefreshUser
  PROVE  ListGranted' /\ ListComplete'
<1>1. /\ cnf \in Versions /\ file \in Versions
      /\ cnf \in window /\ file \in window
      /\ window' = window /\ hosts' = Grant(cnf, file)
  BY DEF LoadUser, RefreshUser, Named, IInv, TypeOK, Window, Loading, Contents
<1>2. cnf # Broken /\ file # Broken
  BY <1>1, AccessAssumption
<1>3. hosts' \subseteq Grant(file, file)
  BY <1>1, MixedGrant
<1>4. Grant(cnf, cnf) \cap Grant(file, file) \subseteq hosts'
  BY <1>1, MixedGrant
<1> QED
  BY <1>1, <1>2, <1>3, <1>4 DEF ListGranted, ListComplete

\* The window follows the file, and a crash has its cause.
LEMMA InvStep == IInv /\ [Next]_vars => IInv'
<1> SUFFICES ASSUME IInv, [Next]_vars PROVE IInv'
  OBVIOUS
<1>1. TypeOK'
  BY TypeStep DEF IInv
<1>2. Window'
  BY DEF IInv, Window, Next, vars, Edit, Loading, Authenticate, LoadHosts,
         LoadHostsFails, LoadUser, LoadUserFails, RefreshHosts, RefreshUser,
         RefreshUserFails, Leave, Fails
<1>3. Reading'
  BY DEF IInv, Reading, Named, Next, vars, Edit, Authenticate, LoadHosts,
         LoadHostsFails, LoadUser, LoadUserFails, RefreshHosts, RefreshUser,
         RefreshUserFails, Leave
<1>4. CrashCause'
  BY DEF IInv, TypeOK, Reading, CrashCause, Named, Next, vars, Edit, Authenticate,
         LoadHosts, LoadHostsFails, LoadUser, LoadUserFails, RefreshHosts,
         RefreshUser, RefreshUserFails, Leave, Fails
<1> QED
  BY <1>1, <1>2, <1>3, <1>4 DEF IInv

\* The inductive invariant of loading the configuration.
THEOREM InvariantHolds == Spec => []IInv
<1>1. Init => IInv
  <2> SUFFICES ASSUME Init PROVE IInv
    OBVIOUS
  <2>1. sound = Named(file) /\ sound \in BOOLEAN
    BY DEF Init, Named
  <2>2. TypeOK
    BY <2>1 DEF Init, TypeOK, Contents
  <2>3. Window /\ CrashCause
    BY DEF Init, Window, Loading, CrashCause
  <2>4. Reading
    BY <2>1 DEF Reading
  <2> QED
    BY <2>2, <2>3, <2>4 DEF IInv
<1> QED
  BY <1>1, InvStep, PTL DEF Spec

\* Every variable of Access has its type, whatever the file holds.
THEOREM TypeCorrect == Spec => []TypeOK
<1>1. IInv => TypeOK
  BY DEF IInv
<1> QED
  BY <1>1, InvariantHolds, PTL

\* Opening a session crashes the server only when the file was unreadable or
\* did not name the user, and only the panel does.
THEOREM CrashHasCause == Spec => []CrashCause
<1>1. IInv => CrashCause
  BY DEF IInv
<1> QED
  BY <1>1, InvariantHolds, PTL

\* When every ID keeps its machine, a list mixed from two versions grants what
\* one version of the file granted, and leaves out nothing that all grant.
THEOREM MixingIsSafe == StableIDs => (Spec => []ListRight)
<1> SUFFICES ASSUME StableIDs PROVE Spec => []ListRight
  OBVIOUS
<1>1. Init => ListGranted /\ ListComplete
  BY DEF Init, ListGranted, ListComplete
<1>2. IInv /\ (ListGranted /\ ListComplete) /\ [Next]_vars
        => (ListGranted /\ ListComplete)'
  <2> SUFFICES ASSUME IInv, ListGranted, ListComplete, [Next]_vars
               PROVE  ListGranted' /\ ListComplete'
    OBVIOUS
  <2>1. CASE LoadUser \/ RefreshUser
    BY <2>1, LoadStep
  <2>2. CASE \/ Authenticate \/ LoadHosts \/ LoadHostsFails \/ LoadUserFails
             \/ RefreshHosts \/ RefreshUserFails \/ Leave
    <3>1. at' # "open"
      BY <2>2 DEF Authenticate, LoadHosts, LoadHostsFails, LoadUserFails,
                  RefreshHosts, RefreshUserFails, Leave, Fails
    <3> QED
      BY <3>1 DEF ListGranted, ListComplete
  <2>3. CASE \E c \in Contents : Edit(c)
    BY <2>3 DEF Edit, Loading, ListGranted, ListComplete
  <2>4. CASE UNCHANGED vars
    BY <2>4 DEF vars, ListGranted, ListComplete
  <2> QED
    BY <2>1, <2>2, <2>3, <2>4 DEF Next
<1>3. ListGranted /\ ListComplete => ListRight
  BY DEF ListRight
<1> QED
  BY <1>1, <1>2, <1>3, InvariantHolds, PTL DEF Spec
=============================================================================
