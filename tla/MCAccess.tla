------------------------------ MODULE MCAccess ------------------------------
(* Instances of Access: histories of config.json for TLC. *)
EXTENDS Access

Version(machine, assets) == [machine |-> machine, assets |-> assets, user |-> TRUE]

\* Hosts come and go, assets change, the user is removed; an ID always means
\* the same machine.
StableVersions ==
  { Version([i \in {1, 2} |-> IF i = 1 THEN "a" ELSE "b"], {1}),
    Version([i \in {1, 2} |-> IF i = 1 THEN "a" ELSE "b"], {1, 2}),
    Version([i \in {2, 3} |-> IF i = 2 THEN "b" ELSE "c"], {2, 3}),
    [machine |-> [i \in {1} |-> "a"], assets |-> {}, user |-> FALSE] }
=============================================================================
