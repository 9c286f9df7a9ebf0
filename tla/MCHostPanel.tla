---------------------------- MODULE MCHostPanel ----------------------------
(* An instance of HostPanel for TLC: four pages at most. *)
EXTENDS HostPanel

\* Around every multiple of the page size and both sides of the capacities.
MCHostCounts == {0, 1, 2, 9, 10, 11, 16, 17, 20, 25, 30, 33, 34}

\* append doubles a small slice; the allocator's size classes, for the
\* 144 bytes of a Host, round the request for 32 up to 33.
MCCapacity(n) ==
  CHOOSE c \in {0, 1, 2, 4, 8, 16, 33, 71} :
    n <= c /\ \A b \in {0, 1, 2, 4, 8, 16, 33, 71} : n <= b => c <= b
=============================================================================
