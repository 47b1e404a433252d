------------------------------ MODULE PackageFlash ------------------------------
(***************************************************************************)
(* What an upgrade promises of the partitions of a module, whichever       *)
(* protocol carries it out: they are completed one by one, in the order of *)
(* the package (misc first, then what the first protocol flashes, then the *)
(* rest), success is reported only when all of them are, and a failure may *)
(* be reported at any time and leaves the completed ones completed. A      *)
(* partition may still be completed after the failure was reported (the    *)
(* module answered too late).                                              *)
(***************************************************************************)
EXTENDS Naturals

VARIABLES
    rank,       \* the partitions to complete and the place of each in the order
    done,       \* the partitions completed
    outcome     \* what the upgrade reported

vars == <<rank, done, outcome>>

Todo == DOMAIN rank

Init ==
    /\ done = {}
    /\ outcome = "none"

Complete ==
    /\ \E i \in Todo \ done :
          /\ \A j \in Todo : rank[j] < rank[i] => j \in done
          /\ done' = done \cup {i}
    /\ UNCHANGED <<rank, outcome>>

Succeed ==
    /\ outcome = "none"
    /\ done = Todo
    /\ outcome' = "ok"
    /\ UNCHANGED <<rank, done>>

Fail ==
    /\ outcome = "none"
    /\ outcome' = "failed"
    /\ UNCHANGED <<rank, done>>

Next == Complete \/ Succeed \/ Fail

Spec == Init /\ [][Next]_vars
=============================================================================
