--------------------------- MODULE MCRuntimeLease ---------------------------
(***************************************************************************)
(* Instances of RuntimeLease for TLC.                                      *)
(***************************************************************************)
EXTENDS RuntimeLease, TLC

CONSTANTS i1, i2, i3, l1, l2

\* i1 and i2 share a lane, i1 the older; i3 is alone in its lane.
MCLane == [i \in Items |-> IF i = i3 THEN l2 ELSE l1]
MCCreated == [i \in Items |-> IF i = i2 THEN 2 ELSE 1]
MCClass == [l \in Lanes |-> "interactive"]
MCLimit == [c \in Classes |-> 2]

\* runners do the same passes and can be exchanged
MCSameRunners == Permutations(Runners)
=============================================================================
