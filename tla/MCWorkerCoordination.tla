------------------------ MODULE MCWorkerCoordination ------------------------
(* Instances of WorkerCoordination for TLC: one wait on one or two         *)
(* children, or two waits of one coordinator.                              *)
EXTENDS WorkerCoordination, TLC

CONSTANTS w1, w2, g1, g2, k1, c1, c2, c3

MCGroupOf == [w \in Waits |-> IF w = w1 THEN g1 ELSE g2]
MCCoordOf == [w \in Waits |-> k1]
MCKids == [g \in Groups |-> Children \cap (IF g = g1 THEN {c1, c2} ELSE {c3})]

\* The exchanges of waits that take their groups and children along: nothing
\* else tells two waits of one coordinator apart.
MCSameWaits ==
    {f \in Permutations(Waits \cup Groups \cup Children) :
        \A w \in Waits :
            /\ f[w] \in Waits
            /\ f[MCGroupOf[w]] = MCGroupOf[f[w]]
            /\ {f[c] : c \in MCKids[MCGroupOf[w]]} = MCKids[MCGroupOf[f[w]]]}
=============================================================================
