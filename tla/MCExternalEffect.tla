-------------------------- MODULE MCExternalEffect --------------------------
(***************************************************************************)
(* Instances of ExternalEffect for TLC.                                    *)
(***************************************************************************)
EXTENDS ExternalEffect

\* Every thread of one process: the guard serialises approvals and expiry.
MCOneProcess == [a \in Actors |-> "host"]

\* The gateway serves users, the runtime loop runs items and sweeps.
MCTwoProcesses ==
    [a \in Actors |-> IF a \in Resolvers \cup Fencers THEN "gateway" ELSE "loop"]
=============================================================================
