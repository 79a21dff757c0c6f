--------------------------- MODULE MCWorkerStore ---------------------------
(* Instances of WorkerStore for TLC. *)
EXTENDS WorkerStore, TLC

\* every process has the same --worker-id, as a configured service may have
SharedId == [p \in Procs |-> CHOOSE i \in Ids : TRUE]

CONSTANTS Shell, Llm, Dog

Kinds == [j \in Jobs |-> CASE j \in Shell -> "shell" [] j \in Llm -> "llm" [] j \in Dog -> "watchdog"]

SamePriority == [j \in Jobs |-> 0]

OnePerPool == {[members |-> Jobs, limit |-> 1]}

\* processes that share an id and do the same calls can be exchanged
SameProcs == Permutations(Procs)

\* ... and so can shell jobs of one priority, one pool and one rate key
SameProcsAndShells == SameProcs \cup Permutations(Shell)
=============================================================================
