------------------------------ MODULE JobLife ------------------------------
(***************************************************************************)
(* What the worker store promises about one job, whatever processes work   *)
(* on it, crash or lag: the job is granted one attempt after another, an   *)
(* attempt executes at most once and while it is the running one, a job    *)
(* succeeds only by an attempt that executed, a job that came to rest is   *)
(* never granted again, and the result of an llm job is published at most  *)
(* once, in the step that concludes its turn.                              *)
(***************************************************************************)
EXTENDS Naturals

CONSTANTS
    MaxAttempts, \* jobs.max_attempts
    IsLlm,       \* the job runs as a turn of the runtime queue
    IsLinked     \* the job belongs to a cron run

VARIABLES
    phase,      \* absent, waiting, granted, running, deferred, succeeded or closed
    attempt,    \* the attempts granted so far
    begun,      \* the attempts that executed
    published   \* its result is in the mailbox

vars == <<phase, attempt, begun, published>>

Init ==
    /\ phase \in {"absent", "waiting"}
    /\ attempt = 0
    /\ begun = {}
    /\ published = FALSE

Enqueue ==
    /\ phase = "absent"
    /\ phase' = "waiting"
    /\ UNCHANGED <<attempt, begun, published>>

Grant ==
    /\ phase = "waiting"
    /\ attempt < MaxAttempts
    /\ phase' = "granted"
    /\ attempt' = attempt + 1
    /\ UNCHANGED <<begun, published>>

Run ==
    /\ phase = "granted"
    /\ phase' = "running"
    /\ UNCHANGED <<attempt, begun, published>>

Execute ==
    /\ phase = "running"
    /\ attempt \notin begun
    /\ begun' = begun \cup {attempt}
    /\ UNCHANGED <<phase, attempt, published>>

\* the attempt failed, or its lease ran out
GiveBack ==
    /\ phase \in {"granted", "running"}
    /\ phase' = "waiting"
    /\ UNCHANGED <<attempt, begun, published>>

\* the attempt left the job to the runtime queue
Defer ==
    /\ IsLlm
    /\ phase = "running"
    /\ attempt \in begun
    /\ phase' = "deferred"
    /\ UNCHANGED <<attempt, begun, published>>

Succeed ==
    /\ ~IsLlm
    /\ phase = "running"
    /\ attempt \in begun
    /\ phase' = "succeeded"
    /\ UNCHANGED <<attempt, begun, published>>

\* the turn of a deferred job ended; a success is published with it
Conclude ==
    /\ phase = "deferred"
    /\ ~published
    /\ phase' \in {"succeeded", "closed"}
    /\ published' \in BOOLEAN
    /\ phase' = "succeeded" => published'
    /\ UNCHANGED <<attempt, begun>>

\* failed for good, canceled or expired
Close ==
    /\ phase \notin {"absent", "succeeded"}
    /\ phase' = "closed"
    /\ UNCHANGED <<attempt, begun, published>>

\* the cron control cancels a linked job by its id alone, a succeeded one too
Revoke ==
    /\ IsLinked
    /\ phase = "succeeded"
    /\ phase' = "closed"
    /\ UNCHANGED <<attempt, begun, published>>

Next ==
    \/ Enqueue \/ Grant \/ Run \/ Execute \/ GiveBack
    \/ Defer \/ Succeed \/ Conclude \/ Close \/ Revoke

Spec == Init /\ [][Next]_vars
=============================================================================
