----------------------------- MODULE WorkerStore -----------------------------
(***************************************************************************)
(* The SQLite worker store (workers.rs): the jobs table, the rate_leases   *)
(* table and the processes that call run_worker_once on them.              *)
(*                                                                         *)
(* The code autocommits every SQL statement, so a statement is one atomic  *)
(* step and the steps of several processes interleave: a process works on  *)
(* the rows an earlier SELECT returned, with the clock it read when the    *)
(* call began, while other processes, cancel_worker_job and the lease      *)
(* renewal threads change the table.                                       *)
(*                                                                         *)
(* The columns of the jobs table are functions on Jobs; a job is named by  *)
(* its idempotency key.  Time is counted in units of the 1000 ms of        *)
(* backoff_ms and kept relative to the present, so that behaviours are not *)
(* cut off at some last instant:                                           *)
(*     leaseLeft[j] = lease_expires_at_ms - clock                          *)
(*     delay[j]     = available_at_ms - clock                              *)
(*     lag[p]       = clock - options.now_ms of the call p is in           *)
(* so `lease_expires_at_ms < now_ms` reads leaseLeft[j] < -lag[p].         *)
(***************************************************************************)
EXTENDS Integers, FiniteSets

CONSTANTS
    Jobs,         \* idempotency keys
    Procs,        \* processes that work on the store
    Reapers,      \* ... the ones that may also call reap_stale_worker_jobs
    Ids,          \* worker ids
    WorkerId,     \* the --worker-id of each process; two may share one
    None,         \* SQL NULL
    Kind,         \* [Jobs -> {"shell", "llm", "watchdog", "adapter"}]
    CronJobs,     \* jobs whose payload carries a cronRunId
    Legacy,       \* rows of an older release whose child policy no longer parses
    RateKeyed,    \* jobs that carry the rate key
    Priority,     \* [Jobs -> Int]
    Pools,        \* capacity pools: [members : SUBSET Jobs, limit : Nat]
    MaxAttempts,  \* jobs.max_attempts
    RateLimit,    \* rate_lease_limit, 0 means no limit
    RateWindow,   \* rate_lease_window_ms
    CandidateMax, \* the LIMIT of pending_candidates (100)
    LeaseMs,      \* lease_ms
    MaxLag,       \* bound: how far the clock moves while a call prepares a job
    MaxCrashes    \* bound: how many processes die

ASSUME StoreAssumption ==
    /\ IsFiniteSet(Jobs)
    /\ IsFiniteSet(Procs)
    /\ Reapers \subseteq Procs
    /\ WorkerId \in [Procs -> Ids]
    /\ None \notin Ids \cup Jobs
    /\ None \notin Int
    /\ Kind \in [Jobs -> {"shell", "llm", "watchdog", "adapter"}]
    /\ CronJobs \subseteq Jobs
    /\ Legacy \subseteq Jobs
    /\ RateKeyed \subseteq Jobs
    /\ Priority \in [Jobs -> Int]
    /\ Pools \subseteq [members : SUBSET Jobs, limit : Nat]
    /\ MaxAttempts \in Nat \ {0}
    /\ RateLimit \in Nat
    /\ RateWindow \in Nat
    /\ CandidateMax \in Nat \ {0}
    /\ LeaseMs \in Nat \ {0}
    /\ MaxLag \in Nat
    /\ MaxCrashes \in Nat

VARIABLES
    status,     \* jobs.status, "absent" before the row is inserted
    owner,      \* jobs.lease_owner
    leaseLeft,  \* jobs.lease_expires_at_ms
    attempt,    \* jobs.attempt
    delay,      \* jobs.available_at_ms
    badPolicy,  \* child_policy_json or execution_mode holds text this release rejects
    rates,      \* rate_leases: [job, attempt, age], age = clock - leased_at_ms
    turn,       \* the runtime-queue item of an llm job (outside the store)
    mailbox,    \* number of result-mailbox rows published for the job
    pc,         \* where the call of a process is
    lag,        \* age of options.now_ms
    list,       \* rows the last SELECT returned that are still to be handled
    held,       \* job_id of the row the process works on
    seen,       \* attempt of that row, as last read
    renewal,    \* the RunningWorkerLeaseRenewal thread
    outcome,    \* status of the WorkerJobExecutionResult
    started,    \* history: how often each attempt of a job began to execute
    crashes     \* how many processes have died

table == <<status, owner, leaseLeft, attempt, delay, badPolicy>>
runtime == <<turn, mailbox>>
locals == <<pc, lag, list, held, seen, renewal, outcome>>
history == <<started, crashes>>
vars == <<table, rates, runtime, locals, history>>

-----------------------------------------------------------------------------
(* Values *)

\* WorkerJobStatus::is_terminal
Terminal == {"succeeded", "failed-terminal", "canceled", "expired"}

\* the rows pending_candidates and the lease statement accept
Leasable == {"pending", "failed-retryable"}

\* the rows executing_count counts
Executing == {"leased", "running"}

Status == {"absent", "runtime-queued"} \cup Leasable \cup Executing \cup Terminal

\* worker_terminal_handling: the runtime receipts that settle a worker, ...
Settles == {"completed", "canceled", "failed", "quarantine", "scoped-stop"}

\* ... the status each gives it, ...
SettledAs(t) ==
    CASE t = "completed" -> "succeeded"
      [] t \in {"canceled", "scoped-stop"} -> "canceled"
      [] t \in {"failed", "quarantine"} -> "failed-terminal"

\* ... and the ones that publish a mailbox row
Publishes == {"completed", "canceled", "failed"}

TurnStatus == {"none", "queued"} \cup Settles

PC == {"idle", "reap", "reconcile", "exhaust", "select", "lease", "rate", "readback",
       "cron", "set-running", "start", "execute", "finish"}

\* a row as a SELECT returns it
Row == [job : Jobs, status : Status, attempt : Nat, owner : Ids \cup {None}, delay : Int]

RowOf(j) == [job |-> j, status |-> status[j], attempt |-> attempt[j],
             owner |-> owner[j], delay |-> delay[j]]

RowsWhere(P(_)) == {RowOf(j) : j \in {i \in Jobs : P(i)}}

\* backoff_ms: 2^min(attempt, 6) units
backoff_ms(a) == [n \in 0 .. 6 |-> CASE n = 0 -> 1 [] n = 1 -> 2 [] n = 2 -> 4 [] n = 3 -> 8
                                     [] n = 4 -> 16 [] n = 5 -> 32 [] n = 6 -> 64][IF a < 6 THEN a ELSE 6]

-----------------------------------------------------------------------------
(* Initial state: an empty store, or the rows an older release left in it *)

Init ==
    /\ status = [j \in Jobs |-> IF j \in Legacy THEN "pending" ELSE "absent"]
    /\ owner = [j \in Jobs |-> None]
    /\ leaseLeft = [j \in Jobs |-> None]
    /\ attempt = [j \in Jobs |-> 0]
    /\ delay = [j \in Jobs |-> 0]
    /\ badPolicy = [j \in Jobs |-> j \in Legacy]
    /\ rates = {}
    /\ turn = [j \in Jobs |-> "none"]
    /\ mailbox = [j \in Jobs |-> 0]
    /\ pc = [p \in Procs |-> "idle"]
    /\ lag = [p \in Procs |-> 0]
    /\ list = [p \in Procs |-> {}]
    /\ held = [p \in Procs |-> None]
    /\ seen = [p \in Procs |-> 0]
    /\ renewal = [p \in Procs |-> "none"]
    /\ outcome = [p \in Procs |-> "absent"]
    /\ started = [j \in Jobs |-> [a \in 1 .. MaxAttempts |-> 0]]
    /\ crashes = 0

-----------------------------------------------------------------------------
(* Helpers of the steps *)

\* mutant of Leave: the renewal thread is not stopped
LeaveKeepsRenewal(p) ==
    /\ pc' = [pc EXCEPT ![p] = "idle"]
    /\ lag' = [lag EXCEPT ![p] = 0]
    /\ list' = [list EXCEPT ![p] = {}]
    /\ held' = [held EXCEPT ![p] = None]
    /\ seen' = [seen EXCEPT ![p] = 0]
    /\ outcome' = [outcome EXCEPT ![p] = "absent"]
    /\ UNCHANGED renewal

\* the call returns, with Ok or with Err, or its process dies
Leave(p) ==
    /\ pc' = [pc EXCEPT ![p] = "idle"]
    /\ lag' = [lag EXCEPT ![p] = 0]
    /\ list' = [list EXCEPT ![p] = {}]
    /\ held' = [held EXCEPT ![p] = None]
    /\ seen' = [seen EXCEPT ![p] = 0]
    /\ renewal' = [renewal EXCEPT ![p] = "none"]
    /\ outcome' = [outcome EXCEPT ![p] = "absent"]

Goto(p, label) ==
    /\ pc' = [pc EXCEPT ![p] = label]
    /\ UNCHANGED <<lag, list, held, seen, renewal, outcome>>

\* the next phase of the call starts from the rows of its SELECT
Scan(p, label, rows) ==
    /\ pc' = [pc EXCEPT ![p] = label]
    /\ list' = [list EXCEPT ![p] = rows]
    /\ UNCHANGED <<lag, held, seen, renewal, outcome>>

Drop(p, r) ==
    /\ list' = [list EXCEPT ![p] = @ \ {r}]
    /\ UNCHANGED <<pc, lag, held, seen, renewal, outcome>>

\* WHERE job_id=? AND status='running' AND lease_owner=? AND attempt=?
ExactlyRunning(p) ==
    /\ status[held[p]] = "running"
    /\ owner[held[p]] = WorkerId[p]
    /\ attempt[held[p]] = seen[p]

\* an UPDATE that gives a row a status and clears its lease columns
Settle(j, s, d) ==
    /\ status' = [status EXCEPT ![j] = s]
    /\ owner' = [owner EXCEPT ![j] = None]
    /\ leaseLeft' = [leaseLeft EXCEPT ![j] = None]
    /\ delay' = [delay EXCEPT ![j] = d]
    /\ UNCHANGED <<attempt, badPolicy>>

\* quarantine_invalid_stored_child_policies and _execution_modes: a row whose
\* column does not parse loses it and its lease, and fails unless it is terminal
QuarantinedStatus ==
    [j \in Jobs |-> IF badPolicy[j] /\ status[j] \notin Terminal
                    THEN "failed-terminal" ELSE status[j]]

Quarantine ==
    /\ owner' = [j \in Jobs |-> IF badPolicy[j] THEN None ELSE owner[j]]
    /\ leaseLeft' = [j \in Jobs |-> IF badPolicy[j] THEN None ELSE leaseLeft[j]]
    /\ badPolicy' = [j \in Jobs |-> FALSE]

-----------------------------------------------------------------------------
(* Operations on the store that are one transaction *)

\* enqueue_worker_job_v4_in_transaction: quarantine, then insert the row unless
\* the idempotency key exists; a hit returns the existing row
enqueue_worker_job(j) ==
    LET inserted == status[j] = "absent"
    IN  /\ status' = IF inserted THEN [QuarantinedStatus EXCEPT ![j] = "pending"]
                                 ELSE QuarantinedStatus
        /\ delay' = IF inserted THEN [delay EXCEPT ![j] = 0] ELSE delay
        /\ attempt' = IF inserted THEN [attempt EXCEPT ![j] = 0] ELSE attempt
        /\ Quarantine
        /\ UNCHANGED <<rates, runtime, locals, history>>

\* cancel_worker_job: every status but the terminal ones
cancel_worker_job(j) ==
    /\ status[j] \notin Terminal \cup {"absent"}
    /\ Settle(j, "canceled", delay[j])
    /\ UNCHANGED <<rates, runtime, locals, history>>

-----------------------------------------------------------------------------
(* run_worker_once, phase by phase *)

\* lease_expires_at_ms IS NOT NULL AND lease_expires_at_ms < now_ms
LeaseExpired(p, j) == leaseLeft[j] # None /\ leaseLeft[j] < -lag[p]

\* mutant of Begin: the reaper looks for running rows only
BeginReapsRunningOnly(p) ==
    /\ pc[p] = "idle"
    /\ status' = QuarantinedStatus
    /\ Quarantine
    /\ Scan(p, "reap", RowsWhere(LAMBDA j : /\ ~badPolicy[j]
                                            /\ status[j] = "running"
                                            /\ LeaseExpired(p, j)))
    /\ UNCHANGED <<attempt, delay, rates, runtime, history>>

\* the call reads the clock, quarantines, and selects the expired leases
\* (jobs_with_expired_leases)
Begin(p) ==
    /\ pc[p] = "idle"
    /\ status' = QuarantinedStatus
    /\ Quarantine
    /\ Scan(p, "reap", RowsWhere(LAMBDA j : /\ ~badPolicy[j]
                                            /\ status[j] \in Executing
                                            /\ LeaseExpired(p, j)))
    /\ UNCHANGED <<attempt, delay, rates, runtime, history>>

\* reap_expired_worker_jobs: compare-and-set on status, attempt, owner and expiry
reap_expired_worker_job(p, r) ==
    LET j == r.job
    IN  /\ pc[p] = "reap"
        /\ r \in list[p]
        /\ IF /\ status[j] = r.status
              /\ attempt[j] = r.attempt
              /\ owner[j] = r.owner
              /\ LeaseExpired(p, j)
           THEN IF r.attempt < MaxAttempts
                THEN Settle(j, "pending", backoff_ms(r.attempt) - lag[p])
                ELSE Settle(j, "expired", delay[j])
           ELSE UNCHANGED table
        /\ Drop(p, r)
        /\ UNCHANGED <<rates, runtime, history>>

\* reap_stale_worker_jobs ends here
ReapStaleReturns(p) ==
    /\ pc[p] = "reap"
    /\ p \in Reapers
    /\ list[p] = {}
    /\ Leave(p)
    /\ UNCHANGED <<table, rates, runtime, history>>

\* reconcile_runtime_queued_jobs selects the queued rows whose runtime receipt
\* is terminal
ReapDone(p) ==
    /\ pc[p] = "reap"
    /\ list[p] = {}
    /\ Scan(p, "reconcile", RowsWhere(LAMBDA j : status[j] = "runtime-queued" /\ turn[j] \in Settles))
    /\ UNCHANGED <<table, rates, runtime, history>>

\* mutant of set_runtime_terminal_with_mailbox: the UPDATE forgets
\* AND status='runtime-queued'
set_runtime_terminal_any_status(p, r) ==
    LET j == r.job
    IN  /\ pc[p] = "reconcile"
        /\ r \in list[p]
        /\ Settle(j, SettledAs(turn[j]), delay[j])
        /\ mailbox' = IF turn[j] \in Publishes THEN [mailbox EXCEPT ![j] = @ + 1] ELSE mailbox
        /\ Drop(p, r)
        /\ UNCHANGED <<rates, turn, history>>

\* set_runtime_terminal_with_mailbox: one transaction settles the row and
\* publishes its result
set_runtime_terminal_with_mailbox(p, r) ==
    LET j == r.job
    IN  /\ pc[p] = "reconcile"
        /\ r \in list[p]
        /\ status[j] = "runtime-queued"
        /\ turn[j] \in Settles
        /\ Settle(j, SettledAs(turn[j]), delay[j])
        /\ mailbox' = IF turn[j] \in Publishes THEN [mailbox EXCEPT ![j] = @ + 1] ELSE mailbox
        /\ Drop(p, r)
        /\ UNCHANGED <<rates, turn, history>>

\* the transaction finds the row no longer runtime-queued: the call returns Err
ReconcileFails(p, r) ==
    /\ pc[p] = "reconcile"
    /\ r \in list[p]
    /\ status[r.job] # "runtime-queued"
    /\ Leave(p)
    /\ UNCHANGED <<table, rates, runtime, history>>

\* terminalize_exhausted_pending_jobs selects rows that have no attempt left
ReconcileDone(p) ==
    /\ pc[p] = "reconcile"
    /\ list[p] = {}
    /\ Scan(p, "exhaust", RowsWhere(LAMBDA j : status[j] \in Leasable /\ attempt[j] >= MaxAttempts))
    /\ UNCHANGED <<table, rates, runtime, history>>

\* ... and fails them with persist_execution_result, whose WHERE clause names
\* the job only
terminalize_exhausted_pending_job(p, r) ==
    /\ pc[p] = "exhaust"
    /\ r \in list[p]
    /\ Settle(r.job, "failed-terminal", delay[r.job])
    /\ Drop(p, r)
    /\ UNCHANGED <<rates, runtime, history>>

\* ORDER BY priority DESC, available_at_ms ASC
Precedes(a, b) ==
    \/ Priority[a.job] > Priority[b.job]
    \/ Priority[a.job] = Priority[b.job] /\ a.delay < b.delay

\* pending_candidates: the first CandidateMax leasable rows that are available
pending_candidates(p) ==
    LET all == RowsWhere(LAMBDA j : /\ status[j] \in Leasable
                                    /\ attempt[j] < MaxAttempts
                                    /\ delay[j] <= -lag[p])
    IN  {c \in SUBSET all :
            /\ Cardinality(c) <= CandidateMax
            /\ c # all => Cardinality(c) = CandidateMax
            /\ \A a \in c, b \in all \ c : ~Precedes(b, a)}

ExhaustDone(p) ==
    /\ pc[p] = "exhaust"
    /\ list[p] = {}
    /\ \E rows \in pending_candidates(p) : Scan(p, "select", rows)
    /\ UNCHANGED <<table, rates, runtime, history>>

\* mutant of PoolFull: > for >=
PoolOverfull(j) ==
    \E pool \in Pools :
        /\ j \in pool.members
        /\ Cardinality({i \in pool.members : status[i] \in Executing}) > pool.limit

\* capacity_blocker: some pool of the job (global, lane, group or channel) is full
PoolFull(j) ==
    \E pool \in Pools :
        /\ j \in pool.members
        /\ Cardinality({i \in pool.members : status[i] \in Executing}) >= pool.limit

RateLimited(j) == j \in RateKeyed /\ RateLimit > 0

\* the rows reap_old_rate_leases keeps, which are the rows of the window
FreshRates(p) == {x \in rates : x.age <= RateWindow + lag[p]}

\* mutant of RateBlocked: > for >=
RateOverblocked(p, j) == RateLimited(j) /\ Cardinality(FreshRates(p)) > RateLimit

RateBlocked(p, j) == RateLimited(j) /\ Cardinality(FreshRates(p)) >= RateLimit

\* lease_next_job takes the first candidate and looks for a blocker; the check
\* and the lease are separate statements
SelectRow(p, r) ==
    /\ pc[p] = "select"
    /\ r \in list[p]
    /\ \A other \in list[p] : ~Precedes(other, r)
    /\ rates' = IF ~PoolFull(r.job) /\ RateLimited(r.job) THEN FreshRates(p) ELSE rates
    /\ IF PoolFull(r.job) \/ RateBlocked(p, r.job)
       THEN Drop(p, r)
       ELSE /\ pc' = [pc EXCEPT ![p] = "lease"]
            /\ list' = [list EXCEPT ![p] = @ \ {r}]
            /\ held' = [held EXCEPT ![p] = r.job]
            /\ UNCHANGED <<lag, seen, renewal, outcome>>
    /\ UNCHANGED <<table, runtime, history>>

NoWork(p) ==
    /\ pc[p] = "select"
    /\ list[p] = {}
    /\ Leave(p)
    /\ UNCHANGED <<table, rates, runtime, history>>

\* mutant of lease_job: the attempt is not counted up
lease_job_same_attempt(p) ==
    LET j == held[p]
    IN  /\ pc[p] = "lease"
        /\ status[j] \in Leasable
        /\ status' = [status EXCEPT ![j] = "leased"]
        /\ owner' = [owner EXCEPT ![j] = WorkerId[p]]
        /\ leaseLeft' = [leaseLeft EXCEPT ![j] = LeaseMs - lag[p]]
        /\ attempt' = [attempt EXCEPT ![j] = 1]
        /\ seen' = [seen EXCEPT ![p] = 1]
        /\ pc' = [pc EXCEPT ![p] = "readback"]
        /\ list' = [list EXCEPT ![p] = {}]
        /\ UNCHANGED <<delay, badPolicy, lag, held, renewal, outcome, rates, runtime, history>>

\* UPDATE jobs SET status='leased', attempt=attempt+1 ... WHERE the row is still
\* leasable; a row somebody else took sends the loop to the next candidate
lease_job(p) ==
    LET j == held[p]
    IN  /\ pc[p] = "lease"
        /\ IF status[j] \in Leasable /\ attempt[j] < MaxAttempts
           THEN /\ status' = [status EXCEPT ![j] = "leased"]
                /\ owner' = [owner EXCEPT ![j] = WorkerId[p]]
                /\ leaseLeft' = [leaseLeft EXCEPT ![j] = LeaseMs - lag[p]]
                /\ attempt' = [attempt EXCEPT ![j] = @ + 1]
                /\ seen' = [seen EXCEPT ![p] = attempt[j] + 1]
                /\ pc' = [pc EXCEPT ![p] = IF RateLimited(j) THEN "rate" ELSE "readback"]
                /\ list' = [list EXCEPT ![p] = {}]
                /\ UNCHANGED <<delay, badPolicy, lag, held, renewal, outcome>>
           ELSE /\ pc' = [pc EXCEPT ![p] = "select"]
                /\ held' = [held EXCEPT ![p] = None]
                /\ UNCHANGED <<table, lag, list, seen, renewal, outcome>>
        /\ UNCHANGED <<rates, runtime, history>>

record_rate_lease(p) ==
    /\ pc[p] = "rate"
    /\ rates' = FreshRates(p) \cup {[job |-> held[p], attempt |-> seen[p], age |-> lag[p]]}
    /\ Goto(p, "readback")
    /\ UNCHANGED <<table, runtime, history>>

\* lease_next_job returns the row as find_job_by_id reads it afterwards
ReadBack(p) ==
    /\ pc[p] = "readback"
    /\ seen' = [seen EXCEPT ![p] = attempt[held[p]]]
    /\ pc' = [pc EXCEPT ![p] = IF held[p] \in CronJobs THEN "cron" ELSE "set-running"]
    /\ UNCHANGED <<table, rates, runtime, lag, list, held, renewal, outcome, history>>

\* cron_worker_dispatch_blocker_for_job lets the job through ...
CronAllows(p) ==
    /\ pc[p] = "cron"
    /\ Goto(p, "set-running")
    /\ UNCHANGED <<table, rates, runtime, history>>

\* ... or the job is canceled with persist_execution_result (job_id only)
CronBlocks(p) ==
    /\ pc[p] = "cron"
    /\ Settle(held[p], "canceled", delay[held[p]])
    /\ Leave(p)
    /\ UNCHANGED <<rates, runtime, history>>

\* mutant of set_job_running: a row that is already running is accepted
set_job_running_again(p) ==
    LET j == held[p]
    IN  /\ pc[p] = "set-running"
        /\ IF status[j] \in Executing /\ owner[j] = WorkerId[p] /\ attempt[j] = seen[p]
           THEN /\ status' = [status EXCEPT ![j] = "running"]
                /\ Goto(p, "start")
                /\ UNCHANGED <<owner, leaseLeft, attempt, delay, badPolicy>>
           ELSE Leave(p) /\ UNCHANGED table
        /\ UNCHANGED <<rates, runtime, history>>

\* set_job_running: compare-and-set on status, owner and attempt
set_job_running(p) ==
    LET j == held[p]
    IN  /\ pc[p] = "set-running"
        /\ IF /\ status[j] = "leased"
              /\ owner[j] = WorkerId[p]
              /\ attempt[j] = seen[p]
              /\ leaseLeft[j] # None
           THEN /\ status' = [status EXCEPT ![j] = "running"]
                /\ Goto(p, "start")
                /\ UNCHANGED <<owner, leaseLeft, attempt, delay, badPolicy>>
           ELSE Leave(p) /\ UNCHANGED table
        /\ UNCHANGED <<rates, runtime, history>>

\* RunningWorkerLeaseRenewal::start reads the exact running row or fails the call
StartRenewal(p) ==
    /\ pc[p] = "start"
    /\ IF ExactlyRunning(p)
       THEN /\ pc' = [pc EXCEPT ![p] = "execute"]
            /\ renewal' = [renewal EXCEPT ![p] = "alive"]
            /\ started' = [started EXCEPT ![held[p]][seen[p]] = @ + 1]
            /\ UNCHANGED <<lag, list, held, seen, outcome>>
       ELSE Leave(p) /\ UNCHANGED started
    /\ UNCHANGED <<table, rates, runtime, crashes>>

\* the renewal thread: an update of the exact row, or the authority is lost
Renew(p) ==
    /\ renewal[p] = "alive"
    /\ IF ExactlyRunning(p)
       THEN /\ leaseLeft' = [leaseLeft EXCEPT ![held[p]] = LeaseMs]
            /\ UNCHANGED renewal
       ELSE /\ renewal' = [renewal EXCEPT ![p] = "lost"]
            /\ UNCHANGED leaseLeft
    /\ UNCHANGED <<status, owner, attempt, delay, badPolicy, rates, runtime,
                   pc, lag, list, held, seen, outcome, history>>

\* a database error, or a database that stays busy until the known expiry is near
RenewGivesUp(p) ==
    /\ renewal[p] = "alive"
    /\ renewal' = [renewal EXCEPT ![p] = "lost"]
    /\ UNCHANGED <<table, rates, runtime, pc, lag, list, held, seen, outcome, history>>

-----------------------------------------------------------------------------
(* execute_worker_job, by kind.  Failed(p) is the FailedRetryable result as    *)
(* normalize_exhausted_retryable_result leaves it.                             *)

Failed(p) == IF seen[p] < MaxAttempts THEN "failed-retryable" ELSE "failed-terminal"

Yield(p, o) ==
    /\ outcome' = [outcome EXCEPT ![p] = o]
    /\ pc' = [pc EXCEPT ![p] = "finish"]
    /\ UNCHANGED <<lag, list, held, seen, renewal>>

\* a shell script ends, fails, times out, is refused by the allow-list or is
\* killed because the authority was lost; an adapter job is only recorded
run_deterministic_shell_job(p) ==
    /\ pc[p] = "execute"
    /\ Kind[held[p]] \in {"shell", "adapter"}
    /\ \E o \in {"succeeded", "failed-terminal", Failed(p)} : Yield(p, o)
    /\ UNCHANGED <<table, rates, runtime, history>>

\* mutant of queue_llm_worker_turn: every attempt appends a turn
queue_llm_worker_turn_again(p) ==
    /\ pc[p] = "execute"
    /\ Kind[held[p]] = "llm"
    /\ turn' = [turn EXCEPT ![held[p]] = "queued"]
    /\ \E o \in {"runtime-queued", Failed(p)} : Yield(p, o)
    /\ UNCHANGED <<table, rates, mailbox, history>>

\* queue_llm_worker_turn: the queue id is derived from the job, so the append is
\* skipped when an earlier attempt already made it; an error may follow it
queue_llm_worker_turn(p) ==
    /\ pc[p] = "execute"
    /\ Kind[held[p]] = "llm"
    /\ turn' = [turn EXCEPT ![held[p]] = IF @ = "none" THEN "queued" ELSE @]
    /\ \E o \in {"runtime-queued", Failed(p)} : Yield(p, o)
    /\ UNCHANGED <<table, rates, mailbox, history>>

\* the payload is rejected before the append
LlmPayloadRejected(p) ==
    /\ pc[p] = "execute"
    /\ Kind[held[p]] = "llm"
    /\ Yield(p, Failed(p))
    /\ UNCHANGED <<table, rates, runtime, history>>

\* run_watchdog_job wakes the master ...
WatchdogWakes(p) ==
    /\ pc[p] = "execute"
    /\ Kind[held[p]] = "watchdog"
    /\ \E o \in {"succeeded", Failed(p)} : Yield(p, o)
    /\ UNCHANGED <<table, rates, runtime, history>>

\* ... or gives its own row back as pending before the result is persisted
WatchdogReschedules(p) ==
    /\ pc[p] = "execute"
    /\ Kind[held[p]] = "watchdog"
    /\ IF ExactlyRunning(p)
       THEN Settle(held[p], "pending", backoff_ms(seen[p]) - lag[p]) /\ Yield(p, "pending")
       ELSE UNCHANGED table /\ Yield(p, Failed(p))
    /\ UNCHANGED <<rates, runtime, history>>

-----------------------------------------------------------------------------
(* Stop the renewal thread and persist_owned_execution_result.  A lost renewal *)
(* turns the result into FailedTerminal; a result whose row is no longer       *)
(* exactly ours is refused.                                                    *)

Result(p) == IF renewal[p] = "lost" THEN "failed-terminal" ELSE outcome[p]

\* mutant of persist_owned_execution_result: the UPDATE names the job only
persist_any_execution_result(p) ==
    /\ pc[p] = "finish"
    /\ Result(p) # "pending"
    /\ Settle(held[p], IF Result(p) = "failed-retryable" THEN "pending" ELSE Result(p), delay[held[p]])
    /\ Leave(p)
    /\ UNCHANGED <<rates, runtime, history>>

persist_owned_execution_result(p) ==
    LET j == held[p]
    IN  /\ pc[p] = "finish"
        /\ IF Result(p) # "pending" /\ ExactlyRunning(p)
           THEN IF Result(p) = "failed-retryable"
                THEN Settle(j, "pending", backoff_ms(seen[p]) - lag[p])
                ELSE Settle(j, Result(p), delay[j])
           ELSE UNCHANGED table
        /\ Leave(p)
        /\ UNCHANGED <<rates, runtime, history>>

-----------------------------------------------------------------------------
(* The world around the store *)

\* a process dies: its rows and files stay as they are
Crash(p) ==
    /\ pc[p] # "idle"
    /\ crashes < MaxCrashes
    /\ crashes' = crashes + 1
    /\ Leave(p)
    /\ UNCHANGED <<table, rates, runtime, started>>

\* the runtime writes the terminal receipt of a queued turn
TurnEnds(j) ==
    /\ turn[j] = "queued"
    /\ \E t \in Settles : turn' = [turn EXCEPT ![j] = t]
    /\ UNCHANGED <<table, rates, mailbox, locals, history>>

\* the calls whose options.now_ms is still going to be used
Preparing(p) ==
    /\ pc[p] \notin {"idle", "finish"}
    /\ pc[p] = "execute" => Kind[held[p]] = "watchdog"

\* time passes; values no comparison can tell apart any more are not told apart.
\* available_at_ms is read of a leasable row only, and every statement that makes
\* a row leasable again writes it
Floor(n, low) == IF n < low THEN low ELSE n

Tick ==
    /\ \A p \in Procs : Preparing(p) => lag[p] < MaxLag
    /\ lag' = [p \in Procs |-> IF Preparing(p) THEN lag[p] + 1 ELSE lag[p]]
    /\ leaseLeft' = [j \in Jobs |-> IF leaseLeft[j] = None THEN None
                                    ELSE Floor(leaseLeft[j] - 1, -(MaxLag + 1))]
    /\ delay' = [j \in Jobs |-> IF status[j] \in Leasable
                                THEN Floor(delay[j] - 1, -MaxLag) ELSE -MaxLag]
    /\ rates' = {[x EXCEPT !.age = @ + 1] : x \in {y \in rates : y.age < RateWindow + MaxLag}}
    /\ UNCHANGED <<status, owner, attempt, badPolicy, runtime,
                   pc, list, held, seen, renewal, outcome, history>>

-----------------------------------------------------------------------------

Step(p) ==
    \/ Begin(p)
    \/ \E r \in list[p] : \/ reap_expired_worker_job(p, r)
                          \/ set_runtime_terminal_with_mailbox(p, r)
                          \/ ReconcileFails(p, r)
                          \/ terminalize_exhausted_pending_job(p, r)
                          \/ SelectRow(p, r)
    \/ ReapStaleReturns(p) \/ ReapDone(p) \/ ReconcileDone(p) \/ ExhaustDone(p) \/ NoWork(p)
    \/ lease_job(p) \/ record_rate_lease(p) \/ ReadBack(p)
    \/ CronAllows(p) \/ CronBlocks(p) \/ set_job_running(p) \/ StartRenewal(p)
    \/ run_deterministic_shell_job(p) \/ queue_llm_worker_turn(p) \/ LlmPayloadRejected(p)
    \/ WatchdogWakes(p) \/ WatchdogReschedules(p)
    \/ persist_owned_execution_result(p)

Next ==
    \/ \E j \in Jobs : enqueue_worker_job(j) \/ cancel_worker_job(j) \/ TurnEnds(j)
    \/ \E p \in Procs : Step(p) \/ Renew(p) \/ RenewGivesUp(p) \/ Crash(p)
    \/ Tick

Spec == Init /\ [][Next]_vars

\* the worker loops keep calling run_worker_once, a call that began goes on, the
\* clock runs and the runtime ends every turn; nobody has to cancel, enqueue or
\* call reap-stale
FairSpec ==
    /\ Spec
    /\ \A p \in Procs : WF_vars((p \in Reapers => pc[p] # "idle") /\ Step(p))
    /\ \A j \in Jobs : WF_vars(TurnEnds(j))
    /\ WF_vars(Tick)

-----------------------------------------------------------------------------
(* Properties *)

TableType ==
    /\ status \in [Jobs -> Status]
    /\ owner \in [Jobs -> Ids \cup {None}]
    /\ leaseLeft \in [Jobs -> Int \cup {None}]
    /\ attempt \in [Jobs -> Nat]
    /\ delay \in [Jobs -> Int]
    /\ badPolicy \in [Jobs -> BOOLEAN]

LocalsType ==
    /\ pc \in [Procs -> PC]
    /\ lag \in [Procs -> 0 .. MaxLag]
    /\ list \in [Procs -> SUBSET Row]
    /\ held \in [Procs -> Jobs \cup {None}]
    /\ seen \in [Procs -> Nat]
    /\ renewal \in [Procs -> {"none", "alive", "lost"}]
    /\ outcome \in [Procs -> Status]
    /\ \A p \in Procs : held[p] \in Jobs <=>
           pc[p] \notin {"idle", "reap", "reconcile", "exhaust", "select"}
    /\ \A p \in Procs : renewal[p] # "none" <=> pc[p] \in {"execute", "finish"}

RatesType == rates \subseteq [job : Jobs, attempt : Nat, age : Nat]

RuntimeType ==
    /\ turn \in [Jobs -> TurnStatus]
    /\ mailbox \in [Jobs -> Nat]

HistoryType ==
    /\ started \in [Jobs -> [1 .. MaxAttempts -> Nat]]
    /\ crashes \in Nat

\* Types of the table, of the rate leases, of the runtime's receipts and of the
\* state of the processes; a process past its selection holds a job, and the
\* renewal thread lives while the job executes.
TypeOK == TableType /\ RatesType /\ RuntimeType /\ LocalsType /\ HistoryType

\* No attempt of a job executes twice and no job has more attempts than
\* max_attempts, whatever processes crash, share a worker id, or are overtaken
\* by the reaper (lease_next_job, set_job_running, reap_expired_worker_jobs).
AttemptsExecuteOnce ==
    \A j \in Jobs : /\ attempt[j] <= MaxAttempts
                    /\ \A a \in 1 .. MaxAttempts : started[j][a] <= 1

\* At most one process at a time can renew the lease of a job or persist a
\* result for it, even when processes share a worker id.
OneAuthority ==
    \A p, q \in Procs :
        /\ p # q
        /\ pc[p] \in {"start", "execute", "finish"}
        /\ pc[q] \in {"start", "execute", "finish"}
        /\ held[p] = held[q]
        => ~(ExactlyRunning(p) /\ ExactlyRunning(q))

\* A row is leased or running exactly when it has an owner and an expiry, so the
\* reaper can always recover it (jobs_with_expired_leases selects on all three).
LeaseColumnsAgree ==
    \A j \in Jobs :
        /\ status[j] \in Executing <=> owner[j] # None
        /\ status[j] \in Executing <=> leaseLeft[j] # None

\* The check of a capacity limit and the lease are separate statements, so each
\* other process can overshoot a limit by one job, and by no more.
CapacityOvershootBounded ==
    \A pool \in Pools :
        pool.limit > 0 =>
            Cardinality({j \in pool.members : status[j] \in Executing})
                <= pool.limit + Cardinality(Procs) - 1

\* The same for rate leases: record_rate_lease inserts the row after the lease,
\* so the window holds at most one row too many per other process.
RateOvershootBounded ==
    RateLimit > 0 =>
        Cardinality({x \in rates : x.age <= RateWindow}) <= RateLimit + Cardinality(Procs) - 1

\* A worker job publishes at most one mailbox result, and only for a turn that
\* ended; a succeeded llm job has a completed turn whose result was published
\* (set_runtime_terminal_with_mailbox commits both or neither).
ResultPublishedOnce ==
    \A j \in Jobs :
        /\ mailbox[j] <= 1
        /\ mailbox[j] = 1 => turn[j] \in Publishes
        /\ status[j] = "succeeded" /\ Kind[j] = "llm" => turn[j] = "completed" /\ mailbox[j] = 1

\* A job that reached a terminal status never runs again and never becomes
\* pending again.  Which terminal status it has may change: a job canceled after
\* it was selected as exhausted is written as failed-terminal.
TerminalStaysTerminal ==
    [][\A j \in Jobs : status[j] \in Terminal => status'[j] \in Terminal]_vars

\* A retry of an llm job never queues its turn again once the turn has ended:
\* the runtime queue id does not depend on the attempt.
TurnNeverRequeued ==
    [][\A j \in Jobs : turn[j] \in Settles => turn'[j] = turn[j]]_vars

\* Every job that was enqueued comes to rest: crashed leases are reaped, retries
\* are bounded, exhausted rows are failed and ended turns are correlated.
EveryJobSettles ==
    \A j \in Jobs : status[j] # "absent" ~> status[j] \in Terminal

-----------------------------------------------------------------------------
(* What the store promises of one job, and the row that keeps the promise *)

\* the phase of JobLife a row is in
PhaseOf(s) ==
    CASE s = "absent" -> "absent"
      [] s \in Leasable -> "waiting"
      [] s = "leased" -> "granted"
      [] s = "running" -> "running"
      [] s = "runtime-queued" -> "deferred"
      [] s = "succeeded" -> "succeeded"
      [] s \in {"failed-terminal", "canceled", "expired"} -> "closed"

Life(j) == INSTANCE JobLife WITH
    IsLlm <- Kind[j] = "llm",
    IsLinked <- j \in CronJobs,
    phase <- PhaseOf(status[j]),
    attempt <- attempt[j],
    begun <- {a \in 1 .. MaxAttempts : started[j][a] > 0},
    published <- mailbox[j] > 0

\* Every row lives the life JobLife allows a job, whatever processes crash, lag or
\* share a worker id (all of workers.rs that writes the jobs table).  It is
\* \A j \in Jobs : Life(j)!Spec with the boxes of all jobs drawn together.
RowsLive ==
    /\ \A j \in Jobs : Life(j)!Init
    /\ [][\A j \in Jobs : [Life(j)!Next]_(Life(j)!vars)]_vars
=============================================================================
