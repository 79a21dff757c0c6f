------------------------- MODULE WorkerStoreProofs -------------------------
(***************************************************************************)
(* Type correctness of WorkerStore, for any number of jobs and processes,  *)
(* any assignment of worker ids, any pools and any bounds; that every      *)
(* statement keeps the attempt ledger: an attempt executes at most once,   *)
(* one process has the authority over it, the lease columns agree and a    *)
(* terminal job stays terminal; that a job publishes one result; how far   *)
(* the limits can be overshot; and that every row implements JobLife.      *)
(***************************************************************************)
EXTENDS WorkerStore, FiniteSetTheorems, TLAPS

USE ZenonT(60)

\* backoff_ms is a number of time units for every attempt
LEMMA BackoffType == \A a \in Nat : backoff_ms(a) \in Nat
  <1> TAKE a \in Nat
  <1>1. (IF a < 6 THEN a ELSE 6) \in 0 .. 6
    BY SMTT(30)
  <1> QED
    BY <1>1, SMTT(30) DEF backoff_ms

\* a SELECT returns rows, whatever its WHERE clause
LEMMA RowsType == ASSUME TableType, NEW S \in SUBSET Jobs PROVE {RowOf(j) : j \in S} \in SUBSET Row
  BY SMTT(30) DEF TableType, RowOf, Row

\* the columns after quarantine_invalid_stored_child_policies
LEMMA QuarantineType ==
    ASSUME TableType, Quarantine
    PROVE  /\ QuarantinedStatus \in [Jobs -> Status]
           /\ owner' \in [Jobs -> Ids \cup {None}]
           /\ leaseLeft' \in [Jobs -> Int \cup {None}]
           /\ badPolicy' \in [Jobs -> BOOLEAN]
  BY DEF TableType, Quarantine, QuarantinedStatus, Status, Terminal

LEMMA SettleType ==
    ASSUME TableType, NEW j \in Jobs, NEW s \in Status, NEW d \in Int, Settle(j, s, d)
    PROVE  TableType'
  BY DEF TableType, Settle

LEMMA UnchangedTableType == ASSUME TableType, UNCHANGED table PROVE TableType'
  BY DEF TableType, table

LEMMA LeaveType == ASSUME LocalsType, NEW p \in Procs, Leave(p) PROVE LocalsType'
  BY StoreAssumption, SMTT(30) DEF LocalsType, Leave, PC, Status

LEMMA ScanType ==
    ASSUME LocalsType, NEW p \in Procs, NEW rows \in SUBSET Row,
           NEW label \in {"reap", "reconcile", "exhaust", "select"},
           pc[p] \in {"idle", "reap", "reconcile", "exhaust", "select"}, Scan(p, label, rows)
    PROVE  LocalsType'
  BY DEF LocalsType, Scan, PC

LEMMA DropType == ASSUME LocalsType, NEW p \in Procs, NEW r, Drop(p, r) PROVE LocalsType'
  BY DEF LocalsType, Drop

LEMMA GotoType ==
    ASSUME LocalsType, NEW p \in Procs, NEW label \in {"readback", "set-running", "start"},
           pc[p] \in {"rate", "cron", "set-running"}, Goto(p, label)
    PROVE  LocalsType'
  BY DEF LocalsType, Goto, PC

LEMMA YieldType ==
    ASSUME LocalsType, NEW p \in Procs, NEW o \in Status, pc[p] = "execute", Yield(p, o)
    PROVE  LocalsType'
  BY DEF LocalsType, Yield, PC

LEMMA UnchangedLocalsType == ASSUME LocalsType, UNCHANGED locals PROVE LocalsType'
  BY DEF LocalsType, locals

LEMMA BumpType ==
    ASSUME NEW S, NEW f \in [S -> Nat], NEW x PROVE [f EXCEPT ![x] = @ + 1] \in [S -> Nat]
  <1>1. CASE x \in S
    BY <1>1, SMTT(30)
  <1>2. CASE x \notin S
    <2>1. [f EXCEPT ![x] = @ + 1] = f
      BY <1>2
    <2> QED
      BY <2>1
  <1> QED
    BY <1>1, <1>2

LEMMA UnchangedRatesType == ASSUME RatesType, UNCHANGED rates PROVE RatesType'
  BY DEF RatesType

LEMMA UnchangedRuntimeType == ASSUME RuntimeType, UNCHANGED runtime PROVE RuntimeType'
  BY DEF RuntimeType, runtime

LEMMA UnchangedHistoryType == ASSUME HistoryType, UNCHANGED history PROVE HistoryType'
  BY DEF HistoryType, history

\* most steps leave the rate leases, the runtime and the history alone
LEMMA FrameType ==
    ASSUME RatesType, RuntimeType, HistoryType, UNCHANGED <<rates, runtime, history>>
    PROVE  RatesType' /\ RuntimeType' /\ HistoryType'
  BY UnchangedRatesType, UnchangedRuntimeType, UnchangedHistoryType

\* Every variable of the store and of its processes keeps its type
\* (workers.rs: the jobs table and the locals of run_worker_once).
THEOREM TypeCorrect == Spec => []TypeOK
  <1>1. Init => TypeOK
    BY StoreAssumption, SMTT(30)
    DEF Init, TypeOK, TableType, RatesType, RuntimeType, HistoryType, LocalsType, Status, Leasable, TurnStatus, PC
  <1>2. TypeOK /\ [Next]_vars => TypeOK'
    <2> SUFFICES ASSUME TableType, RatesType, RuntimeType, LocalsType, HistoryType, [Next]_vars
                 PROVE  TypeOK'
      BY DEF TypeOK
    <2>1. ASSUME NEW j \in Jobs, enqueue_worker_job(j) PROVE TypeOK'
      <3>1. status' \in [Jobs -> Status]
        BY <2>1, QuarantineType DEF enqueue_worker_job, Status, Leasable
      <3>2. TableType'
        BY <2>1, <3>1, QuarantineType, SMTT(30) DEF enqueue_worker_job, TableType
      <3> QED
        BY <2>1, <3>2, UnchangedLocalsType, FrameType DEF enqueue_worker_job, TypeOK
    <2>2. ASSUME NEW j \in Jobs, cancel_worker_job(j) PROVE TypeOK'
      <3>1. TableType'
        BY <2>2, SettleType DEF cancel_worker_job, Status, Terminal, TableType
      <3> QED
        BY <2>2, <3>1, UnchangedLocalsType, FrameType DEF cancel_worker_job, TypeOK
    <2>3. ASSUME NEW j \in Jobs, TurnEnds(j) PROVE TypeOK'
      <3>1. RuntimeType'
        BY <2>3 DEF TurnEnds, TurnStatus, RuntimeType
      <3> QED
        BY <2>3, <3>1, UnchangedTableType, UnchangedLocalsType, UnchangedRatesType,
           UnchangedHistoryType
        DEF TurnEnds, TypeOK
    <2>4. ASSUME NEW p \in Procs, Begin(p) PROVE TypeOK'
      <3>1. TableType'
        BY <2>4, QuarantineType DEF Begin, TableType
      <3>2. LocalsType'
        BY <2>4, RowsType, ScanType DEF Begin, RowsWhere
      <3> QED
        BY <2>4, <3>1, <3>2, FrameType DEF Begin, TypeOK
    <2>5. ASSUME NEW p \in Procs, NEW r \in list[p], reap_expired_worker_job(p, r) PROVE TypeOK'
      <3>1. r \in Row /\ r.job \in Jobs /\ r.attempt \in Nat
        BY SMTT(30) DEF LocalsType, Row
      <3>2. /\ backoff_ms(r.attempt) - lag[p] \in Int
            /\ delay[r.job] \in Int
            /\ {"pending", "expired"} \subseteq Status
        BY <3>1, BackoffType, SMTT(30) DEF TableType, LocalsType, Status, Leasable, Terminal
      <3>3. \/ Settle(r.job, "pending", backoff_ms(r.attempt) - lag[p])
            \/ Settle(r.job, "expired", delay[r.job])
            \/ UNCHANGED table
        BY <2>5 DEF reap_expired_worker_job
      <3>4. TableType'
        BY <3>1, <3>2, <3>3, SettleType, UnchangedTableType
      <3> QED
        BY <2>5, <3>4, DropType, FrameType DEF reap_expired_worker_job, TypeOK
    <2>6. ASSUME NEW p \in Procs, NEW r \in list[p], set_runtime_terminal_with_mailbox(p, r)
          PROVE TypeOK'
      <3>1. r.job \in Jobs
        BY SMTT(30) DEF LocalsType, Row
      <3>2. SettledAs(turn[r.job]) \in Status
        BY <2>6 DEF set_runtime_terminal_with_mailbox, Settles, SettledAs, Status, Terminal
      <3>3. TableType'
        BY <2>6, <3>1, <3>2, SettleType DEF set_runtime_terminal_with_mailbox, TableType
      <3>4. RuntimeType'
        BY <2>6, <3>1, SMTT(30) DEF set_runtime_terminal_with_mailbox, RuntimeType
      <3> QED
        BY <2>6, <3>3, <3>4, DropType, UnchangedRatesType, UnchangedHistoryType
        DEF set_runtime_terminal_with_mailbox, TypeOK
    <2>7. ASSUME NEW p \in Procs, NEW r \in list[p], ReconcileFails(p, r) PROVE TypeOK'
      BY <2>7, LeaveType, UnchangedTableType, FrameType DEF ReconcileFails, TypeOK
    <2>8. ASSUME NEW p \in Procs, NEW r \in list[p], terminalize_exhausted_pending_job(p, r)
          PROVE TypeOK'
      <3>1. r.job \in Jobs
        BY SMTT(30) DEF LocalsType, Row
      <3>2. TableType'
        BY <2>8, <3>1, SettleType
        DEF terminalize_exhausted_pending_job, Status, Terminal, TableType
      <3> QED
        BY <2>8, <3>2, DropType, FrameType DEF terminalize_exhausted_pending_job, TypeOK
    <2>9. ASSUME NEW p \in Procs, NEW r \in list[p], SelectRow(p, r) PROVE TypeOK'
      <3>1. r.job \in Jobs
        BY SMTT(30) DEF LocalsType, Row
      <3>2. LocalsType'
        <4>1. CASE PoolFull(r.job) \/ RateBlocked(p, r.job)
          BY <2>9, <4>1, DropType DEF SelectRow
        <4>2. CASE ~(PoolFull(r.job) \/ RateBlocked(p, r.job))
          BY <2>9, <3>1, <4>2, SMTT(30) DEF SelectRow, LocalsType, PC
        <4> QED
          BY <4>1, <4>2
      <3>3. RatesType'
        BY <2>9 DEF SelectRow, FreshRates, RatesType
      <3> QED
        BY <2>9, <3>2, <3>3, UnchangedTableType, UnchangedRuntimeType, UnchangedHistoryType
        DEF SelectRow, TypeOK
    <2>10. ASSUME NEW p \in Procs, ReapStaleReturns(p) \/ NoWork(p) PROVE TypeOK'
      BY <2>10, LeaveType, UnchangedTableType, FrameType DEF ReapStaleReturns, NoWork, TypeOK
    <2>28. ASSUME NEW p \in Procs, Crash(p) PROVE TypeOK'
      <3>1. HistoryType'
        BY <2>28, SMTT(30) DEF Crash, HistoryType
      <3> QED
        BY <2>28, <3>1, LeaveType, UnchangedTableType, UnchangedRatesType, UnchangedRuntimeType
        DEF Crash, TypeOK
    <2>11. ASSUME NEW p \in Procs, ReapDone(p) \/ ReconcileDone(p) PROVE TypeOK'
      BY <2>11, RowsType, ScanType, UnchangedTableType, FrameType
      DEF ReapDone, ReconcileDone, RowsWhere, TypeOK
    <2>12. ASSUME NEW p \in Procs, ExhaustDone(p) PROVE TypeOK'
      <3>1. PICK rows \in pending_candidates(p) : Scan(p, "select", rows)
        BY <2>12 DEF ExhaustDone
      <3>2. rows \in SUBSET Row
        BY <3>1, RowsType DEF pending_candidates, RowsWhere
      <3> QED
        BY <2>12, <3>1, <3>2, ScanType, UnchangedTableType, FrameType DEF ExhaustDone, TypeOK
    <2>13. ASSUME NEW p \in Procs, lease_job(p) PROVE TypeOK'
      <3>1. held[p] \in Jobs
        BY <2>13 DEF lease_job, LocalsType
      <3>2. TableType'
        <4>1. CASE status[held[p]] \in Leasable /\ attempt[held[p]] < MaxAttempts
          <5>1. WorkerId[p] \in Ids /\ LeaseMs - lag[p] \in Int
            BY StoreAssumption, SMTT(30) DEF LocalsType
          <5> QED
            BY <2>13, <3>1, <4>1, <5>1, SMTT(30) DEF lease_job, TableType, Status, Executing
        <4>2. CASE ~(status[held[p]] \in Leasable /\ attempt[held[p]] < MaxAttempts)
          BY <2>13, <4>2, UnchangedTableType DEF lease_job
        <4> QED
          BY <4>1, <4>2
      <3>3. LocalsType'
        <4>1. CASE status[held[p]] \in Leasable /\ attempt[held[p]] < MaxAttempts
          <5>1. attempt[held[p]] + 1 \in Nat
            BY <3>1, SMTT(30) DEF TableType
          <5> QED
            BY <2>13, <3>1, <4>1, <5>1, SMTT(30) DEF lease_job, LocalsType, PC
        <4>2. CASE ~(status[held[p]] \in Leasable /\ attempt[held[p]] < MaxAttempts)
          BY <2>13, <3>1, <4>2, StoreAssumption, SMTT(30) DEF lease_job, LocalsType, PC
        <4> QED
          BY <4>1, <4>2
      <3> QED
        BY <2>13, <3>2, <3>3, FrameType DEF lease_job, TypeOK
    <2>14. ASSUME NEW p \in Procs, record_rate_lease(p) PROVE TypeOK'
      <3>1. held[p] \in Jobs /\ seen[p] \in Nat /\ lag[p] \in Nat
        BY <2>14, SMTT(30) DEF record_rate_lease, LocalsType
      <3>2. RatesType'
        BY <2>14, <3>1, SMTT(30) DEF record_rate_lease, FreshRates, RatesType
      <3> QED
        BY <2>14, <3>2, GotoType, UnchangedTableType, UnchangedRuntimeType, UnchangedHistoryType
        DEF record_rate_lease, TypeOK
    <2>15. ASSUME NEW p \in Procs, ReadBack(p) PROVE TypeOK'
      <3>1. LocalsType'
        BY <2>15 DEF ReadBack, LocalsType, TableType, PC
      <3> QED
        BY <2>15, <3>1, UnchangedTableType, FrameType DEF ReadBack, TypeOK
    <2>16. ASSUME NEW p \in Procs, CronAllows(p) PROVE TypeOK'
      BY <2>16, GotoType, UnchangedTableType, FrameType DEF CronAllows, TypeOK
    <2>17. ASSUME NEW p \in Procs, CronBlocks(p) PROVE TypeOK'
      <3>1. held[p] \in Jobs
        BY <2>17 DEF CronBlocks, LocalsType
      <3>2. TableType'
        BY <2>17, <3>1, SettleType DEF CronBlocks, Status, Terminal, TableType
      <3> QED
        BY <2>17, <3>2, LeaveType, FrameType DEF CronBlocks, TypeOK
    <2>18. ASSUME NEW p \in Procs, set_job_running(p) PROVE TypeOK'
      <3>1. TableType'
        BY <2>18 DEF set_job_running, TableType, table, Status, Executing
      <3>2. LocalsType'
        BY <2>18, GotoType, LeaveType DEF set_job_running
      <3> QED
        BY <2>18, <3>1, <3>2, FrameType, SMTT(30) DEF set_job_running, TypeOK
    <2>19. ASSUME NEW p \in Procs, StartRenewal(p) PROVE TypeOK'
      <3>1. held[p] \in Jobs
        BY <2>19 DEF StartRenewal, LocalsType
      <3>2. LocalsType'
        <4>1. CASE ~ExactlyRunning(p)
          BY <2>19, <4>1, LeaveType DEF StartRenewal
        <4>2. CASE ExactlyRunning(p)
          BY <2>19, <4>2 DEF StartRenewal, LocalsType, PC
        <4> QED
          BY <4>1, <4>2
      <3>3. HistoryType'
        <4>1. [started[held[p]] EXCEPT ![seen[p]] = @ + 1] \in [1 .. MaxAttempts -> Nat]
          <5>1. started[held[p]] \in [1 .. MaxAttempts -> Nat]
            BY <3>1 DEF HistoryType
          <5> QED
            BY <5>1, BumpType
        <4>2. \/ UNCHANGED started
              \/ started' = [started EXCEPT ![held[p]] = [started[held[p]] EXCEPT ![seen[p]] = @ + 1]]
          BY <2>19 DEF StartRenewal
        <4> QED
          BY <2>19, <3>1, <4>1, <4>2 DEF StartRenewal, HistoryType
      <3> QED
        BY <2>19, <3>2, <3>3, UnchangedTableType, UnchangedRatesType, UnchangedRuntimeType
        DEF StartRenewal, TypeOK
    <2>20. ASSUME NEW p \in Procs, Renew(p) \/ RenewGivesUp(p) PROVE TypeOK'
      <3>1. TableType'
        <4>1. CASE leaseLeft' = [leaseLeft EXCEPT ![held[p]] = LeaseMs]
          <5>1. LeaseMs \in Int
            BY StoreAssumption, SMTT(30)
          <5>2. leaseLeft' \in [Jobs -> Int \cup {None}]
            BY <4>1, <5>1 DEF TableType
          <5> QED
            BY <2>20, <5>2 DEF Renew, RenewGivesUp, TableType, table
        <4>2. CASE UNCHANGED leaseLeft
          BY <2>20, <4>2 DEF Renew, RenewGivesUp, TableType, table
        <4> QED
          BY <2>20, <4>1, <4>2 DEF Renew, RenewGivesUp, table
      <3>2. LocalsType'
        BY <2>20 DEF Renew, RenewGivesUp, LocalsType
      <3> QED
        BY <2>20, <3>1, <3>2, FrameType DEF Renew, RenewGivesUp, TypeOK
    <2>21. \A p \in Procs : Failed(p) \in Status
      BY DEF Failed, Status, Leasable, Terminal
    <2>22. ASSUME NEW p \in Procs,
                  run_deterministic_shell_job(p) \/ LlmPayloadRejected(p) \/ WatchdogWakes(p)
           PROVE TypeOK'
      <3>1. PICK o \in Status : pc[p] = "execute" /\ Yield(p, o)
        BY <2>21, <2>22
        DEF run_deterministic_shell_job, LlmPayloadRejected, WatchdogWakes, Status, Terminal
      <3> QED
        BY <2>22, <3>1, YieldType, UnchangedTableType, FrameType
        DEF run_deterministic_shell_job, LlmPayloadRejected, WatchdogWakes, TypeOK
    <2>23. ASSUME NEW p \in Procs, queue_llm_worker_turn(p) PROVE TypeOK'
      <3>1. PICK o \in Status : pc[p] = "execute" /\ Yield(p, o)
        BY <2>21, <2>23 DEF queue_llm_worker_turn, Status
      <3>2. RuntimeType'
        BY <2>23 DEF queue_llm_worker_turn, TurnStatus, RuntimeType
      <3> QED
        BY <2>23, <3>1, <3>2, YieldType, UnchangedTableType, UnchangedRatesType, UnchangedHistoryType
        DEF queue_llm_worker_turn, TypeOK
    <2>24. ASSUME NEW p \in Procs, WatchdogReschedules(p) PROVE TypeOK'
      <3>1. held[p] \in Jobs /\ seen[p] \in Nat /\ lag[p] \in Int
        BY <2>24, StoreAssumption, SMTT(30) DEF WatchdogReschedules, LocalsType
      <3>4. backoff_ms(seen[p]) - lag[p] \in Int /\ "pending" \in Status
        BY <3>1, BackoffType, SMTT(30) DEF Status, Leasable
      <3>2. TableType'
        BY <2>24, <3>1, <3>4, SettleType, UnchangedTableType DEF WatchdogReschedules
      <3>3. PICK o \in Status : pc[p] = "execute" /\ Yield(p, o)
        BY <2>21, <2>24 DEF WatchdogReschedules, Status, Leasable
      <3> QED
        BY <2>24, <3>2, <3>3, YieldType, FrameType DEF WatchdogReschedules, TypeOK
    <2>25. ASSUME NEW p \in Procs, persist_owned_execution_result(p) PROVE TypeOK'
      <3>1. held[p] \in Jobs /\ seen[p] \in Nat /\ Result(p) \in Status
        BY <2>25 DEF persist_owned_execution_result, LocalsType, Result, Status, Terminal
      <3>2. backoff_ms(seen[p]) - lag[p] \in Int /\ delay[held[p]] \in Int /\ "pending" \in Status
        BY <3>1, BackoffType, SMTT(30) DEF TableType, LocalsType, Status, Leasable
      <3>3. \/ Settle(held[p], "pending", backoff_ms(seen[p]) - lag[p])
            \/ Settle(held[p], Result(p), delay[held[p]])
            \/ UNCHANGED table
        BY <2>25, SMTT(30) DEF persist_owned_execution_result
      <3>4. TableType'
        BY <3>1, <3>2, <3>3, SettleType, UnchangedTableType
      <3> QED
        BY <2>25, <3>4, LeaveType, FrameType DEF persist_owned_execution_result, TypeOK
    <2>26. CASE Tick
      <3>4. \A n \in Int, low \in Int : Floor(n, low) \in Int
        BY DEF Floor
      <3>5. MaxLag \in Nat
        BY StoreAssumption
      <3>6. /\ \A j \in Jobs : leaseLeft[j] # None => Floor(leaseLeft[j] - 1, -(MaxLag + 1)) \in Int
            /\ \A j \in Jobs : Floor(delay[j] - 1, -MaxLag) \in Int
            /\ -MaxLag \in Int
        <4>1. \A j \in Jobs : leaseLeft[j] # None => leaseLeft[j] - 1 \in Int
          BY SMTT(30) DEF TableType
        <4>2. \A j \in Jobs : delay[j] - 1 \in Int
          BY SMTT(30) DEF TableType
        <4>3. -(MaxLag + 1) \in Int /\ -MaxLag \in Int
          BY <3>5, SMTT(30)
        <4> QED
          BY <3>4, <4>1, <4>2, <4>3
      <3>1. TableType'
        BY <2>26, <3>6 DEF Tick, TableType
      <3>2. LocalsType'
        <4>1. lag' \in [Procs -> 0 .. MaxLag]
          BY <2>26, <3>5, SMTT(30) DEF Tick, LocalsType
        <4> QED
          BY <2>26, <4>1 DEF Tick, LocalsType
      <3>3. RatesType'
        BY <2>26, SMTT(30) DEF Tick, RatesType
      <3> QED
        BY <2>26, <3>1, <3>2, <3>3, UnchangedRuntimeType, UnchangedHistoryType DEF Tick, TypeOK
    <2>27. CASE UNCHANGED vars
      BY <2>27, UnchangedTableType, UnchangedLocalsType, FrameType DEF vars, TypeOK
    <2> QED
      BY <2>1, <2>2, <2>3, <2>4, <2>5, <2>6, <2>7, <2>8, <2>9, <2>10, <2>11, <2>12, <2>13,
         <2>14, <2>15, <2>16, <2>17, <2>18, <2>19, <2>20, <2>22, <2>23, <2>24, <2>25, <2>26,
         <2>27, <2>28
      DEF Next, Step
  <1> QED
    BY <1>1, <1>2, PTL DEF Spec

-----------------------------------------------------------------------------
(* The attempt ledger.  AttemptsExecuteOnce and OneAuthority are not inductive *)
(* by themselves: a process may sit for ever between two statements with an    *)
(* attempt number it read long ago.  What makes them true is that attempt only *)
(* grows, that it grows exactly when a row becomes leased, and that nobody who *)
(* is past set_job_running holds the attempt of a row that is leased.          *)

\* the process leased a row in this call
Holding(p) == pc[p] \in {"rate", "readback", "cron", "set-running", "start", "execute", "finish"}

\* ... and its set_job_running succeeded
Acting(p) == pc[p] \in {"start", "execute", "finish"}

\* the rows: attempts beyond the current one have not begun, nor has the attempt
\* of a row that is only leased
RowLedger ==
    /\ \A j \in Jobs : attempt[j] <= MaxAttempts
    /\ \A j \in Jobs : status[j] = "absent" => attempt[j] = 0
    /\ \A j \in Jobs : \A a \in 1 .. MaxAttempts :
           started[j][a] <= 1 /\ (a > attempt[j] => started[j][a] = 0)
    /\ \A j \in Jobs : status[j] = "leased" => attempt[j] >= 1 /\ started[j][attempt[j]] = 0

\* the processes: what they hold is an attempt of the past or the current one,
\* and only one of them can be exactly running
ProcLedger ==
    /\ \A p \in Procs : Holding(p) => 1 <= seen[p] /\ seen[p] <= attempt[held[p]]
    /\ \A p \in Procs : pc[p] = "start" /\ ExactlyRunning(p) => started[held[p]][seen[p]] = 0
    /\ \A p \in Procs : Acting(p) /\ status[held[p]] = "leased" => seen[p] # attempt[held[p]]
    /\ OneAuthority

\* results and reaped rows have the statuses the code gives them
ResultLedger ==
    /\ \A p \in Procs : pc[p] = "finish" =>
           outcome[p] \in {"succeeded", "failed-terminal", "failed-retryable", "runtime-queued", "pending"}
    /\ \A p \in Procs : pc[p] = "reap" => \A r \in list[p] : r.status \in Executing

Ledger == RowLedger /\ ProcLedger /\ ResultLedger

\* a step after which no row is leased or running that was not before, ...
RowsFade ==
    /\ UNCHANGED attempt
    /\ \A j \in Jobs : status'[j] \in Executing => status'[j] = status[j] /\ owner'[j] = owner[j]
    /\ \A j \in Jobs : status'[j] = "absent" => status[j] = "absent"

\* ... and no process holds or acts on one that did not before
ProcsFade ==
    \A p \in Procs : Holding(p)' => /\ Holding(p)
                                    /\ held'[p] = held[p]
                                    /\ seen'[p] = seen[p]
                                    /\ Acting(p)' => Acting(p)
                                    /\ pc'[p] = "start" => pc[p] = "start"

LEMMA FadingKeepsLedger ==
    ASSUME TableType, LocalsType, HistoryType, RowLedger, ProcLedger, RowsFade, ProcsFade,
           UNCHANGED started
    PROVE  RowLedger' /\ ProcLedger'
  <1>1. RowLedger'
    BY SMTT(30) DEF RowLedger, RowsFade, Executing
  <1>2. \A p \in Procs : Holding(p) => held[p] \in Jobs
    BY DEF LocalsType, Holding
  <1>3. \A p \in Procs : Holding(p)' /\ ExactlyRunning(p)' => ExactlyRunning(p)
    BY <1>2, SMTT(30) DEF RowsFade, ProcsFade, ExactlyRunning, Executing
  <1>4. ASSUME NEW p \in Procs, Holding(p)' PROVE 1 <= seen'[p] /\ seen'[p] <= attempt'[held'[p]]
    BY <1>4 DEF ProcLedger, RowsFade, ProcsFade
  <1>5. ASSUME NEW p \in Procs, pc'[p] = "start", ExactlyRunning(p)'
        PROVE  started'[held'[p]][seen'[p]] = 0
    <2>1. Holding(p)'
      BY <1>5 DEF Holding
    <2> QED
      BY <1>3, <1>5, <2>1 DEF ProcLedger, ProcsFade
  <1>6. ASSUME NEW p \in Procs, Acting(p)', status'[held'[p]] = "leased"
        PROVE  seen'[p] # attempt'[held'[p]]
    <2>1. Holding(p)'
      BY <1>6 DEF Acting, Holding
    <2> QED
      BY <1>2, <1>6, <2>1, SMTT(30) DEF ProcLedger, ProcsFade, RowsFade, Executing
  <1>7. OneAuthority'
    <2> SUFFICES ASSUME NEW p \in Procs, NEW q \in Procs, p # q, Acting(p)', Acting(q)',
                        held'[p] = held'[q], ExactlyRunning(p)', ExactlyRunning(q)'
                 PROVE  FALSE
      BY SMTT(30) DEF OneAuthority, Acting
    <2>1. Holding(p)' /\ Holding(q)'
      BY DEF Acting, Holding
    <2>2. Acting(p) /\ Acting(q) /\ held[p] = held[q]
      BY <2>1 DEF ProcsFade
    <2>3. ExactlyRunning(p) /\ ExactlyRunning(q)
      BY <1>3, <2>1
    <2> QED
      BY <2>2, <2>3 DEF ProcLedger, OneAuthority, Acting
  <1> QED
    BY <1>1, <1>4, <1>5, <1>6, <1>7 DEF ProcLedger

\* how the helpers of the steps fade
LEMMA SettleFades ==
    ASSUME TableType, NEW j \in Jobs, NEW s, s \notin Executing, s # "absent", NEW d, Settle(j, s, d)
    PROVE  RowsFade
  BY DEF TableType, Settle, RowsFade

LEMMA UnchangedRowsFade == ASSUME UNCHANGED table PROVE RowsFade
  BY SMTT(30) DEF table, RowsFade

LEMMA QuarantineFades ==
    ASSUME TableType, Quarantine, status' = QuarantinedStatus, UNCHANGED attempt
    PROVE  RowsFade
  BY DEF TableType, Quarantine, QuarantinedStatus, RowsFade, Executing, Terminal

LEMMA LeaveFades ==
    ASSUME LocalsType, ResultLedger, NEW p \in Procs, Leave(p)
    PROVE  ProcsFade /\ ResultLedger'
  BY DEF LocalsType, ResultLedger, Leave, ProcsFade, Holding, Acting

LEMMA ScanFades ==
    ASSUME LocalsType, ResultLedger, NEW p \in Procs, NEW rows,
           NEW label \in {"reap", "reconcile", "exhaust", "select"},
           label = "reap" => \A r \in rows : r.status \in Executing,
           Scan(p, label, rows)
    PROVE  ProcsFade /\ ResultLedger'
  BY DEF LocalsType, ResultLedger, Scan, ProcsFade, Holding, Acting

LEMMA DropFades ==
    ASSUME LocalsType, ResultLedger, NEW p \in Procs, NEW r, Drop(p, r)
    PROVE  ProcsFade /\ ResultLedger'
  BY DEF LocalsType, ResultLedger, Drop, ProcsFade, Holding, Acting

LEMMA GotoFades ==
    ASSUME LocalsType, ResultLedger, NEW p \in Procs, NEW label \in {"readback", "set-running"},
           pc[p] \in {"rate", "cron"}, Goto(p, label)
    PROVE  ProcsFade /\ ResultLedger'
  BY DEF LocalsType, ResultLedger, Goto, ProcsFade, Holding, Acting

LEMMA YieldFades ==
    ASSUME LocalsType, ResultLedger, NEW p \in Procs, pc[p] = "execute",
           NEW o \in {"succeeded", "failed-terminal", "failed-retryable", "runtime-queued", "pending"},
           Yield(p, o)
    PROVE  ProcsFade /\ ResultLedger'
  BY DEF LocalsType, ResultLedger, Yield, ProcsFade, Holding, Acting

LEMMA UnchangedProcsFade ==
    ASSUME ResultLedger, UNCHANGED <<pc, list, held, seen, outcome>> PROVE ProcsFade /\ ResultLedger'
  BY DEF ResultLedger, ProcsFade, Holding, Acting

\* The four steps that do not fade

\* lease_next_job counts the attempt up, so nobody holds the attempt of the row
LEMMA LeaseKeepsLedger ==
    ASSUME TableType, LocalsType, HistoryType, Ledger, NEW p \in Procs, lease_job(p),
           status[held[p]] \in Leasable, attempt[held[p]] < MaxAttempts
    PROVE  Ledger'
  <1> DEFINE j == held[p]
  <1>1. /\ j \in Jobs
        /\ attempt[j] \in Nat
        /\ status' = [status EXCEPT ![j] = "leased"]
        /\ owner' = [owner EXCEPT ![j] = WorkerId[p]]
        /\ attempt' = [attempt EXCEPT ![j] = attempt[j] + 1]
        /\ seen' = [seen EXCEPT ![p] = attempt[j] + 1]
        /\ pc' = [pc EXCEPT ![p] = IF RateLimited(j) THEN "rate" ELSE "readback"]
        /\ list' = [list EXCEPT ![p] = {}]
        /\ UNCHANGED <<held, outcome, started>>
    BY SMTT(30) DEF lease_job, LocalsType, TableType, history
  <1> HIDE DEF j
  <1>2. RowLedger'
    <2>1. attempt'[j] = attempt[j] + 1 /\ status'[j] = "leased" /\ attempt[j] < MaxAttempts
      BY <1>1 DEF TableType, j
    <2>2. \A i \in Jobs : i # j => attempt'[i] = attempt[i] /\ status'[i] = status[i]
      BY <1>1 DEF TableType
    <2>3. MaxAttempts \in Nat
      BY StoreAssumption
    <2>4. RowLedger /\ UNCHANGED started /\ \A i \in Jobs : attempt[i] \in Nat
      BY <1>1 DEF Ledger, TableType
    <2>5. \A i \in Jobs : attempt'[i] <= MaxAttempts
      BY <1>1, <2>1, <2>2, <2>3, <2>4, SMTT(30) DEF RowLedger
    <2>6. \A i \in Jobs : status'[i] = "absent" => attempt'[i] = 0
      BY <2>1, <2>2, <2>4 DEF RowLedger
    <2>7. ASSUME NEW i \in Jobs, NEW a \in 1 .. MaxAttempts
          PROVE  started'[i][a] <= 1 /\ (a > attempt'[i] => started'[i][a] = 0)
      <3>1. attempt[i] <= attempt'[i]
        BY <1>1, <2>1, <2>2, <2>4, SMTT(30)
      <3> QED
        BY <1>1, <2>1, <2>2, <2>3, <2>4, <3>1, SMTT(30) DEF RowLedger
    <2>8. ASSUME NEW i \in Jobs, status'[i] = "leased"
          PROVE  attempt'[i] >= 1 /\ started'[i][attempt'[i]] = 0
      <3>1. CASE i = j
        BY <1>1, <2>1, <2>3, <2>4, <3>1, SMTT(30) DEF RowLedger
      <3>2. CASE i # j
        BY <2>2, <2>4, <2>8, <3>2 DEF RowLedger
      <3> QED
        BY <3>1, <3>2
    <2> QED
      BY <2>5, <2>6, <2>7, <2>8 DEF RowLedger
  <1>3. ~Acting(p)' /\ Holding(p)' /\ held'[p] = j
    BY <1>1 DEF Acting, Holding, LocalsType, j
  <1>4. ASSUME NEW q \in Procs, q # p, Holding(q)'
        PROVE  /\ Holding(q) /\ (Acting(q)' => Acting(q)) /\ (pc'[q] = "start" => pc[q] = "start")
               /\ held'[q] = held[q] /\ seen'[q] = seen[q] /\ held[q] \in Jobs
               /\ 1 <= seen[q] /\ seen[q] <= attempt[held[q]]
    BY <1>1, <1>4 DEF Holding, Acting, LocalsType, Ledger, ProcLedger
  <1>5. ASSUME NEW q \in Procs, q # p, Holding(q)', ExactlyRunning(q)' PROVE ExactlyRunning(q)
    BY <1>1, <1>4, <1>5 DEF ExactlyRunning, TableType
  <1>6. \A q \in Procs : Holding(q)' => 1 <= seen'[q] /\ seen'[q] <= attempt'[held'[q]]
    BY <1>1, <1>3, <1>4, SMTT(30) DEF TableType, LocalsType
  <1>7. \A q \in Procs : Acting(q)' => Holding(q)' /\ q # p
    BY <1>3 DEF Acting, Holding
  <1>8. ASSUME NEW q \in Procs, pc'[q] = "start", ExactlyRunning(q)'
        PROVE  started'[held'[q]][seen'[q]] = 0
    BY <1>1, <1>4, <1>5, <1>7, <1>8 DEF Acting, Ledger, ProcLedger
  <1>9. ASSUME NEW q \in Procs, Acting(q)', status'[held'[q]] = "leased"
        PROVE  seen'[q] # attempt'[held'[q]]
    BY <1>1, <1>4, <1>7, <1>9, SMTT(30) DEF Ledger, ProcLedger, TableType
  <1>10. OneAuthority'
    <2> SUFFICES ASSUME NEW q \in Procs, NEW o \in Procs, q # o, Acting(q)', Acting(o)',
                        held'[q] = held'[o], ExactlyRunning(q)', ExactlyRunning(o)'
                 PROVE  FALSE
      BY SMTT(30) DEF OneAuthority, Acting
    <2> QED
      BY <1>4, <1>5, <1>7, SMTT(30) DEF Ledger, ProcLedger, OneAuthority, Acting
  <1>11. ResultLedger'
    BY <1>1 DEF Ledger, ResultLedger, LocalsType
  <1> QED
    BY <1>2, <1>6, <1>8, <1>9, <1>10, <1>11 DEF Ledger, ProcLedger

\* find_job_by_id may read a later attempt, never an earlier one
LEMMA ReadBackKeepsLedger ==
    ASSUME TableType, LocalsType, HistoryType, Ledger, NEW p \in Procs, ReadBack(p)
    PROVE  Ledger'
  <1>1. /\ held[p] \in Jobs /\ Holding(p)
        /\ seen' = [seen EXCEPT ![p] = attempt[held[p]]]
        /\ pc' = [pc EXCEPT ![p] = IF held[p] \in CronJobs THEN "cron" ELSE "set-running"]
        /\ UNCHANGED <<status, owner, attempt, list, held, outcome, started>>
    BY DEF ReadBack, LocalsType, Holding, table, history
  <1>2. RowLedger'
    BY <1>1 DEF Ledger, RowLedger
  <1>3. ~Acting(p)' /\ Holding(p)'
    BY <1>1 DEF Acting, Holding, LocalsType
  <1>4. ASSUME NEW q \in Procs, q # p
        PROVE  pc'[q] = pc[q] /\ seen'[q] = seen[q] /\ (ExactlyRunning(q)' <=> ExactlyRunning(q))
    BY <1>1, <1>4 DEF LocalsType, ExactlyRunning
  <1>5. \A q \in Procs : Holding(q)' => 1 <= seen'[q] /\ seen'[q] <= attempt'[held'[q]]
    BY <1>1, <1>4, SMTT(30) DEF Holding, Ledger, ProcLedger, TableType, LocalsType
  <1>6. \A q \in Procs : pc'[q] = "start" /\ ExactlyRunning(q)' => started'[held'[q]][seen'[q]] = 0
    BY <1>1, <1>3, <1>4 DEF Acting, Ledger, ProcLedger
  <1>7. \A q \in Procs : Acting(q)' /\ status'[held'[q]] = "leased" => seen'[q] # attempt'[held'[q]]
    BY <1>1, <1>3, <1>4 DEF Acting, Ledger, ProcLedger
  <1>8. OneAuthority'
    BY <1>1, <1>3, <1>4 DEF OneAuthority, Acting, Ledger, ProcLedger
  <1>9. ResultLedger'
    BY <1>1 DEF Ledger, ResultLedger, LocalsType
  <1> QED
    BY <1>2, <1>5, <1>6, <1>7, <1>8, <1>9 DEF Ledger, ProcLedger

\* set_job_running: nobody else past it holds the attempt, which has not begun
LEMMA SetRunningKeepsLedger ==
    ASSUME TableType, LocalsType, HistoryType, Ledger, NEW p \in Procs, pc[p] = "set-running",
           status[held[p]] = "leased", attempt[held[p]] = seen[p],
           status' = [status EXCEPT ![held[p]] = "running"], Goto(p, "start"),
           UNCHANGED <<owner, attempt, started>>
    PROVE  Ledger'
  <1> DEFINE j == held[p]
  <1>1. j \in Jobs /\ Holding(p) /\ Acting(p)' /\ held'[p] = j /\ seen'[p] = seen[p] /\ UNCHANGED held
    BY DEF LocalsType, Goto, Acting, Holding
  <1>2. status[j] = "leased" /\ attempt[j] = seen[p] /\ status'[j] = "running"
    BY <1>1 DEF TableType
  <1>3. \A i \in Jobs : i # j => status'[i] = status[i]
    BY SMTT(30) DEF TableType
  <1> HIDE DEF j
  <1>4. RowLedger'
    BY <1>1, <1>2, <1>3 DEF Ledger, RowLedger
  <1>5. ASSUME NEW q \in Procs, q # p PROVE pc'[q] = pc[q] /\ seen'[q] = seen[q] /\ held'[q] = held[q]
    BY <1>5 DEF Goto, LocalsType
  <1>6. \A q \in Procs : Holding(q) => held[q] \in Jobs
    BY DEF LocalsType, Holding
  <1>7. ASSUME NEW q \in Procs, q # p, Acting(q)', ExactlyRunning(q)'
        PROVE  held[q] # j /\ ExactlyRunning(q) /\ Acting(q)
    <2>1. Acting(q) /\ held[q] \in Jobs
      BY <1>5, <1>6, <1>7 DEF Acting, Holding
    <2>2. held[q] # j
      BY <1>2, <1>5, <1>7, <2>1 DEF ExactlyRunning, Ledger, ProcLedger
    <2> QED
      BY <1>3, <1>5, <1>7, <2>1, <2>2 DEF ExactlyRunning
  <1>8. \A q \in Procs : Holding(q)' => 1 <= seen'[q] /\ seen'[q] <= attempt'[held'[q]]
    BY <1>1, <1>5 DEF Holding, Ledger, ProcLedger, Goto
  <1>9. ASSUME NEW q \in Procs, pc'[q] = "start", ExactlyRunning(q)'
        PROVE  started'[held'[q]][seen'[q]] = 0
    <2>1. CASE q = p
      BY <1>1, <1>2, <2>1 DEF Ledger, RowLedger
    <2>2. CASE q # p
      BY <1>5, <1>7, <1>9, <2>2 DEF Acting, Ledger, ProcLedger
    <2> QED
      BY <2>1, <2>2
  <1>10. ASSUME NEW q \in Procs, Acting(q)', status'[held'[q]] = "leased"
         PROVE  seen'[q] # attempt'[held'[q]]
    <2>1. q # p
      BY <1>1, <1>2, <1>10
    <2>2. Acting(q) /\ held[q] \in Jobs /\ held[q] # j
      BY <1>2, <1>5, <1>6, <1>10, <2>1 DEF Acting, Holding
    <2> QED
      BY <1>3, <1>5, <1>10, <2>1, <2>2, SMTT(30) DEF Ledger, ProcLedger
  <1>11. OneAuthority'
    <2> SUFFICES ASSUME NEW q \in Procs, NEW o \in Procs, q # o, Acting(q)', Acting(o)',
                        held'[q] = held'[o], ExactlyRunning(q)', ExactlyRunning(o)'
                 PROVE  FALSE
      BY SMTT(30) DEF OneAuthority, Acting
    <2>1. q # p /\ o # p
      BY <1>1, <1>5, <1>7
    <2> QED
      BY <1>5, <1>7, <2>1 DEF Ledger, ProcLedger, OneAuthority, Acting
  <1>12. ResultLedger'
    BY DEF Ledger, ResultLedger, Goto, LocalsType
  <1> QED
    BY <1>4, <1>8, <1>9, <1>10, <1>11, <1>12 DEF Ledger, ProcLedger

\* RunningWorkerLeaseRenewal::start: the one process that is exactly running
\* begins the attempt
LEMMA StartKeepsLedger ==
    ASSUME TableType, LocalsType, HistoryType, Ledger, NEW p \in Procs, StartRenewal(p), ExactlyRunning(p)
    PROVE  Ledger'
  <1> DEFINE j == held[p]
             a == seen[p]
  <1>1. /\ pc[p] = "start" /\ Acting(p) /\ Holding(p)
        /\ j \in Jobs
        /\ pc' = [pc EXCEPT ![p] = "execute"]
        /\ UNCHANGED <<status, owner, attempt, list, held, seen, outcome>>
        /\ started' = [started EXCEPT ![j] = [started[j] EXCEPT ![a] = @ + 1]]
    BY SMTT(30) DEF StartRenewal, LocalsType, Acting, Holding, table
  <1>2. status[j] = "running" /\ attempt[j] = a
    BY DEF ExactlyRunning
  <1>3. a \in 1 .. MaxAttempts
    BY <1>1, <1>2, StoreAssumption, SMTT(30) DEF Ledger, ProcLedger, RowLedger, LocalsType, TableType
  <1>4. started[j][a] = 0 /\ started[j] \in [1 .. MaxAttempts -> Nat]
    BY <1>1 DEF Ledger, ProcLedger, HistoryType
  <1> HIDE DEF j, a
  <1>5. started'[j][a] = 1
    BY <1>1, <1>3, <1>4, SMTT(30) DEF HistoryType
  <1>6. ASSUME NEW i \in Jobs, NEW b \in 1 .. MaxAttempts, i # j \/ b # a
        PROVE  started'[i][b] = started[i][b]
    <2>1. CASE i # j
      BY <1>1, <2>1 DEF HistoryType
    <2>2. CASE i = j /\ b # a
      <3>1. started'[j] = [started[j] EXCEPT ![a] = @ + 1]
        BY <1>1 DEF HistoryType
      <3> QED
        BY <1>4, <2>2, <3>1
    <2> QED
      BY <1>6, <2>1, <2>2
  <1>7. RowLedger'
    <2>1. RowLedger /\ UNCHANGED <<status, attempt>>
      BY <1>1 DEF Ledger
    <2>2. ASSUME NEW i \in Jobs, NEW b \in 1 .. MaxAttempts
          PROVE  started'[i][b] <= 1 /\ (b > attempt'[i] => started'[i][b] = 0)
      BY <1>2, <1>3, <1>5, <1>6, <2>1, SMTT(30) DEF RowLedger
    <2>3. ASSUME NEW i \in Jobs, status'[i] = "leased"
          PROVE  attempt'[i] >= 1 /\ started'[i][attempt'[i]] = 0
      <3>1. i # j /\ attempt[i] >= 1 /\ attempt[i] <= MaxAttempts /\ started[i][attempt[i]] = 0
        BY <1>2, <2>1, <2>3 DEF RowLedger
      <3>2. attempt[i] \in 1 .. MaxAttempts
        BY <3>1, StoreAssumption, SMTT(30) DEF TableType
      <3> QED
        BY <1>6, <2>1, <3>1, <3>2
    <2> QED
      BY <2>1, <2>2, <2>3 DEF RowLedger
  <1>8. \A q \in Procs : /\ ExactlyRunning(q)' <=> ExactlyRunning(q)
                         /\ Acting(q)' <=> Acting(q)
                         /\ Holding(q)' <=> Holding(q)
    BY <1>1 DEF ExactlyRunning, Acting, Holding, LocalsType
  <1>9. ASSUME NEW q \in Procs, pc'[q] = "start", ExactlyRunning(q)'
        PROVE  started'[held'[q]][seen'[q]] = 0
    <2>1. q # p /\ pc[q] = "start" /\ ExactlyRunning(q) /\ Acting(q) /\ Holding(q)
      BY <1>1, <1>8, <1>9 DEF LocalsType, Acting, Holding
    <2>2. held[q] # j
      BY <1>1, <2>1 DEF Ledger, ProcLedger, OneAuthority, Acting, j
    <2>3. held[q] \in Jobs /\ started[held[q]][seen[q]] = 0
      BY <2>1 DEF LocalsType, Ledger, ProcLedger
    <2>4. seen[q] \in 1 .. MaxAttempts
      BY <2>1, <2>3, StoreAssumption, SMTT(30) DEF Ledger, ProcLedger, RowLedger, LocalsType, TableType
    <2> QED
      BY <1>1, <1>6, <2>2, <2>3, <2>4, SMTT(30)
  <1>10. OneAuthority'
    <2>1. OneAuthority
      BY SMTT(30) DEF Ledger, ProcLedger
    <2> QED
      BY <1>1, <1>8, <2>1 DEF OneAuthority, Acting
  <1>11. ResultLedger'
    BY <1>1 DEF Ledger, ResultLedger, LocalsType
  <1>12. /\ \A q \in Procs : Holding(q)' => 1 <= seen'[q] /\ seen'[q] <= attempt'[held'[q]]
         /\ \A q \in Procs : Acting(q)' /\ status'[held'[q]] = "leased" => seen'[q] # attempt'[held'[q]]
    BY <1>1, <1>8 DEF Ledger, ProcLedger
  <1> QED
    BY <1>7, <1>9, <1>10, <1>11, <1>12 DEF Ledger, ProcLedger

-----------------------------------------------------------------------------
\* Every step of the store and of its processes keeps the ledger
LEMMA LedgerStep == ASSUME TypeOK, Ledger, [Next]_vars PROVE Ledger'
  <1> SUFFICES ASSUME TableType, RatesType, RuntimeType, LocalsType, HistoryType,
                      Ledger, RowLedger, ProcLedger, ResultLedger, [Next]_vars
               PROVE  Ledger'
    BY DEF TypeOK, Ledger
  <1>1. ASSUME RowsFade, ProcsFade, ResultLedger', UNCHANGED started PROVE Ledger'
    BY <1>1, FadingKeepsLedger DEF Ledger
  <1>2. \A p \in Procs : \A r \in list[p] : r.job \in Jobs
    BY SMTT(30) DEF LocalsType, Row
  <1>3. \A p \in Procs : pc[p] \notin {"idle", "reap", "reconcile", "exhaust", "select"} => held[p] \in Jobs
    BY DEF LocalsType
  <1>4. ASSUME NEW j \in Jobs, enqueue_worker_job(j) PROVE Ledger'
    <2>1. attempt' = attempt
      BY <1>4 DEF enqueue_worker_job, RowLedger, TableType
    <2>2. RowsFade
      <3>1. CASE status[j] = "absent"
        BY <1>4, <2>1, <3>1
        DEF enqueue_worker_job, Quarantine, QuarantinedStatus, RowsFade, Executing, Terminal, TableType
      <3>2. CASE status[j] # "absent"
        BY <1>4, <2>1, <3>2, QuarantineFades DEF enqueue_worker_job
      <3> QED
        BY <3>1, <3>2
    <2> QED
      BY <1>1, <1>4, <2>2, UnchangedProcsFade DEF enqueue_worker_job, locals, history
  <1>5. ASSUME NEW j \in Jobs, cancel_worker_job(j) PROVE Ledger'
    BY <1>1, <1>5, SettleFades, UnchangedProcsFade DEF cancel_worker_job, locals, history, Executing
  <1>6. ASSUME NEW j \in Jobs, TurnEnds(j) PROVE Ledger'
    BY <1>1, <1>6, UnchangedRowsFade, UnchangedProcsFade DEF TurnEnds, locals, history
  <1>7. ASSUME NEW p \in Procs, Begin(p) PROVE Ledger'
    <2> DEFINE rows == RowsWhere(LAMBDA j : ~badPolicy[j] /\ status[j] \in Executing /\ LeaseExpired(p, j))
    <2>1. \A r \in rows : r.status \in Executing
      BY SMTT(30) DEF RowsWhere, RowOf
    <2>2. Scan(p, "reap", rows)
      BY <1>7, SMTT(30) DEF Begin
    <2> HIDE DEF rows
    <2> QED
      BY <1>1, <1>7, <2>1, <2>2, ScanFades, QuarantineFades DEF Begin, history
  <1>8. ASSUME NEW p \in Procs, NEW r \in list[p], reap_expired_worker_job(p, r) PROVE Ledger'
    <2>1. RowsFade
      BY <1>2, <1>8, SettleFades, UnchangedRowsFade DEF reap_expired_worker_job, Executing
    <2> QED
      BY <1>1, <1>8, <2>1, DropFades DEF reap_expired_worker_job, history
  <1>9. ASSUME NEW p \in Procs, NEW r \in list[p], set_runtime_terminal_with_mailbox(p, r) PROVE Ledger'
    <2>1. SettledAs(turn[r.job]) \notin Executing /\ SettledAs(turn[r.job]) # "absent"
      BY <1>9 DEF set_runtime_terminal_with_mailbox, Settles, SettledAs, Executing
    <2>2. RowsFade
      BY <1>2, <1>9, <2>1, SettleFades DEF set_runtime_terminal_with_mailbox
    <2> QED
      BY <1>1, <1>9, <2>2, DropFades DEF set_runtime_terminal_with_mailbox, history
  <1>10. ASSUME NEW p \in Procs, NEW r \in list[p], terminalize_exhausted_pending_job(p, r) PROVE Ledger'
    <2>1. RowsFade
      BY <1>2, <1>10, SettleFades DEF terminalize_exhausted_pending_job, Executing
    <2> QED
      BY <1>1, <1>10, <2>1, DropFades DEF terminalize_exhausted_pending_job, history
  <1>11. ASSUME NEW p \in Procs, NEW r \in list[p], ReconcileFails(p, r) PROVE Ledger'
    BY <1>1, <1>11, UnchangedRowsFade, LeaveFades DEF ReconcileFails, history
  <1>12. ASSUME NEW p \in Procs, ReapStaleReturns(p) \/ NoWork(p) PROVE Ledger'
    BY <1>1, <1>12, UnchangedRowsFade, LeaveFades DEF ReapStaleReturns, NoWork, history
  <1>13. ASSUME NEW p \in Procs, Crash(p) PROVE Ledger'
    BY <1>1, <1>13, UnchangedRowsFade, LeaveFades DEF Crash
  <1>14. ASSUME NEW p \in Procs, NEW r \in list[p], SelectRow(p, r) PROVE Ledger'
    <2>1. ProcsFade /\ ResultLedger'
      <3>1. CASE PoolFull(r.job) \/ RateBlocked(p, r.job)
        BY <1>14, <3>1, DropFades DEF SelectRow
      <3>2. CASE ~(PoolFull(r.job) \/ RateBlocked(p, r.job))
        BY <1>14, <3>2, SMTT(30) DEF SelectRow, LocalsType, ResultLedger, ProcsFade, Holding, Acting
      <3> QED
        BY <3>1, <3>2
    <2> QED
      BY <1>1, <1>14, <2>1, UnchangedRowsFade DEF SelectRow, history
  <1>15. ASSUME NEW p \in Procs, ReapDone(p) \/ ReconcileDone(p) \/ ExhaustDone(p) PROVE Ledger'
    <2>1. PICK label \in {"reconcile", "exhaust", "select"} : \E rows : Scan(p, label, rows)
      BY <1>15 DEF ReapDone, ReconcileDone, ExhaustDone
    <2>2. UNCHANGED <<table, history>>
      BY <1>15 DEF ReapDone, ReconcileDone, ExhaustDone
    <2> QED
      BY <1>1, <2>1, <2>2, UnchangedRowsFade, ScanFades DEF history
  <1>16. ASSUME NEW p \in Procs, lease_job(p) PROVE Ledger'
    <2>1. CASE status[held[p]] \in Leasable /\ attempt[held[p]] < MaxAttempts
      BY <1>16, <2>1, LeaseKeepsLedger
    <2>2. CASE ~(status[held[p]] \in Leasable /\ attempt[held[p]] < MaxAttempts)
      <3>1. ProcsFade /\ ResultLedger'
        BY <1>16, <2>2 DEF lease_job, LocalsType, ResultLedger, ProcsFade, Holding, Acting
      <3> QED
        BY <1>1, <1>16, <2>2, <3>1, UnchangedRowsFade DEF lease_job, history
    <2> QED
      BY <2>1, <2>2
  <1>17. ASSUME NEW p \in Procs, record_rate_lease(p) \/ CronAllows(p) PROVE Ledger'
    BY <1>1, <1>17, UnchangedRowsFade, GotoFades DEF record_rate_lease, CronAllows, history
  <1>18. ASSUME NEW p \in Procs, ReadBack(p) PROVE Ledger'
    BY <1>18, ReadBackKeepsLedger
  <1>19. ASSUME NEW p \in Procs, CronBlocks(p) PROVE Ledger'
    <2>1. RowsFade
      BY <1>3, <1>19, SettleFades DEF CronBlocks, Executing
    <2> QED
      BY <1>1, <1>19, <2>1, LeaveFades DEF CronBlocks, history
  <1>20. ASSUME NEW p \in Procs, set_job_running(p) PROVE Ledger'
    <2>1. CASE Leave(p) /\ UNCHANGED table
      BY <1>1, <1>20, <2>1, UnchangedRowsFade, LeaveFades, SMTT(30) DEF set_job_running, history
    <2>2. CASE ~(Leave(p) /\ UNCHANGED table)
      BY <1>20, <2>2, SetRunningKeepsLedger DEF set_job_running, history
    <2> QED
      BY <2>1, <2>2
  <1>21. ASSUME NEW p \in Procs, StartRenewal(p) PROVE Ledger'
    <2>1. CASE ExactlyRunning(p)
      BY <1>21, <2>1, StartKeepsLedger
    <2>2. CASE ~ExactlyRunning(p)
      BY <1>1, <1>21, <2>2, UnchangedRowsFade, LeaveFades DEF StartRenewal
    <2> QED
      BY <2>1, <2>2
  <1>22. ASSUME NEW p \in Procs, Renew(p) \/ RenewGivesUp(p) PROVE Ledger'
    <2>1. RowsFade
      BY <1>22 DEF Renew, RenewGivesUp, RowsFade, table
    <2> QED
      BY <1>1, <1>22, <2>1, UnchangedProcsFade DEF Renew, RenewGivesUp, history
  <1>23. \A p \in Procs : Failed(p) \in {"failed-retryable", "failed-terminal"}
    BY DEF Failed
  <1>24. ASSUME NEW p \in Procs,
                run_deterministic_shell_job(p) \/ LlmPayloadRejected(p) \/ WatchdogWakes(p)
                    \/ queue_llm_worker_turn(p)
         PROVE  Ledger'
    <2>1. /\ pc[p] = "execute"
          /\ \E o \in {"succeeded", "failed-terminal", "failed-retryable", "runtime-queued", "pending"} :
                 Yield(p, o)
      BY <1>23, <1>24
      DEF run_deterministic_shell_job, LlmPayloadRejected, WatchdogWakes, queue_llm_worker_turn
    <2>2. UNCHANGED <<table, history>>
      BY <1>24 DEF run_deterministic_shell_job, LlmPayloadRejected, WatchdogWakes, queue_llm_worker_turn
    <2> QED
      BY <1>1, <2>1, <2>2, UnchangedRowsFade, YieldFades DEF history
  <1>25. ASSUME NEW p \in Procs, WatchdogReschedules(p) PROVE Ledger'
    <2>1. RowsFade
      BY <1>3, <1>25, SettleFades, UnchangedRowsFade DEF WatchdogReschedules, Executing
    <2>2. ProcsFade /\ ResultLedger'
      BY <1>23, <1>25, YieldFades DEF WatchdogReschedules
    <2> QED
      BY <1>1, <1>25, <2>1, <2>2 DEF WatchdogReschedules, history
  <1>26. ASSUME NEW p \in Procs, persist_owned_execution_result(p) PROVE Ledger'
    <2>1. Result(p) \notin Executing /\ Result(p) # "absent"
      BY <1>26 DEF persist_owned_execution_result, Result, ResultLedger, Executing
    <2>2. RowsFade
      BY <1>3, <1>26, <2>1, SettleFades, UnchangedRowsFade DEF persist_owned_execution_result, Executing
    <2> QED
      BY <1>1, <1>26, <2>2, LeaveFades DEF persist_owned_execution_result, history
  <1>27. CASE Tick
    <2>1. RowsFade
      BY <1>27 DEF Tick, RowsFade
    <2> QED
      BY <1>1, <1>27, <2>1, UnchangedProcsFade DEF Tick, history
  <1>28. CASE UNCHANGED vars
    BY <1>1, <1>28, UnchangedRowsFade, UnchangedProcsFade DEF vars, locals, history
  <1> QED
    BY <1>4, <1>5, <1>6, <1>7, <1>8, <1>9, <1>10, <1>11, <1>12, <1>13, <1>14, <1>15, <1>16, <1>17,
       <1>18, <1>19, <1>20, <1>21, <1>22, <1>24, <1>25, <1>26, <1>27, <1>28
    DEF Next, Step

LEMMA LedgerInvariant == Spec => []Ledger
  <1>1. Init => Ledger
    BY StoreAssumption, SMTT(30)
    DEF Init, Ledger, RowLedger, ProcLedger, ResultLedger, OneAuthority, ExactlyRunning, Holding, Acting
  <1> QED
    BY <1>1, LedgerStep, TypeCorrect, PTL DEF Spec

\* No attempt of a job executes twice and none beyond max_attempts begins
\* (lease_next_job, set_job_running, reap_expired_worker_jobs).
THEOREM AttemptsOnce == Spec => []AttemptsExecuteOnce
  <1>1. Ledger => AttemptsExecuteOnce
    BY DEF Ledger, RowLedger, AttemptsExecuteOnce
  <1> QED
    BY <1>1, LedgerInvariant, PTL

\* At most one process at a time may renew the lease of a job or persist its
\* result, even when every process has the same worker id.
THEOREM ExclusiveAuthority == Spec => []OneAuthority
  <1>1. Ledger => OneAuthority
    BY DEF Ledger, ProcLedger
  <1> QED
    BY <1>1, LedgerInvariant, PTL

-----------------------------------------------------------------------------
(* The lease columns *)

\* an UPDATE that settles a row keeps the columns in agreement
LEMMA SettleKeepsColumns ==
    ASSUME TableType, LeaseColumnsAgree, NEW j \in Jobs, NEW s, s \notin Executing, NEW d, Settle(j, s, d)
    PROVE  LeaseColumnsAgree'
  BY DEF TableType, LeaseColumnsAgree, Settle

LEMMA UnchangedColumns ==
    ASSUME LeaseColumnsAgree, UNCHANGED <<status, owner, leaseLeft>> PROVE LeaseColumnsAgree'
  BY DEF LeaseColumnsAgree

LEMMA ColumnsStep == ASSUME TypeOK, Ledger, LeaseColumnsAgree, [Next]_vars PROVE LeaseColumnsAgree'
  <1> SUFFICES ASSUME TableType, RuntimeType, LocalsType, ResultLedger, LeaseColumnsAgree, [Next]_vars
               PROVE  LeaseColumnsAgree'
    BY DEF TypeOK, Ledger
  <1>1. \A p \in Procs : \A r \in list[p] : r.job \in Jobs
    BY SMTT(30) DEF LocalsType, Row
  <1>2. \A p \in Procs : pc[p] \notin {"idle", "reap", "reconcile", "exhaust", "select"} => held[p] \in Jobs
    BY DEF LocalsType
  <1>3. ASSUME NEW j \in Jobs, enqueue_worker_job(j) PROVE LeaseColumnsAgree'
    BY <1>3
    DEF enqueue_worker_job, Quarantine, QuarantinedStatus, LeaseColumnsAgree, Executing, Terminal, TableType
  <1>4. ASSUME NEW j \in Jobs, cancel_worker_job(j) PROVE LeaseColumnsAgree'
    BY <1>4, SettleKeepsColumns DEF cancel_worker_job, Executing
  <1>5. ASSUME NEW p \in Procs, Begin(p) PROVE LeaseColumnsAgree'
    BY <1>5 DEF Begin, Quarantine, QuarantinedStatus, LeaseColumnsAgree, Executing, Terminal, TableType
  <1>6. ASSUME NEW p \in Procs, NEW r \in list[p], reap_expired_worker_job(p, r) PROVE LeaseColumnsAgree'
    BY <1>1, <1>6, SettleKeepsColumns, UnchangedColumns DEF reap_expired_worker_job, Executing, table
  <1>7. ASSUME NEW p \in Procs, NEW r \in list[p], set_runtime_terminal_with_mailbox(p, r)
        PROVE  LeaseColumnsAgree'
    <2>1. SettledAs(turn[r.job]) \notin Executing
      BY <1>7 DEF set_runtime_terminal_with_mailbox, Settles, SettledAs, Executing
    <2> QED
      BY <1>1, <1>7, <2>1, SettleKeepsColumns DEF set_runtime_terminal_with_mailbox
  <1>8. ASSUME NEW p \in Procs, NEW r \in list[p], terminalize_exhausted_pending_job(p, r)
        PROVE  LeaseColumnsAgree'
    BY <1>1, <1>8, SettleKeepsColumns DEF terminalize_exhausted_pending_job, Executing
  <1>9. ASSUME NEW p \in Procs, lease_job(p) PROVE LeaseColumnsAgree'
    <2>1. held[p] \in Jobs
      BY <1>2, <1>9 DEF lease_job
    <2>2. WorkerId[p] # None /\ LeaseMs - lag[p] # None
      <3>1. LeaseMs - lag[p] \in Int
        BY StoreAssumption, SMTT(30) DEF LocalsType
      <3> QED
        BY <3>1, StoreAssumption, SMTT(30)
    <2>3. CASE status[held[p]] \in Leasable /\ attempt[held[p]] < MaxAttempts
      BY <1>9, <2>1, <2>2, <2>3 DEF lease_job, LeaseColumnsAgree, TableType, Executing
    <2>4. CASE ~(status[held[p]] \in Leasable /\ attempt[held[p]] < MaxAttempts)
      BY <1>9, <2>4, UnchangedColumns DEF lease_job, table
    <2> QED
      BY <2>3, <2>4
  <1>10. ASSUME NEW p \in Procs, CronBlocks(p) PROVE LeaseColumnsAgree'
    BY <1>2, <1>10, SettleKeepsColumns DEF CronBlocks, Executing
  <1>11. ASSUME NEW p \in Procs, set_job_running(p) PROVE LeaseColumnsAgree'
    BY <1>2, <1>11, UnchangedColumns DEF set_job_running, LeaseColumnsAgree, TableType, Executing, table
  <1>12. ASSUME NEW p \in Procs, Renew(p) PROVE LeaseColumnsAgree'
    <2>1. held[p] \in Jobs
      BY <1>2, <1>12 DEF Renew, LocalsType
    <2>2. LeaseMs # None
      BY StoreAssumption, SMTT(30)
    <2>3. CASE ExactlyRunning(p)
      BY <1>12, <2>1, <2>2, <2>3, SMTT(30) DEF Renew, ExactlyRunning, LeaseColumnsAgree, TableType, Executing
    <2>4. CASE ~ExactlyRunning(p)
      BY <1>12, <2>4, UnchangedColumns DEF Renew
    <2> QED
      BY <2>3, <2>4
  <1>13. ASSUME NEW p \in Procs, WatchdogReschedules(p) PROVE LeaseColumnsAgree'
    BY <1>2, <1>13, SettleKeepsColumns, UnchangedColumns DEF WatchdogReschedules, Executing, table
  <1>14. ASSUME NEW p \in Procs, persist_owned_execution_result(p) PROVE LeaseColumnsAgree'
    <2>1. Result(p) \notin Executing
      BY <1>14 DEF persist_owned_execution_result, Result, ResultLedger, Executing
    <2> QED
      BY <1>2, <1>14, <2>1, SettleKeepsColumns, UnchangedColumns
      DEF persist_owned_execution_result, Executing, table
  <1>15. CASE Tick
    <2>1. ASSUME NEW j \in Jobs, leaseLeft[j] # None
          PROVE  Floor(leaseLeft[j] - 1, -(MaxLag + 1)) # None
      <3>1. \A n \in Int, low \in Int : Floor(n, low) \in Int
        BY DEF Floor
      <3>2. -(MaxLag + 1) \in Int /\ None \notin Int
        BY StoreAssumption, SMTT(30)
      <3>3. leaseLeft[j] - 1 \in Int
        BY <2>1, SMTT(30) DEF TableType
      <3>4. Floor(leaseLeft[j] - 1, -(MaxLag + 1)) \in Int
        BY <3>1, <3>2, <3>3
      <3> QED
        BY <3>2, <3>4
    <2> QED
      BY <1>15, <2>1 DEF Tick, LeaseColumnsAgree
  <1>16. ASSUME NEW p \in Procs,
                \/ ReapStaleReturns(p) \/ ReapDone(p) \/ ReconcileDone(p) \/ ExhaustDone(p) \/ NoWork(p)
                \/ record_rate_lease(p) \/ ReadBack(p) \/ CronAllows(p) \/ StartRenewal(p)
                \/ run_deterministic_shell_job(p) \/ queue_llm_worker_turn(p) \/ LlmPayloadRejected(p)
                \/ WatchdogWakes(p) \/ RenewGivesUp(p) \/ Crash(p)
                \/ \E r \in list[p] : ReconcileFails(p, r) \/ SelectRow(p, r)
         PROVE  LeaseColumnsAgree'
    <2>1. UNCHANGED table
      BY <1>16, SMTT(30)
      DEF ReapStaleReturns, ReapDone, ReconcileDone, ExhaustDone, NoWork, record_rate_lease, ReadBack,
          CronAllows, StartRenewal, run_deterministic_shell_job, queue_llm_worker_turn,
          LlmPayloadRejected, WatchdogWakes, RenewGivesUp, Crash, ReconcileFails, SelectRow
    <2> QED
      BY <2>1, UnchangedColumns DEF table
  <1>17. ASSUME NEW j \in Jobs, TurnEnds(j) PROVE LeaseColumnsAgree'
    BY <1>17, UnchangedColumns DEF TurnEnds, table
  <1>18. CASE UNCHANGED vars
    BY <1>18, UnchangedColumns DEF vars, table
  <1> QED
    BY <1>3, <1>4, <1>5, <1>6, <1>7, <1>8, <1>9, <1>10, <1>11, <1>12, <1>13, <1>14, <1>15, <1>16,
       <1>17, <1>18
    DEF Next, Step

\* A row is leased or running exactly when it has an owner and an expiry, so no
\* row is ever lost to the reaper (jobs_with_expired_leases).
THEOREM LeaseColumns == Spec => []LeaseColumnsAgree
  <1>1. Init => LeaseColumnsAgree
    BY SMTT(30) DEF Init, LeaseColumnsAgree, Executing
  <1> QED
    BY <1>1, ColumnsStep, TypeCorrect, LedgerInvariant, PTL DEF Spec

-----------------------------------------------------------------------------
(* How a step moves the rows *)

\* lease_next_job takes the row of the job the process holds
Leasing(p) == lease_job(p) /\ status[held[p]] \in Leasable /\ attempt[held[p]] < MaxAttempts
Leased(j) == \E p \in Procs : Leasing(p) /\ held[p] = j

\* the reconciliation settles the job by its completed turn
Completed(j) ==
    \E p \in Procs : \E r \in list[p] :
        set_runtime_terminal_with_mailbox(p, r) /\ r.job = j /\ turn[j] = "completed"

\* an llm job does not succeed by its own result
Concluding ==
    \A p \in Procs : pc[p] = "finish" /\ Kind[held[p]] = "llm" => outcome[p] # "succeeded"

\* a terminal row stays terminal, a row is executed only after a lease, and an
\* llm job succeeds only by its turn
RowMoves ==
    \A j \in Jobs :
        /\ status[j] \in Terminal => status'[j] \in Terminal
        /\ status'[j] \in Executing => status[j] \in Executing \/ Leased(j)
        /\ status'[j] = "succeeded" /\ Kind[j] = "llm" => status[j] = "succeeded" \/ Completed(j)

LEMMA SettleMoves ==
    ASSUME TableType, NEW j \in Jobs, NEW s, NEW d, Settle(j, s, d), s \notin Executing,
           s \in Terminal \/ status[j] \notin Terminal,
           s # "succeeded" \/ Kind[j] # "llm" \/ Completed(j)
    PROVE  RowMoves
  <1>1. \A i \in Jobs : i # j => status'[i] = status[i]
    BY DEF Settle, TableType
  <1>2. status'[j] = s
    BY DEF Settle, TableType
  <1> SUFFICES ASSUME NEW i \in Jobs
               PROVE  /\ status[i] \in Terminal => status'[i] \in Terminal
                      /\ status'[i] \in Executing => status[i] \in Executing \/ Leased(i)
                      /\ status'[i] = "succeeded" /\ Kind[i] = "llm" => status[i] = "succeeded" \/ Completed(i)
    BY DEF RowMoves
  <1>3. CASE i = j
    BY <1>2, <1>3
  <1>4. CASE i # j
    BY <1>1, <1>4
  <1> QED
    BY <1>3, <1>4

\* the statuses the UPDATE statements give
LEMMA GivenStatus ==
    /\ \A s \in {"canceled", "failed-terminal", "expired"} : s \in Terminal /\ s \notin Executing /\ s # "succeeded"
    /\ "pending" \notin Executing /\ "pending" # "succeeded"
    /\ \A s \in Executing : s \notin Terminal
    /\ "running" \in Executing
  BY DEF Terminal, Executing

LEMMA UnchangedMoves == ASSUME UNCHANGED status PROVE RowMoves
  BY DEF RowMoves

LEMMA QuarantineMoves ==
    ASSUME TableType, \A j \in Jobs : status'[j] \in {status[j], QuarantinedStatus[j], "pending"},
           \A j \in Jobs : status'[j] = "pending" => status[j] \in {"absent", "pending"}
    PROVE  RowMoves
  <1> SUFFICES ASSUME NEW j \in Jobs
               PROVE  /\ status[j] \in Terminal => status'[j] \in Terminal
                      /\ status'[j] \in Executing => status[j] \in Executing
                      /\ status'[j] = "succeeded" => status[j] = "succeeded"
    BY DEF RowMoves
  <1>1. QuarantinedStatus[j] \in {status[j], "failed-terminal"}
    BY DEF QuarantinedStatus
  <1> QED
    BY <1>1 DEF Terminal, Executing

LEMMA RowStep == ASSUME TypeOK, Ledger, Concluding, [Next]_vars PROVE RowMoves
  <1> SUFFICES ASSUME TableType, LocalsType, ResultLedger, Concluding, [Next]_vars PROVE RowMoves
    BY DEF TypeOK, Ledger
  <1>1. \A p \in Procs : \A r \in list[p] : r.job \in Jobs
    BY SMTT(30) DEF LocalsType, Row
  <1>2. \A p \in Procs : pc[p] \notin {"idle", "reap", "reconcile", "exhaust", "select"} => held[p] \in Jobs
    BY DEF LocalsType
  <1>3. ASSUME NEW j \in Jobs, enqueue_worker_job(j) PROVE RowMoves
    <2>1. \A i \in Jobs : QuarantinedStatus[i] \in {status[i], "failed-terminal"}
      BY DEF QuarantinedStatus
    <2>2. \A i \in Jobs : i # j \/ status[j] # "absent" => status'[i] = QuarantinedStatus[i]
      BY <1>3 DEF enqueue_worker_job, QuarantinedStatus
    <2>3. status[j] = "absent" => status'[j] = "pending"
      BY <1>3 DEF enqueue_worker_job, QuarantinedStatus
    <2> QED
      BY <2>1, <2>2, <2>3, QuarantineMoves
  <1>4. ASSUME NEW j \in Jobs, cancel_worker_job(j) PROVE RowMoves
    BY <1>4, SettleMoves, GivenStatus DEF cancel_worker_job
  <1>5. ASSUME NEW p \in Procs, Begin(p) PROVE RowMoves
    <2>1. \A i \in Jobs : QuarantinedStatus[i] \in {status[i], "failed-terminal"}
      BY DEF QuarantinedStatus
    <2>2. status' = QuarantinedStatus
      BY <1>5 DEF Begin
    <2> QED
      BY <2>1, <2>2, QuarantineMoves
  <1>6. ASSUME NEW p \in Procs, NEW r \in list[p], reap_expired_worker_job(p, r) PROVE RowMoves
    <2>1. r.job \in Jobs /\ r.status \in Executing
      BY <1>1, <1>6 DEF reap_expired_worker_job, ResultLedger
    <2>2. \/ UNCHANGED status
          \/ /\ status[r.job] = r.status
             /\ \E d : Settle(r.job, "pending", d) \/ Settle(r.job, "expired", d)
      BY <1>6 DEF reap_expired_worker_job, table
    <2>3. ASSUME NEW d, status[r.job] = r.status, Settle(r.job, "pending", d) \/ Settle(r.job, "expired", d)
          PROVE  RowMoves
      <3>1. status[r.job] \notin Terminal
        BY <2>1, <2>3, GivenStatus
      <3> QED
        BY <2>1, <2>3, <3>1, SettleMoves, GivenStatus
    <2> QED
      BY <2>2, <2>3, UnchangedMoves
  <1>7. ASSUME NEW p \in Procs, NEW r \in list[p], set_runtime_terminal_with_mailbox(p, r) PROVE RowMoves
    <2>1. /\ r.job \in Jobs /\ turn[r.job] \in Settles
          /\ Settle(r.job, SettledAs(turn[r.job]), delay[r.job])
      BY <1>1, <1>7 DEF set_runtime_terminal_with_mailbox
    <2>2. /\ SettledAs(turn[r.job]) \in Terminal
          /\ SettledAs(turn[r.job]) = "succeeded" => turn[r.job] = "completed"
      BY <2>1 DEF SettledAs, Settles, Terminal
    <2>3. SettledAs(turn[r.job]) # "succeeded" \/ Completed(r.job)
      BY <1>7, <2>2 DEF Completed
    <2> QED
      BY <2>1, <2>2, <2>3, SettleMoves DEF Terminal, Executing
  <1>8. ASSUME NEW p \in Procs, NEW r \in list[p], terminalize_exhausted_pending_job(p, r) PROVE RowMoves
    BY <1>1, <1>8, SettleMoves, GivenStatus DEF terminalize_exhausted_pending_job
  <1>9. ASSUME NEW p \in Procs, lease_job(p) PROVE RowMoves
    <2>1. held[p] \in Jobs
      BY <1>2, <1>9 DEF lease_job
    <2>2. CASE Leasing(p)
      <3>1. status' = [status EXCEPT ![held[p]] = "leased"] /\ status[held[p]] \in Leasable
        BY <2>2 DEF Leasing, lease_job
      <3>2. /\ status'[held[p]] = "leased" /\ status[held[p]] \notin Terminal /\ Leased(held[p])
            /\ \A i \in Jobs : i # held[p] => status'[i] = status[i]
        BY <2>1, <2>2, <3>1 DEF TableType, Leased, Leasable, Terminal
      <3> QED
        BY <3>2 DEF RowMoves
    <2>3. CASE ~Leasing(p)
      BY <1>9, <2>3, UnchangedMoves DEF Leasing, lease_job, table
    <2> QED
      BY <2>2, <2>3
  <1>10. ASSUME NEW p \in Procs, CronBlocks(p) PROVE RowMoves
    BY <1>2, <1>10, SettleMoves, GivenStatus DEF CronBlocks
  <1>11. ASSUME NEW p \in Procs, set_job_running(p) PROVE RowMoves
    <2>1. held[p] \in Jobs
      BY <1>2, <1>11 DEF set_job_running
    <2>2. \/ UNCHANGED status
          \/ status[held[p]] = "leased" /\ status' = [status EXCEPT ![held[p]] = "running"]
      BY <1>11 DEF set_job_running, table
    <2>3. CASE status[held[p]] = "leased" /\ status' = [status EXCEPT ![held[p]] = "running"]
      <3>1. /\ status'[held[p]] = "running" /\ status[held[p]] \in Executing /\ status[held[p]] \notin Terminal
            /\ \A i \in Jobs : i # held[p] => status'[i] = status[i]
        BY <2>1, <2>3 DEF TableType, Executing, Terminal
      <3> QED
        BY <3>1 DEF RowMoves
    <2> QED
      BY <2>2, <2>3, UnchangedMoves
  <1>12. ASSUME NEW p \in Procs, WatchdogReschedules(p) PROVE RowMoves
    <2>1. held[p] \in Jobs
      BY <1>2, <1>12 DEF WatchdogReschedules
    <2>2. UNCHANGED status \/ (status[held[p]] = "running" /\ \E d : Settle(held[p], "pending", d))
      BY <1>12 DEF WatchdogReschedules, ExactlyRunning, table
    <2>3. ASSUME NEW d, status[held[p]] = "running", Settle(held[p], "pending", d) PROVE RowMoves
      BY <2>1, <2>3, SettleMoves, GivenStatus
    <2> QED
      BY <2>2, <2>3, UnchangedMoves
  <1>13. ASSUME NEW p \in Procs, persist_owned_execution_result(p) PROVE RowMoves
    <2>1. held[p] \in Jobs /\ pc[p] = "finish"
      BY <1>2, <1>13 DEF persist_owned_execution_result
    <2>2. Result(p) \notin Executing /\ (Result(p) # "succeeded" \/ Kind[held[p]] # "llm")
      BY <2>1 DEF Result, ResultLedger, Concluding, Executing
    <2>3. \/ UNCHANGED status
          \/ /\ status[held[p]] = "running"
             /\ \E d : Settle(held[p], "pending", d) \/ Settle(held[p], Result(p), d)
      BY <1>13 DEF persist_owned_execution_result, ExactlyRunning, table
    <2>4. ASSUME NEW d, status[held[p]] = "running",
                 Settle(held[p], "pending", d) \/ Settle(held[p], Result(p), d)
          PROVE  RowMoves
      BY <2>1, <2>2, <2>4, SettleMoves, GivenStatus
    <2> QED
      BY <2>3, <2>4, UnchangedMoves
  <1>14. ASSUME NEW p \in Procs,
                \/ ReapStaleReturns(p) \/ ReapDone(p) \/ ReconcileDone(p) \/ ExhaustDone(p) \/ NoWork(p)
                \/ record_rate_lease(p) \/ ReadBack(p) \/ CronAllows(p) \/ StartRenewal(p)
                \/ \E r \in list[p] : ReconcileFails(p, r) \/ SelectRow(p, r)
         PROVE  RowMoves
    <2>1. UNCHANGED status
      BY <1>14
      DEF ReapStaleReturns, ReapDone, ReconcileDone, ExhaustDone, NoWork, record_rate_lease, ReadBack,
          CronAllows, StartRenewal, ReconcileFails, SelectRow, table
    <2> QED
      BY <2>1, UnchangedMoves
  <1>17. ASSUME NEW p \in Procs,
                \/ run_deterministic_shell_job(p) \/ queue_llm_worker_turn(p) \/ LlmPayloadRejected(p)
                \/ WatchdogWakes(p) \/ Renew(p) \/ RenewGivesUp(p) \/ Crash(p)
         PROVE  RowMoves
    <2>1. UNCHANGED status
      BY <1>17
      DEF run_deterministic_shell_job, queue_llm_worker_turn, LlmPayloadRejected, WatchdogWakes, Renew,
          RenewGivesUp, Crash, table
    <2> QED
      BY <2>1, UnchangedMoves
  <1>15. ASSUME NEW j \in Jobs, TurnEnds(j) PROVE RowMoves
    BY <1>15, UnchangedMoves DEF TurnEnds, table
  <1>16. CASE Tick \/ UNCHANGED vars
    BY <1>16, UnchangedMoves DEF Tick, vars, table
  <1> QED
    BY <1>3, <1>4, <1>5, <1>6, <1>7, <1>8, <1>9, <1>10, <1>11, <1>12, <1>13, <1>14, <1>15, <1>16,
       <1>17
    DEF Next, Step

-----------------------------------------------------------------------------
(* How a step moves the calls *)

\* no call comes to lease a job, to owe a rate lease or to have a result
Calm ==
    \A p \in Procs :
        pc'[p] \in {"lease", "rate", "finish"} =>
            pc'[p] = pc[p] /\ held'[p] = held[p] /\ outcome'[p] = outcome[p]

\* capacity_blocker finds nothing against the candidate
Passes(p, r) == SelectRow(p, r) /\ ~PoolFull(r.job) /\ ~RateBlocked(p, r.job)

\* execute_worker_job returns a result, an llm job never that it succeeded
Yields(p) ==
    /\ pc[p] = "execute"
    /\ rates' = rates
    /\ \E o : Yield(p, o) /\ (o = "succeeded" => Kind[held[p]] # "llm")

CallMoves ==
    \/ Calm
    \/ \E p \in Procs : \E r \in list[p] : Passes(p, r)
    \/ \E p \in Procs : Leasing(p) \/ Yields(p)

LEMMA LeaveCalm == ASSUME LocalsType, NEW p \in Procs, Leave(p) PROVE Calm
  BY DEF LocalsType, Leave, Calm

LEMMA ScanCalm ==
    ASSUME LocalsType, NEW p \in Procs, NEW rows, NEW label \in {"reap", "reconcile", "exhaust", "select"},
           Scan(p, label, rows)
    PROVE  Calm
  BY DEF LocalsType, Scan, Calm

LEMMA GotoCalm ==
    ASSUME LocalsType, NEW p \in Procs, NEW label \in {"readback", "cron", "set-running", "start", "execute"},
           pc' = [pc EXCEPT ![p] = label], UNCHANGED <<held, outcome>>
    PROVE  Calm
  BY DEF LocalsType, Calm

LEMMA UnchangedCalm == ASSUME UNCHANGED <<pc, held, outcome>> PROVE Calm
  BY DEF Calm

LEMMA CallStep == ASSUME LocalsType, [Next]_vars PROVE CallMoves
  <1>1. ASSUME NEW j \in Jobs, enqueue_worker_job(j) \/ cancel_worker_job(j) \/ TurnEnds(j) PROVE Calm
    BY <1>1, UnchangedCalm DEF enqueue_worker_job, cancel_worker_job, TurnEnds, locals
  <1>2. ASSUME NEW p \in Procs,
               Begin(p) \/ ReapDone(p) \/ ReconcileDone(p) \/ ExhaustDone(p)
        PROVE  Calm
    <2>1. \E label \in {"reap", "reconcile", "exhaust", "select"} : \E rows : Scan(p, label, rows)
      BY <1>2 DEF Begin, ReapDone, ReconcileDone, ExhaustDone
    <2> QED
      BY <2>1, ScanCalm
  <1>3. ASSUME NEW p \in Procs, NEW r \in list[p],
               \/ reap_expired_worker_job(p, r) \/ set_runtime_terminal_with_mailbox(p, r)
               \/ terminalize_exhausted_pending_job(p, r)
        PROVE  Calm
    BY <1>3, UnchangedCalm
    DEF reap_expired_worker_job, set_runtime_terminal_with_mailbox, terminalize_exhausted_pending_job, Drop
  <1>4. ASSUME NEW p \in Procs,
               \/ ReapStaleReturns(p) \/ NoWork(p) \/ CronBlocks(p) \/ Crash(p)
               \/ persist_owned_execution_result(p)
               \/ \E r \in list[p] : ReconcileFails(p, r)
        PROVE  Calm
    <2>1. Leave(p)
      BY <1>4 DEF ReapStaleReturns, NoWork, CronBlocks, Crash, persist_owned_execution_result, ReconcileFails
    <2> QED
      BY <2>1, LeaveCalm
  <1>5. ASSUME NEW p \in Procs, NEW r \in list[p], SelectRow(p, r) PROVE CallMoves
    <2>1. CASE PoolFull(r.job) \/ RateBlocked(p, r.job)
      BY <1>5, <2>1, UnchangedCalm DEF SelectRow, Drop, CallMoves
    <2>2. CASE ~PoolFull(r.job) /\ ~RateBlocked(p, r.job)
      BY <1>5, <2>2 DEF Passes, CallMoves
    <2> QED
      BY <2>1, <2>2
  <1>6. ASSUME NEW p \in Procs, lease_job(p) PROVE CallMoves
    <2>1. CASE Leasing(p)
      BY <2>1 DEF CallMoves
    <2>2. CASE ~Leasing(p)
      <3>1. pc' = [pc EXCEPT ![p] = "select"] /\ held' = [held EXCEPT ![p] = None] /\ UNCHANGED outcome
        BY <1>6, <2>2 DEF Leasing, lease_job
      <3>2. Calm
        BY <3>1 DEF LocalsType, Calm
      <3> QED
        BY <3>2 DEF CallMoves
    <2> QED
      BY <2>1, <2>2
  <1>7. ASSUME NEW p \in Procs, record_rate_lease(p) \/ ReadBack(p) \/ CronAllows(p) PROVE Calm
    <2>1. /\ \E label \in {"readback", "cron", "set-running"} : pc' = [pc EXCEPT ![p] = label]
          /\ UNCHANGED <<held, outcome>>
      BY <1>7 DEF record_rate_lease, ReadBack, CronAllows, Goto
    <2> QED
      BY <2>1, GotoCalm
  <1>8. ASSUME NEW p \in Procs, set_job_running(p) \/ StartRenewal(p) PROVE Calm
    <2>1. \/ Leave(p)
          \/ /\ \E label \in {"start", "execute"} : pc' = [pc EXCEPT ![p] = label]
             /\ UNCHANGED <<held, outcome>>
      BY <1>8 DEF set_job_running, StartRenewal, Goto
    <2> QED
      BY <2>1, GotoCalm, LeaveCalm
  <1>9. ASSUME NEW p \in Procs, Renew(p) \/ RenewGivesUp(p) PROVE Calm
    BY <1>9, UnchangedCalm DEF Renew, RenewGivesUp
  <1>10. ASSUME NEW p \in Procs,
                \/ run_deterministic_shell_job(p) \/ queue_llm_worker_turn(p) \/ LlmPayloadRejected(p)
                \/ WatchdogWakes(p) \/ WatchdogReschedules(p)
         PROVE  Yields(p)
    <2>1. Failed(p) # "succeeded"
      BY DEF Failed
    <2>2. Kind[held[p]] \in {"shell", "adapter", "watchdog"} => Kind[held[p]] # "llm"
      OBVIOUS
    <2>3. CASE run_deterministic_shell_job(p) \/ WatchdogWakes(p)
      BY <2>1, <2>2, <2>3 DEF run_deterministic_shell_job, WatchdogWakes, Yields
    <2>4. CASE queue_llm_worker_turn(p) \/ LlmPayloadRejected(p)
      BY <2>1, <2>4 DEF queue_llm_worker_turn, LlmPayloadRejected, Yields
    <2>5. CASE WatchdogReschedules(p)
      BY <2>1, <2>2, <2>5 DEF WatchdogReschedules, Yields
    <2> QED
      BY <1>10, <2>3, <2>4, <2>5
  <1>11. CASE Tick \/ UNCHANGED vars
    BY <1>11, UnchangedCalm DEF Tick, vars, locals, CallMoves
  <1> QED
    BY <1>1, <1>2, <1>3, <1>4, <1>5, <1>6, <1>7, <1>8, <1>9, <1>10, <1>11 DEF Next, Step, CallMoves

\* a result that says succeeded belongs to a job that executed here
LEMMA ConcludingStep == ASSUME LocalsType, Concluding, [Next]_vars PROVE Concluding'
  <1> SUFFICES ASSUME NEW p \in Procs, pc'[p] = "finish", Kind[held'[p]] = "llm"
               PROVE  outcome'[p] # "succeeded"
    BY DEF Concluding
  <1>1. CASE Calm
    BY <1>1 DEF Calm, Concluding
  <1>2. ASSUME NEW q \in Procs, NEW r \in list[q], Passes(q, r) PROVE outcome'[p] # "succeeded"
    <2>1. pc' = [pc EXCEPT ![q] = "lease"] /\ held' = [held EXCEPT ![q] = r.job] /\ outcome' = outcome
      BY <1>2 DEF Passes, SelectRow
    <2>2. p # q /\ pc[p] = "finish" /\ held'[p] = held[p]
      BY <2>1 DEF LocalsType
    <2> QED
      BY <2>1, <2>2 DEF Concluding
  <1>3. ASSUME NEW q \in Procs, Leasing(q) PROVE outcome'[p] # "succeeded"
    <2>1. /\ pc' = [pc EXCEPT ![q] = IF RateLimited(held[q]) THEN "rate" ELSE "readback"]
          /\ held' = held /\ outcome' = outcome
      BY <1>3 DEF Leasing, lease_job
    <2>2. pc[p] = "finish"
      BY <2>1 DEF LocalsType
    <2> QED
      BY <2>1, <2>2 DEF Concluding
  <1>4. ASSUME NEW q \in Procs, Yields(q) PROVE outcome'[p] # "succeeded"
    <2>1. PICK o : /\ o = "succeeded" => Kind[held[q]] # "llm"
                   /\ outcome' = [outcome EXCEPT ![q] = o]
                   /\ pc' = [pc EXCEPT ![q] = "finish"]
                   /\ held' = held
      BY <1>4 DEF Yields, Yield
    <2>2. CASE p = q
      BY <2>1, <2>2 DEF LocalsType
    <2>3. CASE p # q
      BY <2>1, <2>3 DEF LocalsType, Concluding
    <2> QED
      BY <2>2, <2>3
  <1> QED
    BY <1>1, <1>2, <1>3, <1>4, CallStep DEF CallMoves

LEMMA ConcludingInvariant == Spec => []Concluding
  <1>1. Init => Concluding
    BY DEF Init, Concluding
  <1>2. TypeOK /\ Concluding /\ [Next]_vars => Concluding'
    BY ConcludingStep DEF TypeOK
  <1> QED
    BY <1>1, <1>2, TypeCorrect, PTL DEF Spec

\* A job that reached a terminal status never leaves the terminal statuses,
\* although two of the UPDATE statements name the job only.
THEOREM TerminalForGood == Spec => TerminalStaysTerminal
  <1>1. TypeOK /\ Ledger /\ Concluding /\ [Next]_vars =>
            \A j \in Jobs : status[j] \in Terminal => status'[j] \in Terminal
    BY RowStep DEF RowMoves
  <1> QED
    BY <1>1, TypeCorrect, LedgerInvariant, ConcludingInvariant, PTL DEF Spec, TerminalStaysTerminal

-----------------------------------------------------------------------------
(* The turn of an llm job and its result *)

\* the runtime's side moves only when a turn is queued, ends or is reconciled
RuntimeMoves ==
    \/ UNCHANGED <<turn, mailbox>>
    \/ \E p \in Procs : \E r \in list[p] : set_runtime_terminal_with_mailbox(p, r)
    \/ \E p \in Procs : queue_llm_worker_turn(p)
    \/ \E j \in Jobs : TurnEnds(j)

LEMMA RuntimeStep == ASSUME [Next]_vars PROVE RuntimeMoves
  <1>1. ASSUME NEW j \in Jobs, enqueue_worker_job(j) \/ cancel_worker_job(j) PROVE UNCHANGED <<turn, mailbox>>
    BY <1>1 DEF enqueue_worker_job, cancel_worker_job, runtime
  <1>2. ASSUME NEW p \in Procs,
               \/ Begin(p) \/ ReapStaleReturns(p) \/ ReapDone(p) \/ ReconcileDone(p) \/ ExhaustDone(p)
               \/ NoWork(p) \/ lease_job(p) \/ record_rate_lease(p) \/ ReadBack(p) \/ CronAllows(p)
               \/ CronBlocks(p) \/ set_job_running(p) \/ StartRenewal(p)
        PROVE  UNCHANGED <<turn, mailbox>>
    BY <1>2
    DEF Begin, ReapStaleReturns, ReapDone, ReconcileDone, ExhaustDone, NoWork, lease_job, record_rate_lease,
        ReadBack, CronAllows, CronBlocks, set_job_running, StartRenewal, runtime
  <1>3. ASSUME NEW p \in Procs,
               \/ run_deterministic_shell_job(p) \/ LlmPayloadRejected(p) \/ WatchdogWakes(p)
               \/ WatchdogReschedules(p) \/ persist_owned_execution_result(p)
               \/ Renew(p) \/ RenewGivesUp(p) \/ Crash(p)
        PROVE  UNCHANGED <<turn, mailbox>>
    BY <1>3
    DEF run_deterministic_shell_job, LlmPayloadRejected, WatchdogWakes, WatchdogReschedules,
        persist_owned_execution_result, Renew, RenewGivesUp, Crash, runtime
  <1>4. ASSUME NEW p \in Procs, NEW r \in list[p],
               \/ reap_expired_worker_job(p, r) \/ ReconcileFails(p, r)
               \/ terminalize_exhausted_pending_job(p, r) \/ SelectRow(p, r)
        PROVE  UNCHANGED <<turn, mailbox>>
    BY <1>4 DEF reap_expired_worker_job, ReconcileFails, terminalize_exhausted_pending_job, SelectRow, runtime
  <1>5. CASE Tick \/ UNCHANGED vars
    BY <1>5 DEF Tick, vars, runtime, RuntimeMoves
  <1> QED
    BY <1>1, <1>2, <1>3, <1>4, <1>5 DEF Next, Step, RuntimeMoves

\* a turn that ended stays as it ended
LEMMA TurnStep ==
    ASSUME RuntimeType, [Next]_vars PROVE \A j \in Jobs : turn[j] \in Settles => turn'[j] = turn[j]
  <1>1. ASSUME NEW p \in Procs, NEW r \in list[p], set_runtime_terminal_with_mailbox(p, r)
        PROVE  turn' = turn
    BY <1>1 DEF set_runtime_terminal_with_mailbox
  <1>2. ASSUME NEW p \in Procs, queue_llm_worker_turn(p)
        PROVE  \A j \in Jobs : turn[j] \in Settles => turn'[j] = turn[j]
    BY <1>2 DEF queue_llm_worker_turn, RuntimeType, Settles
  <1>3. ASSUME NEW i \in Jobs, TurnEnds(i)
        PROVE  \A j \in Jobs : turn[j] \in Settles => turn'[j] = turn[j]
    BY <1>3 DEF TurnEnds, RuntimeType, Settles
  <1> QED
    BY <1>1, <1>2, <1>3, RuntimeStep DEF RuntimeMoves

\* A turn that ended is never queued again, whatever attempts of its job follow
\* (queue_llm_worker_turn derives the queue id from the job).
THEOREM TurnsEndForGood == Spec => TurnNeverRequeued
  <1>1. TypeOK /\ [Next]_vars => \A j \in Jobs : turn[j] \in Settles => turn'[j] = turn[j]
    BY TurnStep DEF TypeOK
  <1> QED
    BY <1>1, TypeCorrect, PTL DEF Spec, TurnNeverRequeued

\* a published result belongs to a settled row, so the row is never settled, and
\* its result never published, a second time
Published ==
    \A j \in Jobs :
        /\ mailbox[j] \in {0, 1}
        /\ mailbox[j] = 1 => turn[j] \in Publishes /\ status[j] \in Terminal
        /\ status[j] = "succeeded" /\ Kind[j] = "llm" => turn[j] = "completed" /\ mailbox[j] = 1

LEMMA PublishedStep ==
    ASSUME TypeOK, Ledger, Concluding, Published, [Next]_vars PROVE Published'
  <1>1. RowMoves
    BY RowStep
  <1>2. /\ \A i \in Jobs : turn[i] \in Settles => turn'[i] = turn[i]
        /\ mailbox \in [Jobs -> Nat]
    BY TurnStep DEF TypeOK, RuntimeType
  <1>3. Publishes \subseteq Settles /\ "completed" \in Publishes
    BY DEF Publishes, Settles
  <1>4. \A p \in Procs : \A r \in list[p] : r.job \in Jobs
    BY SMTT(30) DEF TypeOK, LocalsType, Row
  <1> SUFFICES ASSUME NEW j \in Jobs
               PROVE  /\ mailbox'[j] \in {0, 1}
                      /\ mailbox'[j] = 1 => turn'[j] \in Publishes /\ status'[j] \in Terminal
                      /\ status'[j] = "succeeded" /\ Kind[j] = "llm" => turn'[j] = "completed" /\ mailbox'[j] = 1
    BY DEF Published
  <1>5. ASSUME NEW p \in Procs, NEW r \in list[p], set_runtime_terminal_with_mailbox(p, r), r.job = j
        PROVE  /\ mailbox'[j] \in {0, 1}
               /\ mailbox'[j] = 1 => turn'[j] \in Publishes /\ status'[j] \in Terminal
               /\ status'[j] = "succeeded" /\ Kind[j] = "llm" => turn'[j] = "completed" /\ mailbox'[j] = 1
    <2>1. /\ status[j] = "runtime-queued" /\ turn[j] \in Settles /\ turn' = turn
          /\ status' = [status EXCEPT ![j] = SettledAs(turn[j])]
          /\ mailbox' = IF turn[j] \in Publishes THEN [mailbox EXCEPT ![j] = mailbox[j] + 1] ELSE mailbox
      BY <1>5 DEF set_runtime_terminal_with_mailbox, Settle
    <2>2. mailbox[j] = 0
      BY <2>1 DEF Published, Terminal
    <2>3. status'[j] = SettledAs(turn[j])
      BY <2>1 DEF TypeOK, TableType
    <2>4. /\ SettledAs(turn[j]) \in Terminal
          /\ SettledAs(turn[j]) = "succeeded" => turn[j] = "completed"
      BY <2>1 DEF SettledAs, Settles, Terminal
    <2>5. CASE turn[j] \in Publishes
      <3>1. mailbox'[j] = 1
        BY <1>2, <2>1, <2>2, <2>5, SMTT(30)
      <3> QED
        BY <2>1, <2>3, <2>4, <2>5, <3>1
    <2>6. CASE turn[j] \notin Publishes
      <3>1. mailbox'[j] = 0 /\ 0 # 1
        BY <2>1, <2>2, <2>6, SMTT(30)
      <3> QED
        BY <1>3, <2>3, <2>4, <2>6, <3>1
    <2> QED
      BY <2>5, <2>6
  <1>6. ASSUME ~\E p \in Procs : \E r \in list[p] : set_runtime_terminal_with_mailbox(p, r) /\ r.job = j
        PROVE  /\ mailbox'[j] \in {0, 1}
               /\ mailbox'[j] = 1 => turn'[j] \in Publishes /\ status'[j] \in Terminal
               /\ status'[j] = "succeeded" /\ Kind[j] = "llm" => turn'[j] = "completed" /\ mailbox'[j] = 1
    <2>1. mailbox'[j] = mailbox[j]
      <3>1. ASSUME NEW p \in Procs, NEW r \in list[p], set_runtime_terminal_with_mailbox(p, r)
            PROVE  mailbox'[j] = mailbox[j]
        <4>1. /\ r.job \in Jobs /\ r.job # j
              /\ \/ mailbox' = mailbox
                 \/ mailbox' = [mailbox EXCEPT ![r.job] = mailbox[r.job] + 1]
          BY <1>4, <1>6, <3>1 DEF set_runtime_terminal_with_mailbox
        <4> QED
          BY <1>2, <4>1
      <3> QED
        BY <3>1, RuntimeStep DEF RuntimeMoves, queue_llm_worker_turn, TurnEnds
    <2>2. status'[j] = "succeeded" /\ Kind[j] = "llm" => status[j] = "succeeded"
      BY <1>1, <1>6 DEF RowMoves, Completed
    <2> QED
      BY <1>1, <1>2, <1>3, <2>1, <2>2 DEF Published, RowMoves
  <1> QED
    BY <1>5, <1>6

\* A job publishes one result at most, and only for a turn that ended; an llm job
\* that succeeded has a completed turn and its result was published
\* (set_runtime_terminal_with_mailbox).
THEOREM OneResult == Spec => []ResultPublishedOnce
  <1>1. Init => Published
    BY SMTT(30) DEF Init, Published
  <1>2. Published => ResultPublishedOnce
    BY SMTT(30) DEF Published, ResultPublishedOnce
  <1>3. TypeOK /\ Ledger /\ Concluding /\ Published /\ [Next]_vars => Published'
    BY PublishedStep
  <1> QED
    BY <1>1, <1>2, <1>3, TypeCorrect, LedgerInvariant, ConcludingInvariant, PTL DEF Spec

-----------------------------------------------------------------------------
(* Capacity.  The bound is not inductive: a process that passed the check will *)
(* lease its job whatever the others did since.  Counted together with these   *)
(* processes the pool stays within its limit and one job for each other        *)
(* process, because the check itself leaves a place free.                      *)

LEMMA Fewer ==
    ASSUME NEW S, IsFiniteSet(S), NEW T, T \subseteq S
    PROVE  IsFiniteSet(T) /\ Cardinality(S) \in Nat /\ Cardinality(T) \in Nat /\ Cardinality(T) <= Cardinality(S)
  BY FS_Subset, FS_CardinalityType

\* the executing jobs of a pool, which capacity_blocker counts
Busy(pool) == {j \in pool.members : status[j] \in Executing}

\* the processes whose check passed and whose lease statement is still to come
About(pool) == {p \in Procs : pc[p] = "lease" /\ held[p] \in pool.members}

CapacityLedger ==
    \A pool \in Pools :
        pool.limit > 0 => Cardinality(Busy(pool)) + Cardinality(About(pool)) <= pool.limit + Cardinality(Procs) - 1

LEMMA PoolFacts ==
    ASSUME NEW pool \in Pools
    PROVE  /\ pool.limit \in Nat /\ pool.members \subseteq Jobs
           /\ IsFiniteSet(pool.members) /\ IsFiniteSet(Procs) /\ Cardinality(Procs) \in Nat
           /\ IsFiniteSet(Busy(pool)) /\ Cardinality(Busy(pool)) \in Nat
           /\ IsFiniteSet(About(pool)) /\ Cardinality(About(pool)) \in Nat
  <1>1. pool.limit \in Nat /\ pool.members \subseteq Jobs
    BY StoreAssumption, SMTT(30)
  <1>2. IsFiniteSet(Jobs) /\ IsFiniteSet(Procs)
    BY StoreAssumption
  <1>3. IsFiniteSet(pool.members) /\ Cardinality(Procs) \in Nat
    BY <1>1, <1>2, Fewer
  <1>4. Busy(pool) \subseteq pool.members /\ About(pool) \subseteq Procs
    BY DEF Busy, About
  <1> QED
    BY <1>1, <1>2, <1>3, <1>4, Fewer

LEMMA CapacityStep ==
    ASSUME TypeOK, Ledger, Concluding, CapacityLedger, [Next]_vars PROVE CapacityLedger'
  <1> SUFFICES ASSUME NEW pool \in Pools, pool.limit > 0
               PROVE  Cardinality(Busy(pool)') + Cardinality(About(pool)') <= pool.limit + Cardinality(Procs) - 1
    BY DEF CapacityLedger
  <1> DEFINE n == Cardinality(Procs)
             b == Cardinality(Busy(pool))
             a == Cardinality(About(pool))
             b1 == Cardinality(Busy(pool)')
             a1 == Cardinality(About(pool)')
  <1>1. /\ pool.limit \in Nat /\ pool.members \subseteq Jobs
        /\ IsFiniteSet(Busy(pool)) /\ IsFiniteSet(About(pool)) /\ IsFiniteSet(Procs)
        /\ n \in Nat /\ b \in Nat /\ a \in Nat
        /\ b + a <= pool.limit + n - 1
    BY PoolFacts DEF CapacityLedger
  <1>2. LocalsType /\ TableType
    BY DEF TypeOK
  <1>3. \A q \in Procs : q \in About(pool)' <=> pc'[q] = "lease" /\ held'[q] \in pool.members
    BY DEF About
  <1>4. About(pool)' \subseteq Procs
    BY DEF About
  <1>5. \A j \in pool.members : j \in Busy(pool)' <=> status'[j] \in Executing
    BY DEF Busy
  <1>6. Busy(pool)' \subseteq pool.members
    BY DEF Busy
  <1>7. ASSUME Busy(pool)' \subseteq Busy(pool), About(pool)' \subseteq About(pool)
        PROVE  b1 + a1 <= pool.limit + n - 1
    <2>1. b1 \in Nat /\ a1 \in Nat /\ b1 <= b /\ a1 <= a
      BY <1>1, <1>7, Fewer
    <2> HIDE DEF n, a, b, a1, b1
    <2> QED
      BY <1>1, <2>1, SMTT(30)
  <1>8. ASSUME NEW p \in Procs, Leasing(p) PROVE b1 + a1 <= pool.limit + n - 1
    <2> DEFINE j == held[p]
    <2>1. /\ pc[p] = "lease" /\ status' = [status EXCEPT ![j] = "leased"] /\ held' = held
          /\ pc' = [pc EXCEPT ![p] = IF RateLimited(j) THEN "rate" ELSE "readback"]
      BY <1>8 DEF Leasing, lease_job
    <2>2. j \in Jobs /\ \A i \in Jobs : i # j => status'[i] = status[i]
      BY <1>2, <2>1 DEF LocalsType, TableType
    <2>3. About(pool)' \subseteq About(pool) \ {p}
      <3>1. pc'[p] # "lease" /\ \A q \in Procs : q # p => pc'[q] = pc[q]
        BY <1>2, <2>1 DEF LocalsType
      <3> QED
        BY <1>3, <1>4, <2>1, <3>1 DEF About
    <2>4. Busy(pool)' \subseteq Busy(pool) \cup {j}
      BY <1>1, <1>5, <1>6, <2>2 DEF Busy
    <2>5. CASE j \in pool.members
      <3>1. p \in About(pool)
        BY <2>1, <2>5 DEF About
      <3>2. /\ IsFiniteSet(About(pool) \ {p}) /\ Cardinality(About(pool) \ {p}) = a - 1
            /\ IsFiniteSet(Busy(pool) \cup {j})
            /\ Cardinality(Busy(pool) \cup {j}) = b \/ Cardinality(Busy(pool) \cup {j}) = b + 1
        <4>1. /\ IsFiniteSet(About(pool) \ {p})
              /\ Cardinality(About(pool) \ {p}) = IF p \in About(pool) THEN a - 1 ELSE a
          BY <1>1, FS_RemoveElement
        <4>2. /\ IsFiniteSet(Busy(pool) \cup {j})
              /\ Cardinality(Busy(pool) \cup {j}) = IF j \in Busy(pool) THEN b ELSE b + 1
          BY <1>1, FS_AddElement
        <4> HIDE DEF a, b
        <4> QED
          BY <3>1, <4>1, <4>2
      <3>3. /\ a1 \in Nat /\ a1 <= Cardinality(About(pool) \ {p})
            /\ b1 \in Nat /\ b1 <= Cardinality(Busy(pool) \cup {j})
        BY <2>3, <2>4, <3>2, Fewer
      <3> HIDE DEF n, a, b, a1, b1
      <3> QED
        BY <1>1, <3>2, <3>3, SMTT(30)
    <2>6. CASE j \notin pool.members
      <3>1. Busy(pool)' \subseteq Busy(pool)
        BY <1>6, <2>4, <2>6
      <3> QED
        BY <1>7, <2>3, <3>1
    <2> QED
      BY <2>5, <2>6
  <1>9. ASSUME NEW p \in Procs, NEW r \in list[p], Passes(p, r) PROVE b1 + a1 <= pool.limit + n - 1
    <2>1. /\ pc' = [pc EXCEPT ![p] = "lease"] /\ held' = [held EXCEPT ![p] = r.job]
          /\ status' = status /\ ~PoolFull(r.job)
      BY <1>9 DEF Passes, SelectRow, table
    <2>2. Busy(pool)' = Busy(pool)
      BY <2>1 DEF Busy
    <2>3. /\ held'[p] = r.job
          /\ \A q \in Procs : q # p => pc'[q] = pc[q] /\ held'[q] = held[q]
      BY <1>2, <2>1 DEF LocalsType
    <2>4. CASE r.job \in pool.members
      <3>1. ~(b >= pool.limit)
        BY <2>1, <2>4 DEF PoolFull, Busy
      <3>2. a1 \in Nat /\ a1 <= n
        BY <1>1, <1>4, Fewer
      <3>3. b1 = b
        BY <2>2
      <3> HIDE DEF n, a, b, a1, b1
      <3> QED
        BY <1>1, <3>1, <3>2, <3>3, SMTT(30)
    <2>5. CASE r.job \notin pool.members
      <3>1. About(pool)' \subseteq About(pool)
        BY <1>3, <1>4, <2>3, <2>5 DEF About
      <3> QED
        BY <1>7, <2>2, <3>1
    <2> QED
      BY <2>4, <2>5
  <1>10. ASSUME ~\E p \in Procs : Leasing(p), ~\E p \in Procs : \E r \in list[p] : Passes(p, r)
         PROVE  b1 + a1 <= pool.limit + n - 1
    <2>1. RowMoves /\ CallMoves
      BY <1>2, RowStep, CallStep
    <2>2. Busy(pool)' \subseteq Busy(pool)
      BY <1>1, <1>5, <1>6, <1>10, <2>1 DEF RowMoves, Leased, Busy
    <2>3. About(pool)' \subseteq About(pool)
      <3>1. CASE Calm
        BY <1>3, <1>4, <3>1 DEF Calm, About
      <3>2. ASSUME NEW p \in Procs, Yields(p) PROVE About(pool)' \subseteq About(pool)
        <4>1. pc' = [pc EXCEPT ![p] = "finish"] /\ held' = held
          BY <3>2 DEF Yields, Yield
        <4>2. pc'[p] # "lease" /\ \A q \in Procs : q # p => pc'[q] = pc[q]
          BY <1>2, <4>1 DEF LocalsType
        <4> QED
          BY <1>3, <1>4, <4>1, <4>2 DEF About
      <3> QED
        BY <1>10, <2>1, <3>1, <3>2 DEF CallMoves
    <2> QED
      BY <1>7, <2>2, <2>3
  <1> HIDE DEF n, a, b, a1, b1
  <1>11. b1 + a1 <= pool.limit + n - 1
    BY <1>8, <1>9, <1>10
  <1> QED
    BY <1>11 DEF n, a1, b1

\* Each other process can overshoot a capacity limit by one job and by no more,
\* although capacity_blocker and the lease are separate statements.
THEOREM CapacityBounded == Spec => []CapacityOvershootBounded
  <1>1. Init => CapacityLedger
    <2> SUFFICES ASSUME Init, NEW pool \in Pools, pool.limit > 0
                 PROVE  Cardinality(Busy(pool)) + Cardinality(About(pool)) <= pool.limit + Cardinality(Procs) - 1
      BY DEF CapacityLedger
    <2>1. pool.limit \in Nat /\ pool.members \subseteq Jobs /\ Cardinality(Procs) \in Nat
      BY PoolFacts
    <2>2. Busy(pool) = {} /\ About(pool) = {}
      BY <2>1 DEF Init, Busy, About, Executing
    <2>3. Cardinality(Busy(pool)) = 0 /\ Cardinality(About(pool)) = 0
      BY <2>2, FS_EmptySet
    <2> QED
      BY <2>1, <2>3, SMTT(30)
  <1>2. CapacityLedger => CapacityOvershootBounded
    <2> SUFFICES ASSUME CapacityLedger, NEW pool \in Pools, pool.limit > 0
                 PROVE  Cardinality(Busy(pool)) <= pool.limit + Cardinality(Procs) - 1
      BY DEF CapacityOvershootBounded, Busy
    <2>1. /\ pool.limit \in Nat /\ Cardinality(Procs) \in Nat
          /\ Cardinality(Busy(pool)) \in Nat /\ Cardinality(About(pool)) \in Nat
          /\ Cardinality(Busy(pool)) + Cardinality(About(pool)) <= pool.limit + Cardinality(Procs) - 1
      BY PoolFacts DEF CapacityLedger
    <2> QED
      BY <2>1, SMTT(30)
  <1>3. TypeOK /\ Ledger /\ Concluding /\ CapacityLedger /\ [Next]_vars => CapacityLedger'
    BY CapacityStep
  <1> QED
    BY <1>1, <1>2, <1>3, TypeCorrect, LedgerInvariant, ConcludingInvariant, PTL DEF Spec

-----------------------------------------------------------------------------
(* Rate leases.  The same argument, with two kinds of processes that will add a *)
(* row: those whose check passed and those that leased and have not recorded it. *)

\* the rate leases of the window, whatever process looks
Window == {x \in rates : x.age <= RateWindow}

\* the processes that will still insert a row
Owing == {p \in Procs : pc[p] = "rate" \/ (pc[p] = "lease" /\ held[p] \in RateKeyed)}

RateLedger ==
    /\ IsFiniteSet(rates)
    /\ RateLimit > 0 => Cardinality(Window) + Cardinality(Owing) <= RateLimit + Cardinality(Procs) - 1

\* a rate lease one time unit later
Older(x) == [x EXCEPT !.age = @ + 1]

LEMMA OlderFewer ==
    ASSUME NEW S, IsFiniteSet(S), NEW T, \A y \in T : \E x \in S : y = Older(x)
    PROVE  IsFiniteSet(T) /\ Cardinality(T) <= Cardinality(S)
  <1> DEFINE U == {x \in S : Older(x) \in T}
             f == [x \in U |-> Older(x)]
  <1>1. U \subseteq S
    OBVIOUS
  <1>2. IsFiniteSet(U) /\ Cardinality(U) <= Cardinality(S) /\ Cardinality(U) \in Nat /\ Cardinality(S) \in Nat
    BY <1>1, Fewer
  <1>3. f \in [U -> T] /\ \A y \in T : \E x \in U : f[x] = y
    OBVIOUS
  <1>4. f \in Surjection(U, T)
    BY <1>3 DEF Surjection
  <1> HIDE DEF U, f
  <1>5. IsFiniteSet(T) /\ Cardinality(T) <= Cardinality(U)
    BY <1>2, <1>4, FS_Surjection
  <1>6. Cardinality(T) \in Nat
    BY <1>5, FS_CardinalityType
  <1> QED
    BY <1>2, <1>5, <1>6, SMTT(30)

LEMMA RatesStep ==
    ASSUME [Next]_vars
    PROVE  \/ Tick
           \/ \E p \in Procs : record_rate_lease(p)
           \/ \E p \in Procs : \E r \in list[p] : Passes(p, r)
           \/ rates' \subseteq rates
  <1>1. ASSUME NEW j \in Jobs, enqueue_worker_job(j) \/ cancel_worker_job(j) \/ TurnEnds(j) PROVE rates' = rates
    BY <1>1 DEF enqueue_worker_job, cancel_worker_job, TurnEnds
  <1>2. ASSUME NEW p \in Procs,
               \/ Begin(p) \/ ReapStaleReturns(p) \/ ReapDone(p) \/ ReconcileDone(p) \/ ExhaustDone(p)
               \/ NoWork(p) \/ lease_job(p) \/ ReadBack(p) \/ CronAllows(p)
               \/ CronBlocks(p) \/ set_job_running(p) \/ StartRenewal(p)
        PROVE  rates' = rates
    BY <1>2
    DEF Begin, ReapStaleReturns, ReapDone, ReconcileDone, ExhaustDone, NoWork, lease_job,
        ReadBack, CronAllows, CronBlocks, set_job_running, StartRenewal
  <1>3. ASSUME NEW p \in Procs,
               \/ run_deterministic_shell_job(p) \/ queue_llm_worker_turn(p) \/ LlmPayloadRejected(p)
               \/ WatchdogWakes(p) \/ WatchdogReschedules(p) \/ persist_owned_execution_result(p)
               \/ Renew(p) \/ RenewGivesUp(p) \/ Crash(p)
        PROVE  rates' = rates
    BY <1>3
    DEF run_deterministic_shell_job, queue_llm_worker_turn, LlmPayloadRejected, WatchdogWakes,
        WatchdogReschedules, persist_owned_execution_result, Renew, RenewGivesUp, Crash
  <1>4. ASSUME NEW p \in Procs, NEW r \in list[p],
               \/ reap_expired_worker_job(p, r) \/ set_runtime_terminal_with_mailbox(p, r)
               \/ ReconcileFails(p, r) \/ terminalize_exhausted_pending_job(p, r)
        PROVE  rates' = rates
    BY <1>4
    DEF reap_expired_worker_job, set_runtime_terminal_with_mailbox, ReconcileFails,
        terminalize_exhausted_pending_job
  <1>5. ASSUME NEW p \in Procs, NEW r \in list[p], SelectRow(p, r) PROVE rates' \subseteq rates
    BY <1>5 DEF SelectRow, FreshRates
  <1>6. CASE UNCHANGED vars
    BY <1>6 DEF vars
  <1> QED
    BY <1>1, <1>2, <1>3, <1>4, <1>5, <1>6 DEF Next, Step

LEMMA RateStep == ASSUME TypeOK, RateLedger, [Next]_vars PROVE RateLedger'
  <1> DEFINE n == Cardinality(Procs)
             w == Cardinality(Window)
             o == Cardinality(Owing)
             w1 == Cardinality(Window')
             o1 == Cardinality(Owing')
             Kept == IsFiniteSet(rates') /\ (RateLimit > 0 => w1 + o1 <= RateLimit + n - 1)
  <1> SUFFICES Kept
    BY DEF RateLedger
  <1>1. /\ RateLimit \in Nat /\ IsFiniteSet(Procs) /\ RateWindow \in Nat
        /\ IsFiniteSet(rates) /\ LocalsType /\ RatesType
    BY StoreAssumption DEF RateLedger, TypeOK
  <1>2. /\ Window \subseteq rates /\ Window' \subseteq rates'
        /\ Owing \subseteq Procs /\ Owing' \subseteq Procs
    BY DEF Window, Owing
  <1>3. /\ IsFiniteSet(Window) /\ IsFiniteSet(Owing)
        /\ n \in Nat /\ w \in Nat /\ o \in Nat /\ o1 \in Nat /\ o1 <= n
    BY <1>1, <1>2, Fewer
  <1>4. RateLimit > 0 => w + o <= RateLimit + n - 1
    BY DEF RateLedger
  <1>5. ASSUME IsFiniteSet(rates'), w1 <= w, o1 <= o PROVE Kept
    <2>1. w1 \in Nat
      BY <1>2, <1>5, Fewer
    <2> HIDE DEF n, w, o, w1, o1
    <2> QED
      BY <1>1, <1>3, <1>4, <1>5, <2>1, SMTT(30)
  <1>6. ASSUME Owing' \subseteq Owing PROVE o1 <= o
    BY <1>3, <1>6, Fewer
  <1>7. \A q \in Procs : q \in Owing' <=> pc'[q] = "rate" \/ (pc'[q] = "lease" /\ held'[q] \in RateKeyed)
    BY DEF Owing
  <1>8. \A q \in Procs : q \in Owing <=> pc[q] = "rate" \/ (pc[q] = "lease" /\ held[q] \in RateKeyed)
    BY DEF Owing
  <1>9. ASSUME rates' \subseteq rates PROVE IsFiniteSet(rates') /\ w1 <= w
    <2>1. Window' \subseteq Window
      BY <1>9 DEF Window
    <2> QED
      BY <1>1, <1>3, <1>9, <2>1, Fewer
  <1>10. CASE Tick
    <2>1. \A y \in rates' : \E x \in rates : y = Older(x)
      BY <1>10 DEF Tick, Older
    <2>2. \A y \in Window' : \E x \in Window : y = Older(x)
      <3> SUFFICES ASSUME NEW y \in Window' PROVE \E x \in Window : y = Older(x)
        OBVIOUS
      <3>1. y \in rates' /\ y.age <= RateWindow
        BY DEF Window
      <3>2. PICK x \in rates : y = Older(x)
        BY <2>1, <3>1
      <3>3. x \in [job : Jobs, attempt : Nat, age : Nat]
        BY <1>1 DEF RatesType
      <3>4. x.age \in Nat /\ y.age = x.age + 1
        BY <3>2, <3>3, SMTT(30) DEF Older
      <3>5. x.age <= RateWindow
        BY <1>1, <3>1, <3>4, SMTT(30)
      <3> QED
        BY <3>2, <3>5 DEF Window
    <2>3. IsFiniteSet(rates') /\ w1 <= w
      BY <1>1, <1>3, <2>1, <2>2, OlderFewer
    <2>4. Owing' = Owing
      BY <1>10 DEF Tick, Owing
    <2> QED
      BY <1>5, <1>6, <2>3, <2>4
  <1>11. ASSUME NEW p \in Procs, record_rate_lease(p) PROVE Kept
    <2> DEFINE x == [job |-> held[p], attempt |-> seen[p], age |-> lag[p]]
    <2>1. /\ pc[p] = "rate" /\ rates' = FreshRates(p) \cup {x}
          /\ pc' = [pc EXCEPT ![p] = "readback"] /\ held' = held
      BY <1>11 DEF record_rate_lease, Goto
    <2>2. pc'[p] = "readback" /\ \A q \in Procs : q # p => pc'[q] = pc[q]
      BY <1>1, <2>1 DEF LocalsType
    <2> HIDE DEF x
    <2>3. Owing' \subseteq Owing \ {p} /\ p \in Owing
      BY <1>2, <1>7, <1>8, <2>1, <2>2
    <2>4. Window' \subseteq Window \cup {x} /\ FreshRates(p) \subseteq rates
      BY <2>1 DEF Window, FreshRates
    <2>5. IsFiniteSet(rates')
      <3>1. IsFiniteSet(FreshRates(p))
        BY <1>1, <2>4, Fewer
      <3> QED
        BY <2>1, <3>1, FS_AddElement
    <2>6. IsFiniteSet(Owing \ {p}) /\ Cardinality(Owing \ {p}) = IF p \in Owing THEN o - 1 ELSE o
      BY <1>3, FS_RemoveElement
    <2>7. /\ IsFiniteSet(Window \cup {x})
          /\ Cardinality(Window \cup {x}) = IF x \in Window THEN w ELSE w + 1
      BY <1>3, FS_AddElement
    <2>8. o1 <= Cardinality(Owing \ {p}) /\ w1 <= Cardinality(Window \cup {x}) /\ w1 \in Nat
      BY <2>3, <2>4, <2>6, <2>7, Fewer
    <2>9. RateLimit > 0 => w1 + o1 <= RateLimit + n - 1
      <3> HIDE DEF n, w, o, w1, o1
      <3>1. Cardinality(Owing \ {p}) = o - 1
        BY <2>3, <2>6
      <3>2. Cardinality(Window \cup {x}) = w \/ Cardinality(Window \cup {x}) = w + 1
        BY <2>7
      <3> QED
        BY <1>1, <1>3, <1>4, <2>8, <3>1, <3>2, SMTT(30)
    <2> QED
      BY <2>5, <2>9
  <1>12. ASSUME NEW p \in Procs, NEW r \in list[p], Passes(p, r) PROVE Kept
    <2>1. /\ pc' = [pc EXCEPT ![p] = "lease"] /\ held' = [held EXCEPT ![p] = r.job]
          /\ ~RateBlocked(p, r.job)
          /\ rates' = IF RateLimited(r.job) THEN FreshRates(p) ELSE rates
      BY <1>12 DEF Passes, SelectRow
    <2>2. /\ pc'[p] = "lease" /\ held'[p] = r.job
          /\ \A q \in Procs : q # p => pc'[q] = pc[q] /\ held'[q] = held[q]
      BY <1>1, <2>1 DEF LocalsType
    <2>3. FreshRates(p) \subseteq rates
      BY DEF FreshRates
    <2>4. IsFiniteSet(rates') /\ w1 <= w
      BY <1>9, <2>1, <2>3
    <2>5. CASE RateLimited(r.job)
      <3>1. rates' = FreshRates(p) /\ ~(Cardinality(FreshRates(p)) >= RateLimit)
        BY <2>1, <2>5 DEF RateBlocked
      <3>2. w1 \in Nat /\ w1 <= Cardinality(rates') /\ Cardinality(rates') \in Nat
        BY <1>2, <2>4, Fewer
      <3> HIDE DEF n, w, o, w1, o1
      <3>3. RateLimit > 0 => w1 + o1 <= RateLimit + n - 1
        <4>1. ~(Cardinality(rates') >= RateLimit)
          BY <3>1
        <4> QED
          BY <1>1, <1>3, <3>2, <4>1, SMTT(30)
      <3> QED
        BY <2>4, <3>3
    <2>6. CASE r.job \notin RateKeyed
      <3>1. Owing' \subseteq Owing
        BY <1>2, <1>7, <1>8, <2>2, <2>6
      <3> QED
        BY <1>5, <1>6, <2>4, <3>1
    <2>7. CASE ~(RateLimit > 0)
      BY <2>4, <2>7
    <2> QED
      BY <2>5, <2>6, <2>7 DEF RateLimited
  <1>13. ASSUME rates' \subseteq rates, ~\E p \in Procs : \E r \in list[p] : Passes(p, r) PROVE Kept
    <2>1. CallMoves
      BY <1>1, CallStep
    <2>2. CASE Calm
      <3>1. Owing' \subseteq Owing
        BY <1>2, <1>7, <1>8, <2>2 DEF Calm
      <3> QED
        BY <1>5, <1>6, <1>9, <1>13, <3>1
    <2>3. ASSUME NEW p \in Procs, Leasing(p) PROVE Kept
      <3>1. /\ pc[p] = "lease" /\ held' = held
            /\ pc' = [pc EXCEPT ![p] = IF RateLimited(held[p]) THEN "rate" ELSE "readback"]
        BY <2>3 DEF Leasing, lease_job
      <3>2. /\ \A q \in Procs : q # p => pc'[q] = pc[q]
            /\ pc'[p] # "lease" /\ (pc'[p] = "rate" => held[p] \in RateKeyed)
        BY <1>1, <3>1 DEF LocalsType, RateLimited
      <3>3. Owing' \subseteq Owing
        BY <1>2, <1>7, <1>8, <3>1, <3>2
      <3> QED
        BY <1>5, <1>6, <1>9, <1>13, <3>3
    <2>4. ASSUME NEW p \in Procs, Yields(p) PROVE Kept
      <3>1. pc' = [pc EXCEPT ![p] = "finish"] /\ held' = held
        BY <2>4 DEF Yields, Yield
      <3>2. pc'[p] = "finish" /\ \A q \in Procs : q # p => pc'[q] = pc[q]
        BY <1>1, <3>1 DEF LocalsType
      <3>3. Owing' \subseteq Owing
        BY <1>2, <1>7, <1>8, <3>1, <3>2
      <3> QED
        BY <1>5, <1>6, <1>9, <1>13, <3>3
    <2> HIDE DEF Kept
    <2> QED
      BY <1>13, <2>1, <2>2, <2>3, <2>4 DEF CallMoves
  <1> HIDE DEF Kept
  <1> QED
    BY <1>10, <1>11, <1>12, <1>13, RatesStep

\* Each other process can overshoot the rate limit by one row of the window and by
\* no more, although record_rate_lease inserts the row two statements after the
\* check.
THEOREM RateBounded == Spec => []RateOvershootBounded
  <1>1. Init => RateLedger
    <2> SUFFICES ASSUME Init PROVE RateLedger
      OBVIOUS
    <2>1. rates = {} /\ Window = {} /\ Owing = {}
      BY DEF Init, Window, Owing
    <2>2. IsFiniteSet(rates) /\ Cardinality(Window) = 0 /\ Cardinality(Owing) = 0
      BY <2>1, FS_EmptySet
    <2>3. RateLimit \in Nat /\ Cardinality(Procs) \in Nat
      BY StoreAssumption, FS_CardinalityType
    <2>4. RateLimit > 0 => Cardinality(Window) + Cardinality(Owing) <= RateLimit + Cardinality(Procs) - 1
      BY <2>2, <2>3, SMTT(30)
    <2> QED
      BY <2>2, <2>4 DEF RateLedger
  <1>2. RateLedger => RateOvershootBounded
    <2> SUFFICES ASSUME RateLedger, RateLimit > 0
                 PROVE  Cardinality(Window) <= RateLimit + Cardinality(Procs) - 1
      BY DEF RateOvershootBounded, Window
    <2>1. Window \subseteq rates /\ Owing \subseteq Procs /\ IsFiniteSet(Procs) /\ IsFiniteSet(rates)
      BY StoreAssumption DEF Window, Owing, RateLedger
    <2>2. /\ Cardinality(Window) \in Nat /\ Cardinality(Owing) \in Nat /\ Cardinality(Procs) \in Nat
          /\ RateLimit \in Nat
      BY <2>1, StoreAssumption, Fewer
    <2>3. Cardinality(Window) + Cardinality(Owing) <= RateLimit + Cardinality(Procs) - 1
      BY DEF RateLedger
    <2> QED
      BY <2>2, <2>3, SMTT(30)
  <1>3. TypeOK /\ RateLedger /\ [Next]_vars => RateLedger'
    BY RateStep
  <1> QED
    BY <1>1, <1>2, <1>3, TypeCorrect, PTL DEF Spec

-----------------------------------------------------------------------------
(* Refinement.  Every row lives the life JobLife describes.  What the row      *)
(* alone does not show is carried by LifeLedger: what a process remembers of   *)
(* it between two statements.                                                  *)

\* a step of the life of job j, or none
Lives(j) == [Life(j)!Next]_(Life(j)!vars)

\* nothing but the status of the row moves
Still(j) == attempt'[j] = attempt[j] /\ started'[j] = started[j] /\ mailbox'[j] = mailbox[j]

Closed == {"failed-terminal", "canceled", "expired"}

LEMMA Phases ==
    /\ \A s \in Status : PhaseOf(s) = "absent" <=> s = "absent"
    /\ \A s \in Status : PhaseOf(s) = "succeeded" <=> s = "succeeded"
    /\ \A s \in Status : PhaseOf(s) \in {"waiting", "closed"} <=> s \in Leasable \cup Closed
    /\ \A s \in Leasable : PhaseOf(s) = "waiting"
    /\ \A s \in Closed : PhaseOf(s) = "closed"
    /\ PhaseOf("leased") = "granted"
    /\ PhaseOf("running") = "running"
    /\ PhaseOf("runtime-queued") = "deferred"
  BY SMTT(30) DEF PhaseOf, Status, Leasable, Executing, Terminal, Closed

LEMMA StutterLives == ASSUME NEW j \in Jobs, status'[j] = status[j], Still(j) PROVE Lives(j)
  BY DEF Still, Lives, Life!vars

LEMMA CloseLives ==
    ASSUME NEW j \in Jobs, status[j] \in Status \ {"absent", "succeeded"}, status'[j] \in Closed, Still(j)
    PROVE  Lives(j)
  <1>1. PhaseOf(status[j]) \notin {"absent", "succeeded"} /\ PhaseOf(status'[j]) = "closed"
    BY Phases
  <1> QED
    BY <1>1 DEF Still, Lives, Life!Next, Life!Close

LEMMA RevokeLives ==
    ASSUME NEW j \in CronJobs, j \in Jobs, status[j] = "succeeded", status'[j] \in Closed, Still(j)
    PROVE  Lives(j)
  <1>1. PhaseOf(status[j]) = "succeeded" /\ PhaseOf(status'[j]) = "closed"
    BY Phases DEF Status, Terminal
  <1> QED
    BY <1>1 DEF Still, Lives, Life!Next, Life!Revoke

LEMMA GiveBackLives ==
    ASSUME NEW j \in Jobs, status[j] \in Executing, status'[j] = "pending", Still(j)
    PROVE  Lives(j)
  <1>1. PhaseOf(status[j]) \in {"granted", "running"} /\ PhaseOf(status'[j]) = "waiting"
    BY Phases DEF Executing, Leasable
  <1> QED
    BY <1>1 DEF Still, Lives, Life!Next, Life!GiveBack

LEMMA EnqueueLives ==
    ASSUME NEW j \in Jobs, status[j] = "absent", status'[j] = "pending", Still(j)
    PROVE  Lives(j)
  <1>1. PhaseOf(status[j]) = "absent" /\ PhaseOf(status'[j]) = "waiting"
    BY Phases DEF Status, Leasable
  <1> QED
    BY <1>1 DEF Still, Lives, Life!Next, Life!Enqueue

LEMMA RunLives ==
    ASSUME NEW j \in Jobs, status[j] = "leased", status'[j] = "running", Still(j)
    PROVE  Lives(j)
  BY Phases DEF Still, Lives, Life!Next, Life!Run

LEMMA GrantLives ==
    ASSUME NEW j \in Jobs, status[j] \in Leasable, status'[j] = "leased", attempt[j] < MaxAttempts,
           attempt'[j] = attempt[j] + 1, started'[j] = started[j], mailbox'[j] = mailbox[j]
    PROVE  Lives(j)
  BY Phases DEF Lives, Life!Next, Life!Grant

LEMMA ResultLives ==
    ASSUME NEW j \in Jobs, status[j] = "running", Still(j),
           attempt[j] \in 1 .. MaxAttempts, started[j][attempt[j]] > 0,
           \/ status'[j] = "succeeded" /\ Kind[j] # "llm"
           \/ status'[j] = "runtime-queued" /\ Kind[j] = "llm"
    PROVE  Lives(j)
  <1>1. attempt[j] \in {a \in 1 .. MaxAttempts : started[j][a] > 0}
    OBVIOUS
  <1>2. PhaseOf("running") = "running" /\ PhaseOf("runtime-queued") = "deferred" /\ PhaseOf("succeeded") = "succeeded"
    BY Phases DEF Status, Terminal
  <1> QED
    BY <1>1, <1>2 DEF Still, Lives, Life!Next, Life!Succeed, Life!Defer

LEMMA ExecuteLives ==
    ASSUME NEW j \in Jobs, status[j] = "running", status'[j] = "running",
           attempt'[j] = attempt[j], mailbox'[j] = mailbox[j],
           attempt[j] \in 1 .. MaxAttempts, started[j] \in [1 .. MaxAttempts -> Nat], started[j][attempt[j]] = 0,
           started'[j] = [started[j] EXCEPT ![attempt[j]] = @ + 1]
    PROVE  Lives(j)
  <1> DEFINE B == {a \in 1 .. MaxAttempts : started[j][a] > 0}
             C == {a \in 1 .. MaxAttempts : started'[j][a] > 0}
  <1>1. attempt[j] \notin B
    BY SMTT(30)
  <1>2. \A a \in 1 .. MaxAttempts : started'[j][a] > 0 <=> started[j][a] > 0 \/ a = attempt[j]
    <2>1. started'[j][attempt[j]] = 0 + 1 /\ \A a \in 1 .. MaxAttempts : a # attempt[j] => started'[j][a] = started[j][a]
      OBVIOUS
    <2>2. started'[j][attempt[j]] > 0
      BY <2>1, SMTT(30)
    <2> QED
      BY <2>1, <2>2
  <1>3. C = B \cup {attempt[j]}
    BY <1>2
  <1> QED
    BY <1>1, <1>3, Phases DEF Lives, Life!Next, Life!Execute

LEMMA ConcludeLives ==
    ASSUME NEW j \in Jobs, status[j] = "runtime-queued", mailbox[j] = 0,
           attempt'[j] = attempt[j], started'[j] = started[j],
           status'[j] \in Closed \cup {"succeeded"}, status'[j] = "succeeded" => mailbox'[j] = 1
    PROVE  Lives(j)
  <1>1. PhaseOf(status[j]) = "deferred" /\ PhaseOf(status'[j]) \in {"succeeded", "closed"}
    BY Phases DEF Status, Terminal
  <1>2. PhaseOf(status'[j]) = "succeeded" => mailbox'[j] > 0
    <2>1. CASE status'[j] = "succeeded"
      BY <2>1, SMTT(30)
    <2>2. CASE status'[j] \in Closed
      BY <2>2, Phases
    <2> QED
      BY <2>1, <2>2
  <1>3. ~(mailbox[j] > 0)
    BY SMTT(30)
  <1>4. (mailbox'[j] > 0) \in BOOLEAN
    BY SMTT(30)
  <1> QED
    BY <1>1, <1>2, <1>3, <1>4 DEF Lives, Life!Next, Life!Conclude

\* a job without attempts left, which no lease statement takes again
Spent(j) == attempt[j] >= MaxAttempts /\ status[j] \in Leasable \cup Closed

\* what a process remembers of the rows: the attempt it acts on has begun, only an
\* llm job is left to the runtime, only a linked job asks the cron control, and the
\* rows it selected as exhausted are spent
Memory(p) ==
    /\ pc[p] \in {"execute", "finish"} => started[held[p]][seen[p]] > 0
    /\ pc[p] = "finish" /\ outcome[p] = "runtime-queued" => Kind[held[p]] = "llm"
    /\ pc[p] = "cron" => held[p] \in CronJobs
    /\ pc[p] = "exhaust" => \A r \in list[p] : Spent(r.job)

LifeLedger ==
    /\ \A p \in Procs : Memory(p)
    /\ \A j \in Jobs : badPolicy[j] => status[j] # "absent"

\* an UPDATE that names one job leaves the others alone
LEMMA SettleLives ==
    ASSUME TableType, NEW j \in Jobs, NEW s, NEW d, Settle(j, s, d), UNCHANGED <<started, mailbox>>,
           status'[j] = s /\ Still(j) => Lives(j)
    PROVE  \A i \in Jobs : Lives(i)
  <1>1. status'[j] = s /\ \A i \in Jobs : i # j => status'[i] = status[i]
    BY DEF Settle, TableType
  <1>2. \A i \in Jobs : Still(i)
    BY DEF Settle, Still
  <1> QED
    BY <1>1, <1>2, StutterLives

LEMMA QuarantineLives ==
    ASSUME TableType, LifeLedger, NEW j \in Jobs, status'[j] = QuarantinedStatus[j], Still(j)
    PROVE  Lives(j)
  <1>1. CASE badPolicy[j] /\ status[j] \notin Terminal
    <2>1. status[j] \in Status \ {"absent", "succeeded"} /\ status'[j] \in Closed
      BY <1>1 DEF TableType, LifeLedger, QuarantinedStatus, Terminal, Closed
    <2> QED
      BY <2>1, CloseLives
  <1>2. CASE ~(badPolicy[j] /\ status[j] \notin Terminal)
    BY <1>2, StutterLives DEF QuarantinedStatus
  <1> QED
    BY <1>1, <1>2

\* a step that writes no status, no attempt, no result and begins no attempt
LEMMA UnchangedLives ==
    ASSUME UNCHANGED <<status, attempt, started, mailbox>> PROVE \A j \in Jobs : Lives(j)
  BY StutterLives DEF Still

LEMMA LifeStep ==
    ASSUME TypeOK, Ledger, Concluding, Published, LifeLedger, [Next]_vars PROVE \A j \in Jobs : Lives(j)
  <1> SUFFICES ASSUME TableType, LocalsType, HistoryType, RuntimeType, RowLedger, ProcLedger, ResultLedger,
                      Concluding, Published, LifeLedger, [Next]_vars
               PROVE  \A j \in Jobs : Lives(j)
    BY DEF TypeOK, Ledger
  <1>1. \A p \in Procs : \A r \in list[p] : r.job \in Jobs
    BY SMTT(30) DEF LocalsType, Row
  <1>2. \A p \in Procs : pc[p] \notin {"idle", "reap", "reconcile", "exhaust", "select"} => held[p] \in Jobs
    BY DEF LocalsType
  <1>3. ASSUME NEW j \in Jobs, enqueue_worker_job(j) PROVE \A i \in Jobs : Lives(i)
    <2>1. attempt' = attempt /\ started' = started /\ mailbox' = mailbox
      BY <1>3 DEF enqueue_worker_job, RowLedger, TableType, history, runtime
    <2>2. \A i \in Jobs : Still(i)
      BY <2>1 DEF Still
    <2>3. \A i \in Jobs : i # j \/ status[j] # "absent" => status'[i] = QuarantinedStatus[i]
      BY <1>3 DEF enqueue_worker_job, QuarantinedStatus
    <2>4. status[j] = "absent" => status'[j] = "pending"
      BY <1>3 DEF enqueue_worker_job, QuarantinedStatus
    <2> QED
      BY <2>2, <2>3, <2>4, QuarantineLives, EnqueueLives
  <1>4. ASSUME NEW j \in Jobs, cancel_worker_job(j) PROVE \A i \in Jobs : Lives(i)
    <2>1. /\ Settle(j, "canceled", delay[j]) /\ UNCHANGED <<started, mailbox>>
          /\ status[j] \in Status \ {"absent", "succeeded"} /\ "canceled" \in Closed
      BY <1>4 DEF cancel_worker_job, history, runtime, Terminal, TableType, Closed
    <2> QED
      BY <2>1, SettleLives, CloseLives
  <1>5. ASSUME NEW p \in Procs, Begin(p) PROVE \A i \in Jobs : Lives(i)
    <2>1. status' = QuarantinedStatus /\ \A i \in Jobs : Still(i)
      BY <1>5 DEF Begin, Still, history, runtime
    <2> QED
      BY <2>1, QuarantineLives
  <1>6. ASSUME NEW p \in Procs, NEW r \in list[p], reap_expired_worker_job(p, r) PROVE \A i \in Jobs : Lives(i)
    <2>1. r.job \in Jobs /\ r.status \in Executing /\ UNCHANGED <<started, mailbox>>
      BY <1>1, <1>6 DEF reap_expired_worker_job, ResultLedger, history, runtime
    <2>2. \/ UNCHANGED <<status, attempt>>
          \/ /\ status[r.job] = r.status
             /\ \E d : Settle(r.job, "pending", d) \/ Settle(r.job, "expired", d)
      BY <1>6 DEF reap_expired_worker_job, table
    <2>3. ASSUME NEW d, status[r.job] = r.status, Settle(r.job, "pending", d) PROVE \A i \in Jobs : Lives(i)
      BY <2>1, <2>3, SettleLives, GiveBackLives
    <2>4. ASSUME NEW d, status[r.job] = r.status, Settle(r.job, "expired", d) PROVE \A i \in Jobs : Lives(i)
      <3>1. status[r.job] \in Status \ {"absent", "succeeded"} /\ "expired" \in Closed
        BY <2>1, <2>4 DEF Status, Executing, Closed
      <3> QED
        BY <2>1, <2>4, <3>1, SettleLives, CloseLives
    <2> QED
      BY <2>1, <2>2, <2>3, <2>4, UnchangedLives
  <1>7. ASSUME NEW p \in Procs, NEW r \in list[p], set_runtime_terminal_with_mailbox(p, r)
        PROVE  \A i \in Jobs : Lives(i)
    <2> DEFINE j == r.job
    <2>1. /\ j \in Jobs /\ status[j] = "runtime-queued" /\ turn[j] \in Settles
          /\ status' = [status EXCEPT ![j] = SettledAs(turn[j])]
          /\ mailbox' = IF turn[j] \in Publishes THEN [mailbox EXCEPT ![j] = mailbox[j] + 1] ELSE mailbox
          /\ attempt' = attempt /\ started' = started
      BY <1>1, <1>7 DEF set_runtime_terminal_with_mailbox, Settle, history
    <2>2. mailbox[j] = 0
      BY <2>1 DEF Published, Terminal
    <2>3. \A i \in Jobs : i # j => status'[i] = status[i] /\ Still(i)
      BY <2>1 DEF TableType, RuntimeType, Still
    <2>4. status'[j] = SettledAs(turn[j])
      BY <2>1 DEF TableType
    <2>5. /\ SettledAs(turn[j]) \in Closed \cup {"succeeded"}
          /\ SettledAs(turn[j]) = "succeeded" => turn[j] = "completed"
      BY <2>1 DEF SettledAs, Settles, Closed
    <2>6. turn[j] = "completed" => mailbox'[j] = 1
      <3> SUFFICES ASSUME turn[j] = "completed" PROVE mailbox'[j] = 1
        OBVIOUS
      <3>1. mailbox' = [mailbox EXCEPT ![j] = mailbox[j] + 1]
        BY <2>1 DEF Publishes
      <3>2. mailbox'[j] = mailbox[j] + 1
        BY <2>1, <3>1 DEF RuntimeType
      <3> QED
        BY <2>2, <3>2, SMTT(30)
    <2> HIDE DEF j
    <2>7. Lives(j)
      BY <2>1, <2>2, <2>4, <2>5, <2>6, ConcludeLives
    <2> QED
      BY <2>3, <2>7, StutterLives
  <1>8. ASSUME NEW p \in Procs, NEW r \in list[p], terminalize_exhausted_pending_job(p, r)
        PROVE  \A i \in Jobs : Lives(i)
    <2>1. r.job \in Jobs /\ Spent(r.job) /\ Settle(r.job, "failed-terminal", delay[r.job])
      BY <1>1, <1>8 DEF terminalize_exhausted_pending_job, LifeLedger, Memory
    <2>2. /\ status[r.job] \in Status \ {"absent", "succeeded"} /\ "failed-terminal" \in Closed
          /\ UNCHANGED <<started, mailbox>>
      BY <1>8, <2>1 DEF terminalize_exhausted_pending_job, history, runtime, Spent, Closed, Leasable, Status, Terminal
    <2> QED
      BY <2>1, <2>2, SettleLives, CloseLives
  <1>9. ASSUME NEW p \in Procs, lease_job(p) PROVE \A i \in Jobs : Lives(i)
    <2>1. held[p] \in Jobs /\ UNCHANGED <<started, mailbox>>
      BY <1>2, <1>9 DEF lease_job, history, runtime
    <2>2. CASE Leasing(p)
      <3>1. /\ status' = [status EXCEPT ![held[p]] = "leased"]
            /\ attempt' = [attempt EXCEPT ![held[p]] = attempt[held[p]] + 1]
            /\ status[held[p]] \in Leasable /\ attempt[held[p]] < MaxAttempts
        BY <2>2 DEF Leasing, lease_job
      <3>2. /\ status'[held[p]] = "leased" /\ attempt'[held[p]] = attempt[held[p]] + 1
            /\ \A i \in Jobs : i # held[p] => status'[i] = status[i] /\ attempt'[i] = attempt[i]
        BY <2>1, <3>1 DEF TableType
      <3> QED
        BY <2>1, <3>1, <3>2, GrantLives, StutterLives DEF Still
    <2>3. CASE ~Leasing(p)
      BY <1>9, <2>1, <2>3, UnchangedLives DEF Leasing, lease_job, table
    <2> QED
      BY <2>2, <2>3
  <1>10. ASSUME NEW p \in Procs, CronBlocks(p) PROVE \A i \in Jobs : Lives(i)
    <2>1. /\ held[p] \in Jobs /\ held[p] \in CronJobs /\ UNCHANGED <<started, mailbox>>
          /\ Settle(held[p], "canceled", delay[held[p]]) /\ "canceled" \in Closed
      BY <1>2, <1>10 DEF CronBlocks, LifeLedger, Memory, history, runtime, Closed
    <2>2. status[held[p]] # "absent"
      <3>1. 1 <= seen[p] /\ seen[p] <= attempt[held[p]] /\ seen[p] \in Nat /\ attempt[held[p]] \in Nat
        BY <1>10, <2>1 DEF CronBlocks, ProcLedger, Holding, LocalsType, TableType
      <3>2. attempt[held[p]] # 0
        BY <3>1, SMTT(30)
      <3> QED
        BY <2>1, <3>2 DEF RowLedger
    <2>3. CASE status[held[p]] = "succeeded"
      BY <2>1, <2>3, SettleLives, RevokeLives
    <2>4. CASE status[held[p]] # "succeeded"
      <3>1. status[held[p]] \in Status \ {"absent", "succeeded"}
        BY <2>1, <2>2, <2>4 DEF TableType
      <3> QED
        BY <2>1, <3>1, SettleLives, CloseLives
    <2> QED
      BY <2>3, <2>4
  <1>11. ASSUME NEW p \in Procs, set_job_running(p) PROVE \A i \in Jobs : Lives(i)
    <2>1. held[p] \in Jobs /\ UNCHANGED <<attempt, started, mailbox>>
      BY <1>2, <1>11 DEF set_job_running, history, runtime, table
    <2>2. \/ UNCHANGED status
          \/ status[held[p]] = "leased" /\ status' = [status EXCEPT ![held[p]] = "running"]
      BY <1>11 DEF set_job_running, table
    <2>3. CASE status[held[p]] = "leased" /\ status' = [status EXCEPT ![held[p]] = "running"]
      <3>1. status'[held[p]] = "running" /\ \A i \in Jobs : i # held[p] => status'[i] = status[i]
        BY <2>1, <2>3 DEF TableType
      <3> QED
        BY <2>1, <2>3, <3>1, RunLives, StutterLives DEF Still
    <2> QED
      BY <2>1, <2>2, <2>3, UnchangedLives
  <1>12. ASSUME NEW p \in Procs, StartRenewal(p) PROVE \A i \in Jobs : Lives(i)
    <2>1. PICK j \in Jobs : j = held[p]
      BY <1>2, <1>12 DEF StartRenewal
    <2>2. /\ pc[p] = "start" /\ UNCHANGED <<status, attempt, mailbox>>
          /\ 1 <= seen[p] /\ seen[p] \in Nat
      BY <1>12 DEF StartRenewal, runtime, table, ProcLedger, Holding, LocalsType
    <2>3. CASE ExactlyRunning(p)
      <3>1. /\ started' = [started EXCEPT ![j] = [started[j] EXCEPT ![seen[p]] = started[j][seen[p]] + 1]]
            /\ status[j] = "running" /\ attempt[j] = seen[p] /\ started[j][seen[p]] = 0
        BY <1>12, <2>1, <2>2, <2>3 DEF StartRenewal, ExactlyRunning, ProcLedger
      <3>2. /\ started'[j] = [started[j] EXCEPT ![attempt[j]] = started[j][attempt[j]] + 1]
            /\ \A i \in Jobs : i # j => started'[i] = started[i]
            /\ started[j] \in [1 .. MaxAttempts -> Nat]
        BY <3>1 DEF HistoryType
      <3>3. attempt[j] \in 1 .. MaxAttempts
        <4>1. attempt[j] <= MaxAttempts
          BY DEF RowLedger
        <4> QED
          BY <2>2, <3>1, <4>1, StoreAssumption, SMTT(30)
      <3>4. Lives(j)
        BY <2>2, <3>1, <3>2, <3>3, ExecuteLives
      <3> QED
        BY <2>2, <3>2, <3>4, StutterLives DEF Still
    <2>4. CASE ~ExactlyRunning(p)
      BY <1>12, <2>2, <2>4, UnchangedLives DEF StartRenewal
    <2> QED
      BY <2>3, <2>4
  <1>13. ASSUME NEW p \in Procs, WatchdogReschedules(p) PROVE \A i \in Jobs : Lives(i)
    <2>1. held[p] \in Jobs /\ UNCHANGED <<started, mailbox>>
      BY <1>2, <1>13 DEF WatchdogReschedules, history, runtime
    <2>2. \/ UNCHANGED <<status, attempt>>
          \/ status[held[p]] = "running" /\ \E d : Settle(held[p], "pending", d)
      BY <1>13 DEF WatchdogReschedules, ExactlyRunning, table
    <2>3. ASSUME NEW d, status[held[p]] = "running", Settle(held[p], "pending", d) PROVE \A i \in Jobs : Lives(i)
      BY <2>1, <2>3, GivenStatus, SettleLives, GiveBackLives
    <2> QED
      BY <2>1, <2>2, <2>3, UnchangedLives
  <1>14. ASSUME NEW p \in Procs, persist_owned_execution_result(p) PROVE \A i \in Jobs : Lives(i)
    <2>1. held[p] \in Jobs /\ pc[p] = "finish" /\ UNCHANGED <<started, mailbox>>
      BY <1>2, <1>14 DEF persist_owned_execution_result, history, runtime
    <2>2. \/ UNCHANGED <<status, attempt>>
          \/ /\ status[held[p]] = "running" /\ attempt[held[p]] = seen[p]
             /\ Result(p) \notin {"pending", "failed-retryable"}
             /\ \E d : Settle(held[p], Result(p), d)
          \/ status[held[p]] = "running" /\ \E d : Settle(held[p], "pending", d)
      BY <1>14 DEF persist_owned_execution_result, ExactlyRunning, table
    <2>3. ASSUME NEW d, status[held[p]] = "running", Settle(held[p], "pending", d) PROVE \A i \in Jobs : Lives(i)
      BY <2>1, <2>3, GivenStatus, SettleLives, GiveBackLives
    <2>4. ASSUME NEW d, status[held[p]] = "running", attempt[held[p]] = seen[p], Settle(held[p], Result(p), d),
                 Result(p) \notin {"pending", "failed-retryable"}
          PROVE  \A i \in Jobs : Lives(i)
      <3>1. \/ Result(p) = "failed-terminal"
            \/ Result(p) = "succeeded" /\ Kind[held[p]] # "llm"
            \/ Result(p) = "runtime-queued" /\ Kind[held[p]] = "llm"
        BY <2>1, <2>4 DEF Result, ResultLedger, Concluding, LifeLedger, Memory
      <3>2. CASE Result(p) = "failed-terminal"
        <4>1. status[held[p]] \in Status \ {"absent", "succeeded"} /\ "failed-terminal" \in Closed
          BY <2>4 DEF Status, Executing, Closed
        <4> QED
          BY <2>1, <2>4, <3>2, <4>1, SettleLives, CloseLives
      <3>3. CASE Result(p) # "failed-terminal"
        <4>1. started[held[p]][attempt[held[p]]] > 0
          BY <2>1, <2>4 DEF LifeLedger, Memory
        <4>2. attempt[held[p]] \in 1 .. MaxAttempts
          <5>1. /\ 1 <= seen[p] /\ seen[p] \in Nat /\ attempt[held[p]] <= MaxAttempts
            BY <2>1 DEF ProcLedger, RowLedger, Holding, LocalsType
          <5> QED
            BY <2>4, <5>1, StoreAssumption, SMTT(30)
        <4> QED
          BY <2>1, <2>4, <3>1, <3>3, <4>1, <4>2, SettleLives, ResultLives
      <3> QED
        BY <3>2, <3>3
    <2> QED
      BY <2>1, <2>2, <2>3, <2>4, UnchangedLives
  <1>15. ASSUME NEW p \in Procs,
                \/ ReapStaleReturns(p) \/ ReapDone(p) \/ ReconcileDone(p) \/ ExhaustDone(p) \/ NoWork(p)
                \/ record_rate_lease(p) \/ ReadBack(p) \/ CronAllows(p)
                \/ \E r \in list[p] : ReconcileFails(p, r) \/ SelectRow(p, r)
         PROVE  \A i \in Jobs : Lives(i)
    <2>1. UNCHANGED <<status, attempt, started, mailbox>>
      BY <1>15
      DEF ReapStaleReturns, ReapDone, ReconcileDone, ExhaustDone, NoWork, record_rate_lease, ReadBack,
          CronAllows, ReconcileFails, SelectRow, table, history, runtime
    <2> QED
      BY <2>1, UnchangedLives
  <1>16. ASSUME NEW p \in Procs,
                \/ run_deterministic_shell_job(p) \/ queue_llm_worker_turn(p) \/ LlmPayloadRejected(p)
                \/ WatchdogWakes(p) \/ Renew(p) \/ RenewGivesUp(p) \/ Crash(p)
         PROVE  \A i \in Jobs : Lives(i)
    <2>1. UNCHANGED <<status, attempt, started, mailbox>>
      BY <1>16
      DEF run_deterministic_shell_job, queue_llm_worker_turn, LlmPayloadRejected, WatchdogWakes, Renew,
          RenewGivesUp, Crash, table, history, runtime
    <2> QED
      BY <2>1, UnchangedLives
  <1>17. ASSUME NEW j \in Jobs, TurnEnds(j) PROVE \A i \in Jobs : Lives(i)
    BY <1>17, UnchangedLives DEF TurnEnds, table, history
  <1>18. CASE Tick \/ UNCHANGED vars
    BY <1>18, UnchangedLives DEF Tick, vars, table, history, runtime
  <1> QED
    BY <1>3, <1>4, <1>5, <1>6, <1>7, <1>8, <1>9, <1>10, <1>11, <1>12, <1>13, <1>14, <1>15, <1>16,
       <1>17, <1>18
    DEF Next, Step

-----------------------------------------------------------------------------
\* a step of a life forgets no begun attempt, removes no row and leases no spent job
LEMMA LifeKeeps ==
    ASSUME TableType, TableType', NEW j \in Jobs, Lives(j)
    PROVE  /\ Spent(j) => Spent(j)'
           /\ status[j] # "absent" => status'[j] # "absent"
           /\ \A a \in 1 .. MaxAttempts : started[j][a] > 0 => started'[j][a] > 0
  <1> DEFINE B == {a \in 1 .. MaxAttempts : started[j][a] > 0}
             C == {a \in 1 .. MaxAttempts : started'[j][a] > 0}
  <1>1. /\ PhaseOf(status'[j]) = "absent" => PhaseOf(status[j]) = "absent"
        /\ B \subseteq C
        /\ PhaseOf(status[j]) \in {"waiting", "closed"} /\ ~(attempt[j] < MaxAttempts) =>
               PhaseOf(status'[j]) \in {"waiting", "closed"} /\ attempt'[j] = attempt[j]
    BY DEF Lives, Life!vars, Life!Next, Life!Enqueue, Life!Grant, Life!Run, Life!Execute, Life!GiveBack, Life!Defer,
           Life!Succeed, Life!Conclude, Life!Close, Life!Revoke
  <1>2. status[j] \in Status /\ status'[j] \in Status /\ attempt[j] \in Nat
    BY DEF TableType
  <1>3. attempt[j] >= MaxAttempts <=> ~(attempt[j] < MaxAttempts)
    BY <1>2, StoreAssumption, SMTT(30)
  <1> QED
    BY <1>1, <1>2, <1>3, Phases DEF Spent

\* the call brings nothing new to remember
Recalls(p) ==
    pc'[p] \in {"execute", "finish", "cron", "exhaust"} =>
        /\ pc'[p] = pc[p] /\ held'[p] = held[p] /\ seen'[p] = seen[p] /\ outcome'[p] = outcome[p]
        /\ list'[p] \subseteq list[p]

\* ... or what it learns is so: it selects the exhausted rows, reads back a linked
\* job, begins the attempt or ends the execution
Learns(p) ==
    \/ /\ pc'[p] = "exhaust"
       /\ UNCHANGED <<status, attempt>>
       /\ \A r \in list'[p] : status[r.job] \in Leasable /\ attempt[r.job] >= MaxAttempts
    \/ pc'[p] = "cron" /\ held'[p] \in CronJobs
    \/ pc'[p] = "execute" /\ started'[held'[p]][seen'[p]] > 0
    \/ /\ pc[p] = "execute" /\ pc'[p] = "finish"
       /\ held'[p] = held[p] /\ seen'[p] = seen[p]
       /\ outcome'[p] = "runtime-queued" => Kind[held[p]] = "llm"

LEMMA LeaveRecalls == ASSUME LocalsType, NEW p \in Procs, Leave(p) PROVE \A q \in Procs : Recalls(q)
  BY DEF LocalsType, Leave, Recalls

LEMMA DropRecalls == ASSUME LocalsType, NEW p \in Procs, NEW r, Drop(p, r) PROVE \A q \in Procs : Recalls(q)
  BY DEF LocalsType, Drop, Recalls

LEMMA UnchangedRecalls ==
    ASSUME UNCHANGED <<pc, list, held, seen, outcome>> PROVE \A q \in Procs : Recalls(q)
  BY DEF Recalls

LEMMA OthersRecall ==
    ASSUME LocalsType, NEW p \in Procs, NEW l, pc' = [pc EXCEPT ![p] = l],
           \A q \in Procs \ {p} : /\ list'[q] = list[q] /\ held'[q] = held[q]
                                  /\ seen'[q] = seen[q] /\ outcome'[q] = outcome[q]
    PROVE  /\ pc'[p] = l
           /\ \A q \in Procs : q # p => Recalls(q)
  BY DEF LocalsType, Recalls

LEMMA MoveRecalls ==
    ASSUME LocalsType, NEW p \in Procs, NEW l, l \notin {"execute", "finish", "cron", "exhaust"},
           pc' = [pc EXCEPT ![p] = l],
           \A q \in Procs \ {p} : /\ list'[q] = list[q] /\ held'[q] = held[q]
                                  /\ seen'[q] = seen[q] /\ outcome'[q] = outcome[q]
    PROVE  \A q \in Procs : Recalls(q)
  <1>1. pc'[p] = l /\ \A q \in Procs : q # p => Recalls(q)
    BY OthersRecall
  <1>2. Recalls(p)
    BY <1>1 DEF Recalls
  <1> QED
    BY <1>1, <1>2

LEMMA RecallStep == ASSUME LocalsType, HistoryType, Ledger, [Next]_vars PROVE \A p \in Procs : Recalls(p) \/ Learns(p)
  <1>1. ASSUME NEW j \in Jobs, enqueue_worker_job(j) \/ cancel_worker_job(j) \/ TurnEnds(j)
        PROVE  \A p \in Procs : Recalls(p)
    BY <1>1, UnchangedRecalls DEF enqueue_worker_job, cancel_worker_job, TurnEnds, locals
  <1>2. ASSUME NEW p \in Procs, Begin(p) \/ ReapDone(p) \/ ExhaustDone(p) PROVE \A q \in Procs : Recalls(q)
    <2>1. PICK label \in {"reap", "reconcile", "select"} : \E rows : Scan(p, label, rows)
      BY <1>2 DEF Begin, ReapDone, ExhaustDone
    <2>2. /\ label \notin {"execute", "finish", "cron", "exhaust"} /\ pc' = [pc EXCEPT ![p] = label]
          /\ \A q \in Procs \ {p} : list'[q] = list[q]
          /\ UNCHANGED <<held, seen, outcome>>
      BY <2>1 DEF Scan, LocalsType
    <2> QED
      BY <2>2, MoveRecalls
  <1>3. ASSUME NEW p \in Procs, NEW r \in list[p],
               \/ reap_expired_worker_job(p, r) \/ set_runtime_terminal_with_mailbox(p, r)
               \/ terminalize_exhausted_pending_job(p, r)
        PROVE  \A q \in Procs : Recalls(q)
    BY <1>3, DropRecalls
    DEF reap_expired_worker_job, set_runtime_terminal_with_mailbox, terminalize_exhausted_pending_job
  <1>4. ASSUME NEW p \in Procs,
               \/ ReapStaleReturns(p) \/ NoWork(p) \/ CronBlocks(p) \/ Crash(p)
               \/ persist_owned_execution_result(p)
               \/ \E r \in list[p] : ReconcileFails(p, r)
        PROVE  \A q \in Procs : Recalls(q)
    <2>1. Leave(p)
      BY <1>4 DEF ReapStaleReturns, NoWork, CronBlocks, Crash, persist_owned_execution_result, ReconcileFails
    <2> QED
      BY <2>1, LeaveRecalls
  <1>5. ASSUME NEW p \in Procs, NEW r \in list[p], SelectRow(p, r) PROVE \A q \in Procs : Recalls(q)
    <2>1. \/ Drop(p, r)
          \/ /\ pc' = [pc EXCEPT ![p] = "lease"]
             /\ list' = [list EXCEPT ![p] = @ \ {r}]
             /\ held' = [held EXCEPT ![p] = r.job]
             /\ UNCHANGED <<seen, outcome>>
      BY <1>5 DEF SelectRow
    <2>2. CASE pc' = [pc EXCEPT ![p] = "lease"] /\ list' = [list EXCEPT ![p] = @ \ {r}]
               /\ held' = [held EXCEPT ![p] = r.job] /\ UNCHANGED <<seen, outcome>>
      <3>1. \A q \in Procs \ {p} : list'[q] = list[q] /\ held'[q] = held[q]
        BY <2>2 DEF LocalsType
      <3> QED
        BY <2>2, <3>1, MoveRecalls
    <2> QED
      BY <2>1, <2>2, DropRecalls
  <1>6. ASSUME NEW p \in Procs, lease_job(p) PROVE \A q \in Procs : Recalls(q)
    <2>1. /\ \E l \in {"rate", "readback", "select"} : pc' = [pc EXCEPT ![p] = l]
          /\ \A q \in Procs \ {p} : list'[q] = list[q] /\ held'[q] = held[q]
          /\ \A q \in Procs \ {p} : seen'[q] = seen[q] /\ outcome'[q] = outcome[q]
      BY <1>6 DEF lease_job, LocalsType
    <2> QED
      BY <2>1, MoveRecalls
  <1>7. ASSUME NEW p \in Procs, record_rate_lease(p) \/ CronAllows(p) PROVE \A q \in Procs : Recalls(q)
    BY <1>7, MoveRecalls DEF record_rate_lease, CronAllows, Goto
  <1>8. ASSUME NEW p \in Procs, set_job_running(p) PROVE \A q \in Procs : Recalls(q)
    <2>1. Leave(p) \/ Goto(p, "start")
      BY <1>8 DEF set_job_running
    <2> QED
      BY <2>1, LeaveRecalls, MoveRecalls DEF Goto
  <1>9. ASSUME NEW p \in Procs, Renew(p) \/ RenewGivesUp(p) PROVE \A q \in Procs : Recalls(q)
    BY <1>9, UnchangedRecalls DEF Renew, RenewGivesUp
  <1>10. CASE Tick \/ UNCHANGED vars
    BY <1>10, UnchangedRecalls DEF Tick, vars, locals
  <1>11. ASSUME NEW p \in Procs, ReconcileDone(p) PROVE \A q \in Procs : Recalls(q) \/ Learns(q)
    <2> DEFINE rows == RowsWhere(LAMBDA j : status[j] \in Leasable /\ attempt[j] >= MaxAttempts)
    <2>1. Scan(p, "exhaust", rows) /\ UNCHANGED <<status, attempt>>
      BY <1>11 DEF ReconcileDone, table
    <2>2. \A r \in rows : status[r.job] \in Leasable /\ attempt[r.job] >= MaxAttempts
      BY SMTT(30) DEF RowsWhere, RowOf
    <2>3. list'[p] = rows /\ pc'[p] = "exhaust"
      BY <2>1 DEF Scan, LocalsType
    <2>4. Learns(p)
      BY <2>1, <2>2, <2>3 DEF Learns
    <2>5. \A q \in Procs : q # p => Recalls(q)
      BY <2>1, OthersRecall DEF Scan, LocalsType
    <2> QED
      BY <2>4, <2>5
  <1>12. ASSUME NEW p \in Procs, ReadBack(p) PROVE \A q \in Procs : Recalls(q) \/ Learns(q)
    <2>1. /\ \A q \in Procs : q # p => Recalls(q)
          /\ pc'[p] = IF held[p] \in CronJobs THEN "cron" ELSE "set-running"
          /\ held'[p] = held[p]
      BY <1>12, OthersRecall DEF ReadBack, LocalsType
    <2>2. Recalls(p) \/ Learns(p)
      BY <2>1 DEF Recalls, Learns
    <2> QED
      BY <2>1, <2>2
  <1>13. ASSUME NEW p \in Procs, StartRenewal(p) PROVE \A q \in Procs : Recalls(q) \/ Learns(q)
    <2>1. CASE ExactlyRunning(p)
      <3>1. /\ \A q \in Procs : q # p => Recalls(q)
            /\ pc'[p] = "execute" /\ held' = held /\ seen' = seen
            /\ started' = [started EXCEPT ![held[p]] = [started[held[p]] EXCEPT ![seen[p]] = started[held[p]][seen[p]] + 1]]
        BY <1>13, <2>1, OthersRecall DEF StartRenewal, LocalsType
      <3>2. /\ held[p] \in Jobs /\ 1 <= seen[p] /\ seen[p] \in Nat /\ seen[p] <= attempt[held[p]]
            /\ attempt[held[p]] <= MaxAttempts /\ attempt[held[p]] = seen[p]
        BY <1>13, <2>1 DEF StartRenewal, ExactlyRunning, LocalsType, Ledger, ProcLedger, RowLedger, Holding
      <3>3. seen[p] \in 1 .. MaxAttempts
        BY <3>2, StoreAssumption, SMTT(30)
      <3>4. started[held[p]] \in [1 .. MaxAttempts -> Nat]
        BY <3>2 DEF HistoryType
      <3>5. started'[held[p]][seen[p]] = started[held[p]][seen[p]] + 1 /\ started[held[p]][seen[p]] \in Nat
        BY <3>1, <3>2, <3>3, <3>4 DEF HistoryType
      <3>6. started'[held[p]][seen[p]] > 0
        BY <3>5, SMTT(30)
      <3> QED
        BY <3>1, <3>6 DEF Learns
    <2>2. CASE ~ExactlyRunning(p)
      BY <1>13, <2>2, LeaveRecalls DEF StartRenewal
    <2> QED
      BY <2>1, <2>2
  <1>14. ASSUME NEW p \in Procs,
                \/ run_deterministic_shell_job(p) \/ queue_llm_worker_turn(p) \/ LlmPayloadRejected(p)
                \/ WatchdogWakes(p) \/ WatchdogReschedules(p)
         PROVE  \A q \in Procs : Recalls(q) \/ Learns(q)
    <2>1. Failed(p) # "runtime-queued"
      BY DEF Failed
    <2>2. PICK o : Yield(p, o) /\ (o = "runtime-queued" => Kind[held[p]] = "llm")
      <3>1. CASE run_deterministic_shell_job(p) \/ WatchdogWakes(p)
        BY <2>1, <3>1 DEF run_deterministic_shell_job, WatchdogWakes
      <3>2. CASE queue_llm_worker_turn(p) \/ LlmPayloadRejected(p)
        BY <2>1, <3>2 DEF queue_llm_worker_turn, LlmPayloadRejected
      <3>3. CASE WatchdogReschedules(p)
        <4>1. Yield(p, "pending") \/ Yield(p, Failed(p))
          BY <3>3 DEF WatchdogReschedules
        <4>2. CASE Yield(p, "pending")
          <5>1. "pending" = "runtime-queued" => Kind[held[p]] = "llm"
            OBVIOUS
          <5> QED
            BY <4>2, <5>1
        <4>3. CASE Yield(p, Failed(p))
          BY <2>1, <4>3
        <4> QED
          BY <4>1, <4>2, <4>3
      <3> QED
        BY <1>14, <3>1, <3>2, <3>3
    <2>3. pc[p] = "execute"
      BY <1>14 DEF run_deterministic_shell_job, WatchdogWakes, queue_llm_worker_turn, LlmPayloadRejected, WatchdogReschedules
    <2>4. /\ \A q \in Procs : q # p => Recalls(q)
          /\ pc'[p] = "finish" /\ held' = held /\ seen' = seen /\ outcome'[p] = o
      BY <2>2, OthersRecall DEF Yield, LocalsType
    <2>5. Learns(p)
      BY <2>2, <2>3, <2>4 DEF Learns
    <2> QED
      BY <2>4, <2>5
  <1> QED
    BY <1>1, <1>2, <1>3, <1>4, <1>5, <1>6, <1>7, <1>8, <1>9, <1>10, <1>11, <1>12, <1>13, <1>14 DEF Next, Step

\* no statement stores a policy that does not parse
LEMMA PolicyStep == ASSUME TableType, [Next]_vars PROVE \A j \in Jobs : badPolicy'[j] => badPolicy[j]
  <1>1. ASSUME NEW j \in Jobs, enqueue_worker_job(j) \/ cancel_worker_job(j) \/ TurnEnds(j)
        PROVE  \A i \in Jobs : badPolicy'[i] => badPolicy[i]
    BY <1>1 DEF enqueue_worker_job, cancel_worker_job, TurnEnds, Quarantine, Settle, table
  <1>2. ASSUME NEW p \in Procs, Begin(p) PROVE \A i \in Jobs : badPolicy'[i] => badPolicy[i]
    BY <1>2 DEF Begin, Quarantine
  <1>3. ASSUME NEW p \in Procs, NEW r \in list[p],
               \/ reap_expired_worker_job(p, r) \/ set_runtime_terminal_with_mailbox(p, r)
               \/ terminalize_exhausted_pending_job(p, r) \/ ReconcileFails(p, r) \/ SelectRow(p, r)
        PROVE  UNCHANGED badPolicy
    BY <1>3
    DEF reap_expired_worker_job, set_runtime_terminal_with_mailbox, terminalize_exhausted_pending_job,
        ReconcileFails, SelectRow, Settle, table
  <1>4. ASSUME NEW p \in Procs,
               \/ ReapStaleReturns(p) \/ ReapDone(p) \/ ReconcileDone(p) \/ ExhaustDone(p) \/ NoWork(p)
               \/ lease_job(p) \/ record_rate_lease(p) \/ ReadBack(p) \/ CronAllows(p) \/ CronBlocks(p)
               \/ set_job_running(p) \/ StartRenewal(p)
        PROVE  UNCHANGED badPolicy
    BY <1>4
    DEF ReapStaleReturns, ReapDone, ReconcileDone, ExhaustDone, NoWork, lease_job, record_rate_lease, ReadBack,
        CronAllows, CronBlocks, set_job_running, StartRenewal, Settle, table
  <1>5. ASSUME NEW p \in Procs,
               \/ run_deterministic_shell_job(p) \/ queue_llm_worker_turn(p) \/ LlmPayloadRejected(p)
               \/ WatchdogWakes(p) \/ WatchdogReschedules(p) \/ persist_owned_execution_result(p)
               \/ Renew(p) \/ RenewGivesUp(p) \/ Crash(p)
        PROVE  UNCHANGED badPolicy
    BY <1>5
    DEF run_deterministic_shell_job, queue_llm_worker_turn, LlmPayloadRejected, WatchdogWakes, WatchdogReschedules,
        persist_owned_execution_result, Renew, RenewGivesUp, Crash, Settle, table
  <1>6. CASE Tick \/ UNCHANGED vars
    BY <1>6 DEF Tick, vars, table
  <1> QED
    BY <1>1, <1>2, <1>3, <1>4, <1>5, <1>6 DEF Next, Step

LEMMA LifeLedgerStep ==
    ASSUME TypeOK, TypeOK', Ledger, Ledger', LifeLedger, [Next]_vars, \A j \in Jobs : Lives(j) PROVE LifeLedger'
  <1>1. \A j \in Jobs : /\ Spent(j) => Spent(j)'
                        /\ status[j] # "absent" => status'[j] # "absent"
                        /\ \A a \in 1 .. MaxAttempts : started[j][a] > 0 => started'[j][a] > 0
    BY LifeKeeps DEF TypeOK
  <1>2. ASSUME NEW p \in Procs PROVE Memory(p)'
    <2>1. Memory(p) /\ (Recalls(p) \/ Learns(p))
      BY RecallStep DEF TypeOK, LifeLedger
    <2>2. pc[p] \in {"execute", "finish"} => held[p] \in Jobs /\ seen[p] \in 1 .. MaxAttempts
      <3> SUFFICES ASSUME pc[p] \in {"execute", "finish"}
                   PROVE  held[p] \in Jobs /\ seen[p] \in 1 .. MaxAttempts
        OBVIOUS
      <3>1. /\ held[p] \in Jobs /\ 1 <= seen[p] /\ seen[p] \in Nat /\ seen[p] <= attempt[held[p]]
            /\ attempt[held[p]] <= MaxAttempts /\ attempt[held[p]] \in Nat
        BY DEF TypeOK, LocalsType, TableType, Ledger, ProcLedger, RowLedger, Holding
      <3> QED
        BY <3>1, StoreAssumption, SMTT(30)
    <2>3. \A r \in list[p] : r.job \in Jobs
      BY SMTT(30) DEF TypeOK, LocalsType, Row
    <2>4. CASE Recalls(p)
      BY <1>1, <2>1, <2>2, <2>3, <2>4 DEF Memory, Recalls
    <2>5. CASE Learns(p)
      <3>1. CASE /\ pc'[p] = "exhaust" /\ UNCHANGED <<status, attempt>>
                 /\ \A r \in list'[p] : status[r.job] \in Leasable /\ attempt[r.job] >= MaxAttempts
        BY <3>1 DEF Memory, Spent
      <3>2. CASE pc'[p] = "cron" /\ held'[p] \in CronJobs
        BY <3>2 DEF Memory
      <3>3. CASE pc'[p] = "execute" /\ started'[held'[p]][seen'[p]] > 0
        BY <3>3 DEF Memory
      <3>4. CASE /\ pc[p] = "execute" /\ pc'[p] = "finish" /\ held'[p] = held[p] /\ seen'[p] = seen[p]
                 /\ outcome'[p] = "runtime-queued" => Kind[held[p]] = "llm"
        BY <1>1, <2>1, <2>2, <3>4 DEF Memory
      <3> QED
        BY <2>5, <3>1, <3>2, <3>3, <3>4 DEF Learns
    <2> QED
      BY <2>1, <2>4, <2>5
  <1>3. \A j \in Jobs : badPolicy'[j] => status'[j] # "absent"
    BY <1>1, PolicyStep DEF TypeOK, LifeLedger
  <1> QED
    BY <1>2, <1>3 DEF LifeLedger

LEMMA LifeLedgerInvariant == Spec => [](LifeLedger /\ Published)
  <1>1. Init => LifeLedger /\ Published
    <2> SUFFICES ASSUME Init PROVE LifeLedger /\ Published
      OBVIOUS
    <2>1. \A p \in Procs : Memory(p)
      BY DEF Init, Memory
    <2>2. \A j \in Jobs : badPolicy[j] => status[j] # "absent"
      BY DEF Init
    <2>3. Published
      BY SMTT(30) DEF Init, Published
    <2> QED
      BY <2>1, <2>2, <2>3 DEF LifeLedger
  <1>2. TypeOK /\ TypeOK' /\ Ledger /\ Ledger' /\ Concluding /\ LifeLedger /\ Published /\ [Next]_vars
            => (LifeLedger /\ Published)'
    BY LifeStep, LifeLedgerStep, PublishedStep
  <1> QED
    BY <1>1, <1>2, TypeCorrect, LedgerInvariant, ConcludingInvariant, PTL DEF Spec

\* Every step of the store, whoever takes it, is for each row a step of the life
\* JobLife describes or none (enqueue, lease, run, settle, cancel and quarantine).
THEOREM StoreRefinesLife == Spec => RowsLive
  <1>1. Init => \A j \in Jobs : Life(j)!Init
    BY SMTT(30) DEF Init, Life!Init, PhaseOf, Leasable
  <1>2. TypeOK /\ Ledger /\ Concluding /\ LifeLedger /\ Published /\ [Next]_vars
            => \A j \in Jobs : [Life(j)!Next]_(Life(j)!vars)
    BY LifeStep DEF Lives
  <1> QED
    BY <1>1, <1>2, TypeCorrect, LedgerInvariant, ConcludingInvariant, LifeLedgerInvariant, PTL DEF Spec, RowsLive

\* ... so the row of any one job implements the specification of its life.
THEOREM JobLives == ASSUME NEW j \in Jobs PROVE Spec => Life(j)!Spec
  <1>1. Init => Life(j)!Init
    BY SMTT(30) DEF Init, Life!Init, PhaseOf, Leasable
  <1>2. TypeOK /\ Ledger /\ Concluding /\ LifeLedger /\ Published /\ [Next]_vars => [Life(j)!Next]_(Life(j)!vars)
    BY LifeStep DEF Lives
  <1> QED
    BY <1>1, <1>2, TypeCorrect, LedgerInvariant, ConcludingInvariant, LifeLedgerInvariant, PTL DEF Spec, Life!Spec
=============================================================================
