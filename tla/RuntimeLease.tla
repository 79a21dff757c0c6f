---------------------------- MODULE RuntimeLease ----------------------------
(***************************************************************************)
(* Execution leases of the runtime queue, and the child-cleanup fences     *)
(* that keep a lane closed while a Codex process tree may be alive         *)
(* (runtime_worker.rs, runtime_pipeline.rs, codex_runtime.rs).             *)
(*                                                                         *)
(* A runner executes one queue item at a time: a run-once process, or a    *)
(* thread of the run loop taken as a process of its own. It leases the     *)
(* item, prepares the turn without the class lock, captures the lease as a *)
(* guard, prearms the lane's fence, spawns and binds the child, polls and  *)
(* renews while the turn runs, proves the child's tree gone, clears the    *)
(* fence, releases the lease and appends the run-once receipt. Or it       *)
(* inspects the queue, as the run loop does to find claimable items. Both  *)
(* purge the lease file with a snapshot of the receipt index taken before  *)
(* they got the class lock. Every section under the class lock is one      *)
(* step, except prepare: it reads the lease files of other classes and     *)
(* writes its own in separate steps with the lock held in between.         *)
(*                                                                         *)
(* An acquisition (owner process generation and acquired_at_ms) names its  *)
(* runner and item, and a small number in place of the timestamp.  One     *)
(* that neither a file nor a process refers to may come again, so that     *)
(* equal acquisitions are always the same acquisition.                     *)
(***************************************************************************)
EXTENDS Naturals, FiniteSets

CONSTANTS
    Items,        \* queue ids
    Created,      \* order of created_at_ms, then queue id
    Lanes, Lane,  \* the exact lane of an item
    Classes, Class,  \* the runtime class of a lane
    Runners,
    Stamps,       \* numbers of acquisitions
    Platforms,    \* "windows" or "unix"
    Limit,        \* leases that block a further one of this class
    MaxAttempts,  \* max_failure_attempts
    Waiting,      \* items that start in backoff, after one retryable failure
    LeaseTicks,   \* length of a lease
    MaxCrashes    \* bound on crashes

NoOne == "no-one"

ASSUME LanesAssumption ==
    /\ Items # {} /\ NoOne \notin Runners
    /\ Lane \in [Items -> Lanes] /\ Class \in [Lanes -> Classes]
    /\ Created \in [Items -> Nat]
ASSUME StampsAssumption == Stamps \subseteq Nat \ {0} /\ IsFiniteSet(Stamps)
ASSUME PlatformsAssumption == Platforms \subseteq {"windows", "unix"}
ASSUME LimitsAssumption ==
    /\ Limit \in [Classes -> Nat]
    /\ Waiting \subseteq Items /\ (Waiting # {} => MaxAttempts > 1)
    /\ MaxAttempts \in Nat /\ LeaseTicks \in Nat \ {0} /\ MaxCrashes \in Nat

VARIABLES
    platform,
    status,    \* what the receipt index says of an item
    failures,  \* retryable failures among its receipts
    backoff,   \* items whose next_eligible_at_ms is still to come
    done,      \* items whose completed turn is on record
    lease,     \* lease files: the acquisition holding an item, or NoAcq
    left,      \* ticks until the lease expires
    fence,     \* child-cleanup fence files
    lock,      \* holder of each class's lock file
    dead,      \* acquisitions whose process generation is gone
    kids,      \* acquisitions whose child tree is alive
    deferred,  \* acquisitions whose proof a retry worker still owes
    op,        \* what each runner is doing
    crashes

files == <<status, failures, done, lease, left, fence>>
procs == <<lock, dead, kids, deferred, op>>
vars == <<platform, files, backoff, procs, crashes>>

AnItem == CHOOSE i \in Items : TRUE

Acqs == [own : Runners, item : Items, n : Stamps]
NoAcq == [own |-> NoOne, item |-> AnItem, n |-> 0]
NoFence == [acq |-> NoAcq, phase |-> "none"]
Phases == {"spawn-in-progress", "child-bound", "cleanup-proven"}
Closed == {"completed", "failed"}  \* failed, canceled or dead-letter
Statuses == {"idle", "retry-pending"} \cup Closed
Outcomes == {"none", "completed", "retryable", "failed"}
Pcs == {"idle", "inspect", "lock", "write", "no-work", "prepare", "capture", "prearm",
        "spawn", "bind", "run", "prove", "clear", "release", "receipt"}

ClassOf(i) == Class[Lane[i]]
Free(i) == lock[ClassOf(i)] = NoOne
Fenced(i) == fence[Lane[i]] # NoFence
Older(j, i) == Lane[j] = Lane[i] /\ Created[j] < Created[i]

Unseen == [i \in Items |-> "idle"]

\* A runner's program counter, its item and acquisition, the index snapshot
\* it purges with, the classes it has still to inspect, the leases its purge
\* keeps, whether its item is to be leased, and how its turn ended.
Ops == [pc : Pcs, item : Items, acq : Acqs \cup {NoAcq}, seen : [Items -> Statuses],
        todo : SUBSET Classes, keep : SUBSET Items, grant : BOOLEAN, out : Outcomes]
Resting == [pc |-> "idle", item |-> AnItem, acq |-> NoAcq, seen |-> Unseen,
            todo |-> {}, keep |-> {}, grant |-> FALSE, out |-> "none"]

\* The index as the processes find it when they start.
Init ==
    /\ platform \in Platforms
    /\ status = [i \in Items |-> IF i \in Waiting THEN "retry-pending" ELSE "idle"]
    /\ failures = [i \in Items |-> IF i \in Waiting THEN 1 ELSE 0]
    /\ backoff = Waiting /\ done = {}
    /\ lease = [i \in Items |-> NoAcq] /\ left = [i \in Items |-> 0]
    /\ fence = [l \in Lanes |-> NoFence]
    /\ lock = [c \in Classes |-> NoOne]
    /\ dead = {} /\ kids = {} /\ deferred = {}
    /\ op = [p \in Runners |-> Resting]
    /\ crashes = 0

-----------------------------------------------------------------------------
(* Purging a class's leases, under its lock *)

\* A mutant: a dead owner does not prove its child dead.
ProvenOnly(l) ==
    LET f == fence[l] IN
    f # NoFence /\ lease[f.acq.item] = f.acq /\ f.phase = "cleanup-proven"

\* A mutant: a dead owner's unbound child counts as dead on Unix too.
UnboundIsClean(l) ==
    LET f == fence[l] IN
    /\ f # NoFence
    /\ lease[f.acq.item] = f.acq
    /\ \/ f.phase = "cleanup-proven"
       \/ f.acq \in dead /\ f.phase = "spawn-in-progress"
       \/ f.acq \in dead /\ f.phase = "child-bound" /\ f.acq \notin kids

\* reconcile_orphaned_runtime_queue_child_cleanup_fences_locked: a fence whose
\* exact lease is retained goes once its cleanup is proven, or once its owner
\* is dead and so, provably, is its child.  On Unix a child that was never
\* bound cannot be proven dead.
Reconcilable(l) ==
    LET f == fence[l] IN
    /\ f # NoFence
    /\ lease[f.acq.item] = f.acq
    /\ \/ f.phase = "cleanup-proven"
       \/ f.acq \in dead /\ f.phase = "spawn-in-progress" /\ platform = "windows"
       \/ f.acq \in dead /\ f.phase = "child-bound" /\ f.acq \notin kids

Reconciled(c) ==
    [l \in Lanes |-> IF Class[l] = c /\ Reconcilable(l) THEN NoFence ELSE fence[l]]

\* A mutant: a fenced lease is purged like any other.
KeptUnfenced(c, seen) ==
    {i \in Items :
        /\ lease[i] # NoAcq /\ ClassOf(i) = c
        /\ seen[i] = "idle" /\ left[i] > 0 /\ lease[i] \notin dead}

\* purge_runtime_queue_leases: what stays of class c's leases.  A fenced lease
\* stays; others go when the snapshot calls their item terminal or waiting for
\* a retry, when they have expired and when their owner is dead.
Kept(c, seen) ==
    {i \in Items :
        /\ lease[i] # NoAcq /\ ClassOf(i) = c
        /\ \/ Reconciled(c)[Lane[i]] # NoFence
           \/ seen[i] = "idle" /\ left[i] > 0 /\ lease[i] \notin dead}

\* inspect_runtime_queue_capacity reads the index once, then visits the
\* classes; one whose lock stays busy is skipped.
InspectStart(p) ==
    /\ op[p].pc = "idle"
    /\ op' = [op EXCEPT ![p] = [@ EXCEPT !.pc = "inspect", !.todo = Classes, !.seen = status]]
    /\ UNCHANGED <<platform, files, backoff, lock, dead, kids, deferred,
                   crashes>>

Visited(p, c) == op' = [op EXCEPT ![p] =
                          IF op[p].todo = {c} THEN Resting
                          ELSE [op[p] EXCEPT !.todo = @ \ {c}]]

InspectClass(p, c) ==
    /\ op[p].pc = "inspect" /\ c \in op[p].todo /\ lock[c] = NoOne
    /\ LET gone == {i \in Items : ClassOf(i) = c} \ Kept(c, op[p].seen)
       IN  /\ lease' = [i \in Items |-> IF i \in gone THEN NoAcq ELSE lease[i]]
           /\ left' = [i \in Items |-> IF i \in gone THEN 0 ELSE left[i]]
    /\ fence' = Reconciled(c)
    /\ Visited(p, c)
    /\ UNCHANGED <<platform, status, failures, done, backoff, lock, dead, kids,
                   deferred, crashes>>

InspectBusy(p, c) ==
    /\ op[p].pc = "inspect" /\ c \in op[p].todo /\ lock[c] # NoOne
    /\ Visited(p, c)
    /\ UNCHANGED <<platform, files, backoff, lock, dead, kids, deferred,
                   crashes>>

-----------------------------------------------------------------------------
(* prepare_runtime_queue_item *)

Goto(p, pc) == op' = [op EXCEPT ![p].pc = pc]
End(p, pc, out) == op' = [op EXCEPT ![p].pc = pc, ![p].out = out]

\* The snapshot: terminal, retry-pending and parked ids are read before the
\* class lock is asked for.
Request(p, i) ==
    /\ op[p].pc = "idle" /\ status[i] \notin Closed
    /\ op' = [op EXCEPT ![p] = [@ EXCEPT !.pc = "lock", !.item = i, !.seen = status]]
    /\ UNCHANGED <<platform, files, backoff, lock, dead, kids, deferred,
                   crashes>>

\* runtime_capacity_blocker: the lane's fence, the class's share of the global
\* limit (other classes' files are read without their locks) and the lane's
\* one active lease.
HasCapacity(i, kept) ==
    LET live == kept \cup {j \in Items : lease[j] # NoAcq /\ ClassOf(j) # ClassOf(i)}
    IN  /\ Reconciled(ClassOf(i))[Lane[i]] = NoFence
        /\ Cardinality(live) < Limit[ClassOf(i)]
        /\ \A j \in live : Lane[j] # Lane[i]

\* A mutant: an older item of the lane does not block.
NoFifo(i, seen) == TRUE

\* same_session_fifo_blocker.
FirstInLane(i, seen) == \A j \in Items : Older(j, i) => seen[j] \in Closed

\* retry_schedule_dispatch_blocker.
Eligible(i, seen) == ~(seen[i] = "retry-pending" /\ i \in backoff)

Grantable(i, seen, kept) ==
    /\ status[i] \notin Closed /\ seen[i] \notin Closed
    /\ i \notin kept
    /\ Eligible(i, seen) /\ HasCapacity(i, kept) /\ FirstInLane(i, seen)

\* The locked section up to the write: fences are reconciled on disk, leases
\* are purged in memory, and the item is granted or refused.
Reserve(p) ==
    LET i == op[p].item
        kept == Kept(ClassOf(i), op[p].seen)
    IN  /\ op[p].pc = "lock" /\ Free(i)
        /\ lock' = [lock EXCEPT ![ClassOf(i)] = p]
        /\ fence' = Reconciled(ClassOf(i))
        /\ op' = [op EXCEPT ![p] =
               [@ EXCEPT !.pc = "write", !.keep = kept, !.seen = Unseen,
                         !.grant = Grantable(i, op[p].seen, kept)]]
        /\ UNCHANGED <<platform, status, failures, done, lease, left, backoff,
                       dead, kids, deferred, crashes>>

\* The lock stays busy for the length of the wait.
LockBusy(p) ==
    /\ op[p].pc = "lock" /\ ~Free(op[p].item)
    /\ op' = [op EXCEPT ![p] = [@ EXCEPT !.pc = "no-work", !.seen = Unseen]]
    /\ UNCHANGED <<platform, files, backoff, lock, dead, kids, deferred,
                   crashes>>

InUse ==
    {lease[i] : i \in Items} \cup {fence[l].acq : l \in Lanes}
        \cup {op[p].acq : p \in Runners} \cup kids \cup deferred

\* The acquisitions of item i that process p can make.
Fresh(p, i) == {a \in Acqs \ InUse : a.own = p /\ a.item = i}
FreshAcq(p, i) == CHOOSE a \in Fresh(p, i) : TRUE

\* write_runtime_queue_leases, with the item's new lease if it was granted,
\* and the end of the locked section.
WriteLeases(p) ==
    LET i == op[p].item
        c == ClassOf(i)
        gone == {j \in Items : ClassOf(j) = c} \ op[p].keep
        a == FreshAcq(p, i)
        Written(f, new, none) ==
            [j \in Items |-> IF j = i /\ op[p].grant THEN new
                             ELSE IF j \in gone THEN none ELSE f[j]]
    IN  /\ op[p].pc = "write"
        /\ op[p].grant => Fresh(p, i) # {}
        /\ lease' = Written(lease, a, NoAcq)
        /\ left' = Written(left, LeaseTicks, 0)
        /\ lock' = [lock EXCEPT ![c] = NoOne]
        /\ IF op[p].grant
           THEN /\ dead' = dead \ {a}
                /\ op' = [op EXCEPT ![p] = [@ EXCEPT !.pc = "prepare", !.acq = a,
                                                    !.keep = {}, !.grant = FALSE]]
           ELSE /\ op' = [op EXCEPT ![p] = [@ EXCEPT !.pc = "no-work", !.keep = {}]]
                /\ dead' = dead
        /\ UNCHANGED <<platform, status, failures, done, fence, backoff, kids,
                       deferred, crashes>>

\* The requested item was refused: a run-once receipt with status no-work or
\* lease-busy is appended for it, and becomes its latest status.
NoWork(p) ==
    LET i == op[p].item IN
    /\ op[p].pc = "no-work"
    /\ status' = [status EXCEPT ![i] = IF @ \in Closed THEN @ ELSE "idle"]
    /\ op' = [op EXCEPT ![p] = Resting]
    /\ UNCHANGED <<platform, failures, done, lease, left, fence, backoff, lock,
                   dead, kids, deferred, crashes>>

\* release_runtime_queue_lease_if_owned: exactly this acquisition, and only
\* when its lane is not fenced.
Released(p) ==
    LET i == op[p].item
        go == Free(i) /\ lease[i] = op[p].acq /\ ~Fenced(i)
    IN  /\ lease' = IF go THEN [lease EXCEPT ![i] = NoAcq] ELSE lease
        /\ left' = IF go THEN [left EXCEPT ![i] = 0] ELSE left

\* Prompt assembly or planning fails: the guard unwinds the lease.
PrepareFails(p) ==
    /\ op[p].pc = "prepare"
    /\ Released(p)
    /\ op' = [op EXCEPT ![p] = Resting]
    /\ UNCHANGED <<platform, status, failures, done, fence, backoff, lock,
                   dead, kids, deferred, crashes>>

-----------------------------------------------------------------------------
(* The turn: run_codex_runtime and drive_codex_app_server *)

\* A turn already recorded as completed, or recovered from its output log, is
\* not sent to the model again.
CheckCompletion(p) ==
    /\ op[p].pc = "prepare"
    /\ IF op[p].item \in done THEN End(p, "release", "completed")
       ELSE Goto(p, "capture")
    /\ UNCHANGED <<platform, files, backoff, lock, dead, kids, deferred,
                   crashes>>

\* The lease is still this acquisition's and has not expired.
Holds(p) == lease[op[p].item] = op[p].acq /\ left[op[p].item] > 0

\* capture_runtime_queue_lease_guard_for_authority.  A busy lock is retryable
\* backpressure, a lost lease a protocol error.
Capture(p) ==
    /\ op[p].pc = "capture"
    /\ IF ~Free(op[p].item) THEN End(p, "release", "retryable")
       ELSE IF Holds(p) THEN Goto(p, "prearm")
       ELSE End(p, "release", "failed")
    /\ UNCHANGED <<platform, files, backoff, lock, dead, kids, deferred,
                   crashes>>

\* A mutant: prearming does not look at the lease again.
PrearmUnchecked(p) ==
    LET l == Lane[op[p].item] IN
    /\ op[p].pc = "prearm"
    /\ IF Free(op[p].item) /\ fence[l] = NoFence
       THEN /\ fence' = [fence EXCEPT ![l] =
                           [acq |-> op[p].acq, phase |-> "spawn-in-progress"]]
            /\ Goto(p, "spawn")
       ELSE End(p, "release", "failed") /\ fence' = fence
    /\ UNCHANGED <<platform, status, failures, done, lease, left, backoff, lock,
                   dead, kids, deferred, crashes>>

\* prearm_runtime_queue_child_cleanup_fence.
Prearm(p) ==
    LET l == Lane[op[p].item] IN
    /\ op[p].pc = "prearm"
    /\ IF Free(op[p].item) /\ Holds(p) /\ fence[l] = NoFence
       THEN /\ fence' = [fence EXCEPT ![l] =
                           [acq |-> op[p].acq, phase |-> "spawn-in-progress"]]
            /\ Goto(p, "spawn")
       ELSE End(p, "release", "failed") /\ fence' = fence
    /\ UNCHANGED <<platform, status, failures, done, lease, left, backoff, lock,
                   dead, kids, deferred, crashes>>

Spawn(p) ==
    /\ op[p].pc = "spawn"
    /\ kids' = kids \cup {op[p].acq}
    /\ Goto(p, "bind")
    /\ UNCHANGED <<platform, files, backoff, lock, dead, deferred,
                   crashes>>

SpawnFails(p) ==
    /\ op[p].pc = "spawn"
    /\ End(p, "prove", "failed")
    /\ UNCHANGED <<platform, files, backoff, lock, dead, kids, deferred,
                   crashes>>

\* bind_runtime_queue_child_cleanup_fence; a child that cannot be bound is
\* killed.
Bind(p) ==
    LET l == Lane[op[p].item]
        mine == [acq |-> op[p].acq, phase |-> "spawn-in-progress"]
    IN  /\ op[p].pc = "bind"
        /\ IF Free(op[p].item) /\ fence[l] = mine
           THEN /\ fence' = [fence EXCEPT ![l].phase = "child-bound"]
                /\ Goto(p, "run") /\ kids' = kids
           ELSE /\ kids' = kids \ {op[p].acq}
                /\ End(p, "prove", "failed") /\ fence' = fence
        /\ UNCHANGED <<platform, status, failures, done, lease, left, backoff,
                       lock, dead, deferred, crashes>>

\* A mutant: an expired lease is renewed all the same.
RenewExpired(p) ==
    LET i == op[p].item IN
    /\ op[p].pc = "run" /\ left[i] <= 1
    /\ Free(i) /\ lease[i] = op[p].acq
    /\ left' = [left EXCEPT ![i] = LeaseTicks]
    /\ UNCHANGED <<platform, status, failures, done, lease, fence, backoff,
                   lock, dead, kids, deferred, op, crashes>>

\* RuntimeCancelCheck::poll inside the renewal margin.  The lease is renewed
\* if it is still held and its item is not terminal; otherwise, and when the
\* lock is busy this close to expiry, ownership is lost and the turn is
\* canceled.
Poll(p) ==
    LET i == op[p].item IN
    /\ op[p].pc = "run" /\ left[i] <= 1
    /\ IF Free(i) /\ Holds(p) /\ status[i] \notin Closed
       THEN left' = [left EXCEPT ![i] = LeaseTicks] /\ UNCHANGED <<kids, op>>
       ELSE /\ kids' = kids \ {op[p].acq}
            /\ End(p, "prove", "failed") /\ left' = left
    /\ UNCHANGED <<platform, status, failures, done, lease, fence, backoff,
                   lock, dead, deferred, crashes>>

\* The turn ends and the child's tree is killed and reaped.
TurnEnds(p, out) ==
    /\ op[p].pc = "run"
    /\ done' = IF out = "completed" THEN done \cup {op[p].item} ELSE done
    /\ kids' = kids \ {op[p].acq}
    /\ End(p, "prove", out)
    /\ UNCHANGED <<platform, status, failures, lease, left, fence, backoff,
                   lock, dead, deferred, crashes>>

-----------------------------------------------------------------------------
(* Cleanup proof, release and receipt *)

Fence(a) == fence[Lane[a.item]]

\* mark_runtime_queue_child_cleanup_proven.  A fence that is gone already was
\* reconciled; one of another acquisition is left alone.
Prove(p) ==
    LET a == op[p].acq IN
    /\ op[p].pc = "prove" /\ Free(op[p].item)
    /\ \/ /\ Fence(a).acq = a
          /\ fence' = [fence EXCEPT ![Lane[a.item]].phase = "cleanup-proven"]
          /\ Goto(p, "clear")
       \/ Fence(a) = NoFence /\ Goto(p, "release") /\ fence' = fence
    /\ UNCHANGED <<platform, status, failures, done, lease, left, backoff, lock,
                   dead, kids, deferred, crashes>>

\* clear_runtime_queue_child_cleanup_fence.
Clear(p) ==
    LET a == op[p].acq IN
    /\ op[p].pc = "clear" /\ Free(op[p].item)
    /\ fence' = IF Fence(a) = [acq |-> a, phase |-> "cleanup-proven"]
                THEN [fence EXCEPT ![Lane[a.item]] = NoFence] ELSE fence
    /\ Goto(p, "release")
    /\ UNCHANGED <<platform, status, failures, done, lease, left, backoff, lock,
                   dead, kids, deferred, crashes>>

\* finalize_or_retry_child_cleanup_proof: the lock stays busy, the proof is
\* left to a retry worker and the runner goes on.
Defer(p) ==
    /\ op[p].pc \in {"prove", "clear"} /\ ~Free(op[p].item)
    /\ deferred' = deferred \cup {op[p].acq}
    /\ Goto(p, "release")
    /\ UNCHANGED <<platform, files, backoff, lock, dead, kids,
                   crashes>>

RetryProof(a) ==
    LET l == Lane[a.item] IN
    /\ a \in deferred /\ lock[Class[l]] = NoOne
    /\ IF Fence(a).acq = a /\ Fence(a).phase # "cleanup-proven"
       THEN /\ fence' = [fence EXCEPT ![l].phase = "cleanup-proven"]
            /\ deferred' = deferred
       ELSE /\ fence' = IF Fence(a).acq = a THEN [fence EXCEPT ![l] = NoFence]
                        ELSE fence
            /\ deferred' = deferred \ {a}
    /\ UNCHANGED <<platform, status, failures, done, lease, left, backoff, lock,
                   dead, kids, op, crashes>>

\* The lease is released before the receipt is appended.
Release(p) ==
    /\ op[p].pc = "release"
    /\ Released(p)
    /\ Goto(p, "receipt")
    /\ UNCHANGED <<platform, status, failures, done, fence, backoff, lock,
                   dead, kids, deferred, crashes>>

\* A mutant: a retryable failure is retried however many there were.
RetryForEver(p) ==
    LET i == op[p].item
        again == op[p].out = "retryable"
    IN  /\ op[p].pc = "receipt"
        /\ status' = [status EXCEPT ![i] =
               IF again THEN "retry-pending"
               ELSE IF op[p].out = "completed" THEN "completed" ELSE "failed"]
        /\ failures' = [failures EXCEPT ![i] = IF again THEN @ + 1 ELSE @]
        /\ backoff' = IF again THEN backoff \cup {i} ELSE backoff
        /\ op' = [op EXCEPT ![p] = Resting]
        /\ UNCHANGED <<platform, done, lease, left, fence, lock, dead,
                       kids, deferred, crashes>>

\* final_run_once_status, and the receipt's effect on the index.  A terminal
\* status is terminal ever after, but a later terminal receipt replaces it.
Receipt(p) ==
    LET i == op[p].item
        out == op[p].out
        again == out = "retryable" /\ failures[i] + 1 < MaxAttempts
    IN  /\ op[p].pc = "receipt"
        /\ status' = [status EXCEPT ![i] =
               IF out = "completed" THEN "completed"
               ELSE IF ~again THEN "failed"
               ELSE IF @ \in Closed THEN @ ELSE "retry-pending"]
        /\ failures' = [failures EXCEPT ![i] = IF again THEN @ + 1 ELSE @]
        /\ backoff' = IF again THEN backoff \cup {i} ELSE backoff
        /\ op' = [op EXCEPT ![p] = Resting]
        /\ UNCHANGED <<platform, done, lease, left, fence, lock, dead,
                       kids, deferred, crashes>>

-----------------------------------------------------------------------------
(* Time, crashes and orphans *)

Tick ==
    /\ \E i \in Items : left[i] > 0
    /\ left' = [i \in Items |-> IF left[i] > 0 THEN left[i] - 1 ELSE 0]
    /\ UNCHANGED <<platform, status, failures, done, lease, fence, backoff,
                   procs, crashes>>

Elapse(i) ==
    /\ i \in backoff
    /\ backoff' = backoff \ {i}
    /\ UNCHANGED <<platform, files, procs, crashes>>

\* A runner's process dies, or aborts because it cannot prove its child's tree
\* gone (fail_closed_child_cleanup_generation), with its retry workers.  Its lock file goes (or
\* becomes stale and is taken over).  On Windows its children die with their
\* Job; on Unix they live on.
Crash(p) ==
    LET mine == {a \in InUse : a.own = p} IN
    /\ crashes < MaxCrashes
    /\ op[p].pc # "idle" \/ mine \cap deferred # {}
    /\ crashes' = crashes + 1
    /\ lock' = [c \in Classes |-> IF lock[c] = p THEN NoOne ELSE lock[c]]
    /\ dead' = dead \cup mine
    /\ deferred' = deferred \ mine
    /\ kids' = IF platform = "windows" THEN kids \ mine ELSE kids
    /\ op' = [op EXCEPT ![p] = Resting]
    /\ UNCHANGED <<platform, files, backoff>>

OrphanDies(a) ==
    /\ a \in kids /\ a \in dead
    /\ kids' = kids \ {a}
    /\ UNCHANGED <<platform, files, backoff, lock, dead, deferred, op,
                   crashes>>

RunnerStep(p) ==
    \/ LockBusy(p) \/ Reserve(p) \/ WriteLeases(p) \/ NoWork(p)
    \/ CheckCompletion(p) \/ Capture(p) \/ Prearm(p) \/ Spawn(p) \/ Bind(p)
    \/ \E c \in Classes : InspectClass(p, c) \/ InspectBusy(p, c)
    \/ Poll(p) \/ Prove(p) \/ Clear(p) \/ Defer(p) \/ Release(p) \/ Receipt(p)

Next ==
    \/ \E p \in Runners :
         \/ InspectStart(p) \/ RunnerStep(p)
         \/ PrepareFails(p) \/ SpawnFails(p) \/ Crash(p)
         \/ \E i \in Items : Request(p, i)
         \/ \E out \in Outcomes \ {"none"} : TurnEnds(p, out)
    \/ \E a \in Acqs : RetryProof(a) \/ OrphanDies(a)
    \/ Tick
    \/ \E i \in Items : Elapse(i)

Spec == Init /\ [][Next]_vars

\* A process with nothing to do inspects the queue again, one that has started
\* goes on, and a child whose owner is gone loses its pipes and ends.
FairSpec ==
    /\ Spec
    /\ \A p \in Runners : WF_vars(InspectStart(p) \/ RunnerStep(p))
    /\ WF_vars(\E a \in Acqs : OrphanDies(a))

-----------------------------------------------------------------------------
(* Properties *)

\* The shape of the lease files, the fences and the processes' local state.
TypeOK ==
    /\ platform \in Platforms
    /\ status \in [Items -> Statuses]
    /\ failures \in [Items -> 0..MaxAttempts]
    /\ backoff \subseteq Items /\ done \subseteq Items
    /\ lease \in [Items -> Acqs \cup {NoAcq}]
    /\ left \in [Items -> 0..LeaseTicks]
    /\ fence \in [Lanes -> [acq : Acqs, phase : Phases] \cup {NoFence}]
    /\ lock \in [Classes -> Runners \cup {NoOne}]
    /\ dead \subseteq Acqs /\ kids \subseteq Acqs /\ deferred \subseteq Acqs
    /\ op \in [Runners -> Ops]
    /\ crashes \in 0..MaxCrashes

\* At most one child process tree is alive in a lane, whatever expires,
\* crashes or is purged in between (prearm_runtime_queue_child_cleanup_fence,
\* runtime_capacity_blocker).
OneChildPerLane ==
    \A a, b \in kids : Lane[a.item] = Lane[b.item] => a = b

\* While a child tree is alive its lane is fenced by its own acquisition, not
\* yet proven clean, and the lease file still names that acquisition: no
\* purge, release or reconciliation takes the lease from under a live child.
LeaseOutlivesChild ==
    \A a \in kids :
        /\ Fence(a).acq = a /\ Fence(a).phase # "cleanup-proven"
        /\ lease[a.item] = a

\* A turn on record as completed is never given to a child again, although
\* the lease is released before the receipt makes the item terminal
\* (run_codex_runtime's recorded-completion check).
CompletedTurnNotRepeated ==
    [][\A a \in kids' \ kids : a.item \notin done]_vars

\* A child is started only when every older item of its lane is terminal,
\* although FIFO is decided on a snapshot older than the lock
\* (same_session_fifo_blocker).
LaneFifo ==
    [][\A a \in kids' \ kids, j \in Items :
          Older(j, a.item) => status[j] \in Closed]_vars

\* A turn whose lease has run out is stopped: no renewal brings the lease back
\* (renew_runtime_queue_lease, lease-expired-no-resurrection).
ExpiredTurnStops ==
    \A p \in Runners :
        (op[p].pc = "run" /\ left[op[p].item] = 0) ~> op[p].pc # "run"

\* A dead owner's lease does not hold its lane for ever, except behind the
\* fence of a Unix child that was spawned and not yet bound
\* (purge_runtime_queue_leases, reconcile_orphaned_...fences_locked).
DeadOwnerReaped ==
    \A i \in Items :
        (/\ lease[i] # NoAcq /\ lease[i] \in dead
         /\ platform = "windows" \/ fence[Lane[i]].phase # "spawn-in-progress")
            ~> (lease[i] = NoAcq \/ lease[i] \notin dead)

\* The durable retry backoff: an item is not leased before its
\* next_eligible_at_ms (retry_schedule_dispatch_blocker).
BackoffHonoured ==
    [][\A i \in Items :
          lease'[i] # lease[i] /\ lease'[i] # NoAcq => i \notin backoff]_vars

=============================================================================
