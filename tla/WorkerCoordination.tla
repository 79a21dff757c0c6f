------------------------- MODULE WorkerCoordination -------------------------
(***************************************************************************)
(* How a parent turn that handed work to children is resumed once they are *)
(* done: coordinator waits (worker_coordination.rs), the result mailbox    *)
(* (worker_result_mailbox.rs), resume intents (worker_resume.rs), the      *)
(* durable watchdog job (workers.rs) and the continuation's first lease    *)
(* (runtime_worker.rs).                                                    *)
(*                                                                         *)
(* An action is one SQLite transaction, or one observation of the runtime  *)
(* lease files.  The watchdog observes the lane first and commits the      *)
(* resume in a later transaction; other jobs, other watchdogs, the runtime *)
(* loop and crashes come between the two.                                  *)
(***************************************************************************)
EXTENDS Naturals, Sequences, FiniteSets

CONSTANTS
    Waits,        \* wait ids
    Groups,       \* child group ids
    Coordinators, \* coordinator keys: exact lane, virtual session, parent queue
    Children,     \* child job ids
    GroupOf,      \* the child group of a wait
    CoordOf,      \* the coordinator key of a wait
    Kids,         \* the child jobs of a group
    None,
    MaxAttempts,  \* max_attempts of the watchdog job (10 in the code)
    Deadline,     \* its wake policy's deadline, in seconds (900 in the code)
    MaxOthers,    \* bound on newer turns of the same lane
    MaxCrashes,   \* bound on crashes of watchdogs and continuations
    MaxReadmits,  \* bound on repeated admissions
    CanSkip       \* whether an operator may skip a queued continuation

ASSUME StructureAssumption ==
    /\ GroupOf \in [Waits -> Groups]
    /\ CoordOf \in [Waits -> Coordinators]
    /\ Kids \in [Groups -> SUBSET Children]
    /\ \A g \in Groups : Kids[g] # {} /\ IsFiniteSet(Kids[g])
    /\ \A g, h \in Groups : g # h => Kids[g] \cap Kids[h] = {}
    /\ None \notin Waits \cup Coordinators
ASSUME CoordinationBounds ==
    /\ MaxAttempts \in Nat \ {0}
    /\ {Deadline, MaxOthers, MaxCrashes, MaxReadmits} \subseteq Nat
    /\ CanSkip \in BOOLEAN

VARIABLES
    wait,     \* worker_coordinator_waits: state and bound intent of each wait
    job,      \* status of each child job
    owner,    \* coordinator key in the job's result_owner_json
    receipt,  \* the child's terminal runtime receipt, not yet reconciled
    mail,     \* worker_result_mailbox: the row of each terminal event key
    live,     \* whether the claim made under a wait's token is unexpired
    intents,  \* worker_resume_intents of each coordinator, by generation
    dog,      \* the watchdog job of each group
    lane,     \* which queue item leases the coordinator's exact lane
    answer,   \* what the last admission of a wait returned
    others, crashes, readmits

vars == <<wait, job, owner, receipt, mail, live, intents, dog, lane, answer,
          others, crashes, readmits>>
counters == <<others, crashes, readmits>>

WaitStates == {"none", "waiting", "scheduled", "consumed", "quarantined"}
Failed == {"failed", "suppressed"}
Terminal == Failed \cup {"succeeded"}
\* Keys of a child's two possible mailbox rows: worker-runtime-terminal/...
\* and coordinator-child-omission/...
Keys == {"result", "omission"} \X Children

\* backoff_ms, in seconds.
Backoff(attempt) == 2 ^ (IF attempt <= 6 THEN attempt ELSE 6)

\* Seconds a watchdog has slept, at least, when its n-th attempt starts.
Slept[n \in Nat] == IF n <= 1 THEN 0 ELSE Slept[n - 1] + Backoff(n - 1)

Init ==
    /\ wait = [w \in Waits |-> [state |-> "none", intent |-> 0]]
    /\ job = [c \in Children |-> "none"]
    /\ owner = [c \in Children |-> None]
    /\ receipt = [c \in Children |-> "none"]
    /\ mail = [k \in Keys |-> [state |-> "none", token |-> None]]
    /\ live = [w \in Waits |-> FALSE]
    /\ intents = [k \in Coordinators |-> <<>>]
    /\ dog = [g \in Groups |-> [st |-> "none", attempt |-> 0, wait |-> None, idle |-> FALSE]]
    /\ lane = [k \in Coordinators |-> "parent"]
    /\ answer = [w \in Waits |-> "none"]
    /\ others = 0 /\ crashes = 0 /\ readmits = 0

-----------------------------------------------------------------------------
(* Admission.                                                              *)

Active(w) == wait[w].state \in {"waiting", "scheduled"}

\* The unique index on active (coordinator_key, child_group_id).
GroupTaken(w) ==
    \E v \in Waits \ {w} : /\ Active(v)
                           /\ GroupOf[v] = GroupOf[w]
                           /\ CoordOf[v] = CoordOf[w]

\* A mutant: results are owned by the wait instead of its coordinator.
AdmitUnowned(w) ==
    /\ wait[w].state = "none" /\ ~GroupTaken(w)
    /\ lane[CoordOf[w]] = "parent"
    /\ wait' = [wait EXCEPT ![w].state = "waiting"]
    /\ answer' = [answer EXCEPT ![w] = "Created"]
    /\ job' = [c \in Children |-> IF c \in Kids[GroupOf[w]] THEN "active" ELSE job[c]]
    /\ owner' = [c \in Children |-> IF c \in Kids[GroupOf[w]] THEN w ELSE owner[c]]
    /\ dog' = [dog EXCEPT ![GroupOf[w]] =
                  IF @.st = "none" THEN [@ EXCEPT !.st = "pending", !.wait = w] ELSE @]
    /\ UNCHANGED <<receipt, mail, live, intents, lane, counters>>

\* enqueue_subagent_workers_v5 commits child jobs, wait and watchdog in one
\* transaction, or nothing if the group is taken.  Jobs have idempotency keys
\* made from the run or the group: a job that exists is kept as it is, with
\* its owner and its payload.
Admit(w) ==
    LET new == {c \in Kids[GroupOf[w]] : job[c] = "none"} IN
    /\ wait[w].state = "none" /\ ~GroupTaken(w)
    /\ lane[CoordOf[w]] = "parent"
    /\ wait' = [wait EXCEPT ![w].state = "waiting"]
    /\ answer' = [answer EXCEPT ![w] = "Created"]
    /\ job' = [c \in Children |-> IF c \in new THEN "active" ELSE job[c]]
    /\ owner' = [c \in Children |-> IF c \in new THEN CoordOf[w] ELSE owner[c]]
    /\ dog' = [dog EXCEPT ![GroupOf[w]] =
                  IF @.st = "none" THEN [@ EXCEPT !.st = "pending", !.wait = w] ELSE @]
    /\ UNCHANGED <<receipt, mail, live, intents, lane, counters>>

\* persist_waiting_for_children replays an admission only if the stored row
\* equals the new one in every field, created_at_ms and state included.
Replays(w, sameMs) == wait[w].state = "waiting" /\ sameMs

\* The parent repeats the admission of w: same owner, group and children.
Readmit(w, sameMs) ==
    /\ wait[w].state # "none"
    /\ lane[CoordOf[w]] = "parent"
    /\ readmits < MaxReadmits
    /\ readmits' = readmits + 1
    /\ answer' = [answer EXCEPT ![w] = IF Replays(w, sameMs) THEN "Replayed" ELSE "Conflict"]
    /\ UNCHANGED <<wait, job, owner, receipt, mail, live, intents, dog, lane, others, crashes>>

-----------------------------------------------------------------------------
(* Children.                                                               *)

\* The child's runtime turn ends, or an operator controls its queue item.
RuntimeTerminal(c, outcome) ==
    /\ job[c] = "active" /\ receipt[c] = "none"
    /\ receipt' = [receipt EXCEPT ![c] = outcome]
    /\ UNCHANGED <<wait, job, owner, mail, live, intents, dog, lane, answer, counters>>

\* A child job that expires or fails before its turn is queued has no
\* runtime receipt, and publishes nothing.
ChildLost(c) ==
    /\ job[c] = "active" /\ receipt[c] = "none"
    /\ job' = [job EXCEPT ![c] = "failed"]
    /\ UNCHANGED <<wait, owner, receipt, mail, live, intents, dog, lane, answer, counters>>

WaitsFor(c) == {w \in Waits : Active(w) /\ c \in Kids[GroupOf[w]]}

\* set_runtime_terminal_with_mailbox: the job's terminal status and its
\* mailbox row, or the quarantine of the waits on it, in one transaction.  It
\* fails, changing nothing, if a wait on a suppressed child is scheduled.
Reconcile(c) ==
    /\ job[c] = "active" /\ receipt[c] # "none"
    /\ IF receipt[c] = "suppressed"
       THEN /\ \A w \in WaitsFor(c) : wait[w].state = "waiting"
            /\ wait' = [w \in Waits |-> IF w \in WaitsFor(c)
                                        THEN [wait[w] EXCEPT !.state = "quarantined"]
                                        ELSE wait[w]]
            /\ UNCHANGED mail
       ELSE /\ mail' = [mail EXCEPT ![<<"result", c>>].state = "unread"]
            /\ UNCHANGED wait
    /\ job' = [job EXCEPT ![c] = receipt[c]]
    /\ UNCHANGED <<owner, receipt, live, intents, dog, lane, answer, counters>>

-----------------------------------------------------------------------------
(* The watchdog.                                                           *)

\* run_watchdog_job with the adapter's wake policy (mode all_completed).
\* Dispatch latency may bring the deadline forward, never back.
ShouldWake(g, timeout) ==
    \/ \A c \in Kids[g] : job[c] \in Terminal
    \/ \E c \in Kids[g] : job[c] \in Failed
    \/ timeout

TimeoutMayBe(g, timeout) == Slept[dog[g].attempt + 1] >= Deadline => timeout

DogTo(g, st) == dog' = [dog EXCEPT ![g].st = st, ![g].attempt = @ + 1]

\* One pass up to the lane observation.  The rows it reads only move toward
\* their end, so reading them at the time of the observation loses nothing.
\* An error leaves the job retryable, which here is pending again.
DogObserve(g, timeout) ==
    LET w == dog[g].wait IN
    /\ dog[g].st = "pending" /\ dog[g].attempt < MaxAttempts
    /\ TimeoutMayBe(g, timeout)
    /\ \/ /\ ~ShouldWake(g, timeout)
          /\ DogTo(g, "pending")
       \/ /\ ShouldWake(g, timeout) /\ wait[w].state = "quarantined"
          /\ DogTo(g, "canceled")
       \/ /\ ShouldWake(g, timeout) /\ wait[w].state \in {"scheduled", "consumed"}
          /\ DogTo(g, "pending")
       \/ /\ ShouldWake(g, timeout) /\ wait[w].state = "waiting"
          /\ lane[CoordOf[w]] = "parent"
          /\ DogTo(g, "pending")
       \/ /\ ShouldWake(g, timeout) /\ wait[w].state = "waiting"
          /\ lane[CoordOf[w]] # "parent"
          /\ dog' = [dog EXCEPT ![g].st = "observed", ![g].attempt = @ + 1,
                                ![g].idle = (lane[CoordOf[w]] = "free")]
    /\ UNCHANGED <<wait, job, owner, receipt, mail, live, intents, lane, answer, counters>>

\* A mutant: one attempt more is expected than the dispatcher leases.
DogExhaustedLate(g) ==
    /\ dog[g].st = "pending" /\ dog[g].attempt > MaxAttempts
    /\ dog' = [dog EXCEPT ![g].st = "failed"]
    /\ UNCHANGED <<wait, job, owner, receipt, mail, live, intents, lane, answer, counters>>

\* terminalize_exhausted_pending_jobs.
DogExhausted(g) ==
    /\ dog[g].st = "pending" /\ dog[g].attempt = MaxAttempts
    /\ dog' = [dog EXCEPT ![g].st = "failed"]
    /\ UNCHANGED <<wait, job, owner, receipt, mail, live, intents, lane, answer, counters>>

\* The mailbox rows of coordinator k.  The watchdog serves the wait that was
\* admitted with it, so omissions have the owner of the child's own result.
RowsOf(k, m) == {r \in Keys : m[r].state # "none" /\ owner[r[2]] = k}

\* A mutant: children without terminal evidence are silently left out.
EnsureNothing(w, m) == m

\* ensure_expected_child_mailbox_records_in_transaction.
EnsureExpected(w, m) ==
    LET missing == {c \in Kids[GroupOf[w]] : m[<<"result", c>>].state = "none"}
    IN  [r \in Keys |-> IF r[1] = "omission" /\ r[2] \in missing /\ m[r].state = "none"
                        THEN [m[r] EXCEPT !.state = "unread"] ELSE m[r]]

\* claim_unread_for_coordinator_in_transaction: release what has expired,
\* then claim all that is unread under the token of wait w.
Released(k, m) ==
    [r \in Keys |-> IF r \in RowsOf(k, m) /\ m[r].state = "claimed" /\ ~live[m[r].token]
                    THEN [state |-> "unread", token |-> None] ELSE m[r]]

Unread(k, m) == {r \in RowsOf(k, m) : m[r].state = "unread"}

Claimed(w, m) ==
    [r \in Keys |-> IF r \in Unread(CoordOf[w], m)
                    THEN [state |-> "claimed", token |-> w] ELSE m[r]]

\* A row of worker_resume_intents.  A pending or leased intent exists only
\* inside the transaction that creates, leases and enqueues it.
Intent(w, state, rows, cont) == [wait |-> w, state |-> state, rows |-> rows, cont |-> cont]

\* A mutant: the wait is not read again inside the transaction.
CommitStale(g) ==
    LET w == dog[g].wait
        k == CoordOf[w]
        m == Claimed(w, Released(k, EnsureExpected(w, mail)))
    IN  /\ dog[g].st = "observed" /\ dog[g].idle
        /\ Unread(k, Released(k, EnsureExpected(w, mail))) # {}
        /\ mail' = m
        /\ live' = [live EXCEPT ![w] = TRUE]
        /\ intents' = [intents EXCEPT ![k] = Append(@,
               Intent(w, "enqueued", {r \in Keys : m[r].token = w /\ m[r].state = "claimed"}, "job"))]
        /\ wait' = [wait EXCEPT ![w].intent = Len(intents[k]) + 1]
        /\ dog' = [dog EXCEPT ![g].st = "committed"]
        /\ UNCHANGED <<job, owner, receipt, lane, answer, counters>>

\* A mutant: the transaction is run a second time, also for a scheduled wait.
CommitTwice(g) ==
    LET w == dog[g].wait
        k == CoordOf[w]
        open == Released(k, EnsureExpected(w, mail))
        rows == Unread(k, open)
    IN  /\ dog[g].st = "observed" /\ dog[g].idle
        /\ wait[w].state \in {"waiting", "scheduled"}
        /\ rows # {}
        /\ mail' = Claimed(w, open)
        /\ live' = [live EXCEPT ![w] = TRUE]
        /\ intents' = [intents EXCEPT ![k] = Append(@, Intent(w, "enqueued", rows, "job"))]
        /\ wait' = [wait EXCEPT ![w] = [state |-> "scheduled", intent |-> Len(intents[k]) + 1]]
        /\ UNCHANGED <<job, owner, receipt, dog, lane, answer, counters>>

\* The lane was idle: claim, create the intent, insert the CoordinatorResume
\* job, mark the intent enqueued and the wait scheduled.
DogCommit(g) ==
    LET w == dog[g].wait
        k == CoordOf[w]
        open == Released(k, EnsureExpected(w, mail))
        rows == Unread(k, open)
    IN  /\ dog[g].st = "observed" /\ dog[g].idle
        /\ wait[w].state = "waiting"
        /\ rows # {}
        /\ mail' = Claimed(w, open)
        /\ live' = [live EXCEPT ![w] = TRUE]
        /\ intents' = [intents EXCEPT ![k] = Append(@, Intent(w, "enqueued", rows, "job"))]
        /\ wait' = [wait EXCEPT ![w] = [state |-> "scheduled", intent |-> Len(intents[k]) + 1]]
        /\ dog' = [dog EXCEPT ![g].st = "committed"]
        /\ UNCHANGED <<job, owner, receipt, lane, answer, counters>>

\* A mutant: the rows are claimed although the lane is active.
DogBlockedClaims(g) ==
    LET w == dog[g].wait
        k == CoordOf[w]
        m == EnsureExpected(w, mail)
    IN  /\ dog[g].st = "observed" /\ ~dog[g].idle
        /\ wait[w].state = "waiting"
        /\ Unread(k, m) # {}
        /\ mail' = Claimed(w, m)
        /\ intents' = [intents EXCEPT ![k] = Append(@, Intent(w, "quarantined", Unread(k, m), "none"))]
        /\ dog' = [dog EXCEPT ![g].st = "pending"]
        /\ UNCHANGED <<wait, job, owner, receipt, live, lane, answer, counters>>

\* The lane was active: commit a quarantined intent that claims nothing.
DogBlocked(g) ==
    LET w == dog[g].wait
        k == CoordOf[w]
        m == EnsureExpected(w, mail)
    IN  /\ dog[g].st = "observed" /\ ~dog[g].idle
        /\ wait[w].state = "waiting"
        /\ Unread(k, m) # {}
        /\ mail' = m
        /\ intents' = [intents EXCEPT ![k] = Append(@, Intent(w, "quarantined", Unread(k, m), "none"))]
        /\ dog' = [dog EXCEPT ![g].st = "pending"]
        /\ UNCHANGED <<wait, job, owner, receipt, live, lane, answer, counters>>

\* The latest quarantined intent names the rows that are unread now.
AlreadyBlocked(w, rows) ==
    LET k == CoordOf[w]
        old == {i \in DOMAIN intents[k] : intents[k][i].state = "quarantined"}
    IN  \E i \in old : /\ \A j \in old : j <= i
                       /\ intents[k][i].rows = rows /\ intents[k][i].wait # w

\* The transaction is dropped, its omissions with it: nothing is unread (the
\* rows went to another wait of the coordinator), or another watchdog that
\* observed the lane in the same millisecond has recorded the same block, and
\* that quarantined intent cannot be leased.
DogDrops(g) ==
    LET w == dog[g].wait
        k == CoordOf[w]
        m == EnsureExpected(w, mail)
    IN  /\ dog[g].st = "observed"
        /\ wait[w].state = "waiting"
        /\ \/ Unread(k, IF dog[g].idle THEN Released(k, m) ELSE m) = {}
           \/ ~dog[g].idle /\ AlreadyBlocked(w, Unread(k, m))
        /\ dog' = [dog EXCEPT ![g].st = "pending"]
        /\ UNCHANGED <<wait, job, owner, receipt, mail, live, intents, lane, answer, counters>>

\* The wait was quarantined after the watchdog first read it.
DogSuppressed(g) ==
    /\ dog[g].st = "observed" /\ wait[dog[g].wait].state = "quarantined"
    /\ dog' = [dog EXCEPT ![g].st = "canceled"]
    /\ UNCHANGED <<wait, job, owner, receipt, mail, live, intents, lane, answer, counters>>

\* The job's own result is persisted after the transaction.
DogSucceeds(g) ==
    /\ dog[g].st = "committed"
    /\ dog' = [dog EXCEPT ![g].st = "succeeded"]
    /\ UNCHANGED <<wait, job, owner, receipt, mail, live, intents, lane, answer, counters>>

\* The dispatcher dies; the expired lease makes the job pending again.
DogCrash(g) ==
    /\ dog[g].st \in {"observed", "committed"} /\ crashes < MaxCrashes
    /\ crashes' = crashes + 1
    /\ dog' = [dog EXCEPT ![g].st = "pending"]
    /\ UNCHANGED <<wait, job, owner, receipt, mail, live, intents, lane, answer, others, readmits>>

\* The five minutes of the claim made under w's token run out.
ClaimExpires(w) ==
    /\ live[w]
    /\ live' = [live EXCEPT ![w] = FALSE]
    /\ UNCHANGED <<wait, job, owner, receipt, mail, intents, dog, lane, answer, counters>>

-----------------------------------------------------------------------------
(* The exact lane and the continuation.                                    *)

ParentEnds(k) ==
    /\ lane[k] = "parent"
    /\ lane' = [lane EXCEPT ![k] = "free"]
    /\ UNCHANGED <<wait, job, owner, receipt, mail, live, intents, dog, answer, counters>>

\* Newer work of the same lane.
OtherLeases(k) ==
    /\ lane[k] = "free" /\ others < MaxOthers
    /\ lane' = [lane EXCEPT ![k] = "other"]
    /\ others' = others + 1
    /\ UNCHANGED <<wait, job, owner, receipt, mail, live, intents, dog, answer, crashes, readmits>>

OtherEnds(k) ==
    /\ lane[k] = "other"
    /\ lane' = [lane EXCEPT ![k] = "free"]
    /\ UNCHANGED <<wait, job, owner, receipt, mail, live, intents, dog, answer, counters>>

ContTo(k, i, cont) == intents' = [intents EXCEPT ![k][i].cont = cont]

\* queue_llm_worker_turn appends the continuation's queue item once.
QueueContinuation(k, i) ==
    /\ intents[k][i].cont = "job"
    /\ ContTo(k, i, "queued")
    /\ UNCHANGED <<wait, job, owner, receipt, mail, live, dog, lane, answer, counters>>

\* prepare_runtime_queue_item writes the lane lease, drops the lease lock and
\* then consumes the intent in a transaction of its own.
LeaseContinuation(k, i) ==
    /\ intents[k][i].cont = "queued" /\ lane[k] = "free"
    /\ lane' = [lane EXCEPT ![k] = "continuation"]
    /\ ContTo(k, i, "leased")
    /\ UNCHANGED <<wait, job, owner, receipt, mail, live, dog, answer, counters>>

\* A mutant: only claims that have not expired are acknowledged.
AckedUnexpired(w) ==
    [r \in Keys |-> IF mail[r].state = "claimed" /\ mail[r].token = w /\ live[w]
                    THEN [mail[r] EXCEPT !.state = "acked"] ELSE mail[r]]

\* acknowledge_coordinator_claim_in_transaction: by token, expired or not.
Acked(w) ==
    [r \in Keys |-> IF mail[r].state = "claimed" /\ mail[r].token = w
                    THEN [mail[r] EXCEPT !.state = "acked"] ELSE mail[r]]

\* A mutant: the intent is consumed as soon as its item is queued.
ConsumeEarly(k, i) ==
    /\ intents[k][i].cont \in {"queued", "leased"} /\ intents[k][i].state = "enqueued"
    /\ mail' = Acked(intents[k][i].wait)
    /\ intents' = [intents EXCEPT ![k][i].state = "consumed"]
    /\ wait' = [wait EXCEPT ![intents[k][i].wait].state = "consumed"]
    /\ UNCHANGED <<job, owner, receipt, live, dog, lane, answer, counters>>

\* A mutant: a continuation leased again after a crash is not accepted.
ConsumeOnce(k, i) ==
    LET w == intents[k][i].wait IN
    /\ intents[k][i].cont = "leased" /\ intents[k][i].state = "enqueued"
    /\ mail' = Acked(w)
    /\ intents' = [intents EXCEPT ![k][i].state = "consumed", ![k][i].cont = "accepted"]
    /\ wait' = [wait EXCEPT ![w].state = "consumed"]
    /\ UNCHANGED <<job, owner, receipt, live, dog, lane, answer, counters>>

\* consume_coordinator_resume_after_lease.
Consume(k, i) ==
    LET w == intents[k][i].wait IN
    /\ intents[k][i].cont = "leased"
    /\ \/ intents[k][i].state = "enqueued" /\ wait[w] = [state |-> "scheduled", intent |-> i]
       \/ intents[k][i].state = "consumed" /\ wait[w] = [state |-> "consumed", intent |-> i]
    /\ mail' = IF intents[k][i].state = "enqueued" THEN Acked(w) ELSE mail
    /\ intents' = [intents EXCEPT ![k][i].state = "consumed", ![k][i].cont = "accepted"]
    /\ wait' = [wait EXCEPT ![w].state = "consumed"]
    /\ UNCHANGED <<job, owner, receipt, live, dog, lane, answer, counters>>

\* The runtime worker dies with the lease; a later pass leases the item again.
ContinuationCrash(k, i) ==
    /\ intents[k][i].cont \in {"leased", "accepted"} /\ crashes < MaxCrashes
    /\ crashes' = crashes + 1
    /\ lane' = [lane EXCEPT ![k] = "free"]
    /\ ContTo(k, i, "queued")
    /\ UNCHANGED <<wait, job, owner, receipt, mail, live, dog, answer, others, readmits>>

ContinuationEnds(k, i) ==
    /\ intents[k][i].cont = "accepted"
    /\ lane' = [lane EXCEPT ![k] = "free"]
    /\ ContTo(k, i, "done")
    /\ UNCHANGED <<wait, job, owner, receipt, mail, live, dog, answer, counters>>

\* An operator's queue-skip before the item is leased.
ContinuationSkipped(k, i) ==
    /\ CanSkip
    /\ intents[k][i].cont = "queued"
    /\ ContTo(k, i, "skipped")
    /\ UNCHANGED <<wait, job, owner, receipt, mail, live, dog, lane, answer, counters>>

-----------------------------------------------------------------------------

DogStep(g) ==
    \/ \E timeout \in BOOLEAN : DogObserve(g, timeout)
    \/ DogExhausted(g) \/ DogCommit(g) \/ DogBlocked(g) \/ DogDrops(g)
    \/ DogSuppressed(g) \/ DogSucceeds(g)

ContinuationStep(k, i) ==
    \/ QueueContinuation(k, i) \/ LeaseContinuation(k, i)
    \/ Consume(k, i) \/ ContinuationEnds(k, i)

Next ==
    \/ \E w \in Waits : Admit(w) \/ ClaimExpires(w) \/ \E s \in BOOLEAN : Readmit(w, s)
    \/ \E c \in Children : \/ \E o \in Terminal : RuntimeTerminal(c, o)
                           \/ ChildLost(c) \/ Reconcile(c)
    \/ \E g \in Groups : DogStep(g) \/ DogCrash(g)
    \/ \E k \in Coordinators :
          \/ ParentEnds(k) \/ OtherLeases(k) \/ OtherEnds(k)
          \/ \E i \in 1..Len(intents[k]) :
                ContinuationStep(k, i) \/ ContinuationCrash(k, i) \/ ContinuationSkipped(k, i)

Spec == Init /\ [][Next]_vars

\* Dispatch passes and runtime loops run again and again, turns end, and
\* children reach a receipt.  A turn may be beaten to the free lane, but only
\* MaxOthers times.
FairSpec ==
    /\ Spec
    /\ \A c \in Children : /\ WF_vars(Reconcile(c))
                           /\ WF_vars(\E o \in Terminal : RuntimeTerminal(c, o))
    /\ \A g \in Groups : WF_vars(DogStep(g))
    /\ \A k \in Coordinators :
          /\ WF_vars(ParentEnds(k)) /\ WF_vars(OtherEnds(k))
          /\ \A i \in 1..Cardinality(Waits) * MaxAttempts :
                SF_vars(i <= Len(intents[k]) /\ ContinuationStep(k, i))

-----------------------------------------------------------------------------
(* Properties.                                                             *)

\* Every variable keeps its type.
TypeOK ==
    /\ wait \in [Waits -> [state : WaitStates, intent : Nat]]
    /\ job \in [Children -> Terminal \cup {"none", "active"}]
    /\ owner \in [Children -> Coordinators \cup {None}]
    /\ receipt \in [Children -> Terminal \cup {"none"}]
    /\ mail \in [Keys -> [state : {"none", "unread", "claimed", "acked"},
                          token : Waits \cup {None}]]
    /\ live \in [Waits -> BOOLEAN]
    /\ intents \in [Coordinators -> Seq(
           [wait : Waits, state : {"enqueued", "consumed", "quarantined"}, rows : SUBSET Keys,
            cont : {"none", "job", "queued", "leased", "accepted", "done", "skipped"}])]
    /\ dog \in [Groups -> [st : {"none", "pending", "observed", "committed", "succeeded",
                                 "canceled", "failed"},
                           attempt : 0..MaxAttempts, wait : Waits \cup {None}, idle : BOOLEAN]]
    /\ lane \in [Coordinators -> {"parent", "free", "other", "continuation"}]
    /\ answer \in [Waits -> {"none", "Created", "Replayed", "Conflict"}]
    /\ {others, crashes, readmits} \subseteq Nat

\* Places of the intents that have a continuation.
Continuations == UNION {{<<k, i>> : i \in {j \in DOMAIN intents[k] : intents[k][j].cont # "none"}} :
                        k \in Coordinators}
At(p) == intents[p[1]][p[2]]

\* Coordinator resume is at-most-once: whatever passes the watchdog makes, and
\* wherever it crashes, a wait has one continuation.
OneContinuationPerWait ==
    \A p, q \in Continuations : At(p).wait = At(q).wait => p = q

\* A quarantined wait is never resumed: the watchdog reads the wait again
\* inside its transaction, and a scheduled wait is not quarantined any more.
QuarantineSuppresses ==
    \A p \in Continuations : wait[At(p).wait].state \in {"scheduled", "consumed"}

\* When a wait is scheduled every expected child has a row that is claimed or
\* acknowledged, an omission at least: a partial batch never looks complete.
BatchComplete ==
    \A w \in Waits : wait[w].state \in {"scheduled", "consumed"} =>
        \A c \in Kids[GroupOf[w]] : \E r \in Keys :
            r[2] = c /\ mail[r].state \in {"claimed", "acked"}

\* A mailbox row is acknowledged only by a continuation that was given it and
\* holds the lane.
AckUnderLease ==
    [][\A r \in Keys : mail[r].state # "acked" /\ mail'[r].state = "acked" =>
          \E p \in Continuations : /\ At(p).cont = "leased" /\ r \in At(p).rows
                                   /\ lane[p[1]] = "continuation"]_vars

\* A result that was taken from the mailbox is in the batch of a continuation,
\* also when it was taken for another wait of the same coordinator
\* (create_or_coalesce_resume_intent_in_transaction claims all of its rows).
ClaimHasContinuation ==
    \A r \in Keys : mail[r].state \in {"claimed", "acked"} =>
        \E p \in Continuations : At(p).wait = mail[r].token /\ r \in At(p).rows

\* A consumed intent leaves none of its rows to be delivered again, even when
\* its claim expired while the continuation waited for the lane.  (With one
\* wait to a coordinator; two can take expired rows from each other.)
ConsumedIsAcked ==
    \A p \in Continuations : At(p).state = "consumed" =>
        \A r \in At(p).rows : mail[r].state = "acked"

\* A scheduled wait's continuation runs to its end unless an operator skips it,
\* also when the runtime worker dies between the lease, the acknowledgement
\* (consume_coordinator_resume_after_lease) and the end of the turn.
ContinuationFinishes ==
    \A w \in Waits : wait[w].state = "scheduled" ~>
        \E p \in Continuations : At(p).wait = w /\ At(p).cont \in {"done", "skipped"}

\* A wait does not stay open under a watchdog that goes on for ever.
WatchdogSettles ==
    \A w \in Waits : wait[w].state = "waiting" ~>
        \/ wait[w].state # "waiting"
        \/ dog[GroupOf[w]].st \in {"succeeded", "canceled", "failed"}
=============================================================================
