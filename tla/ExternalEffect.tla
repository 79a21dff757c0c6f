--------------------------- MODULE ExternalEffect ---------------------------
(***************************************************************************)
(* Connector actions that need a user's approval (external_effect.rs).     *)
(*                                                                         *)
(* An effect is one connector action asked for by one runtime queue item.  *)
(* Its protected snapshot, a JSON file under external-effects/latest, is   *)
(* read, changed in memory and written back by five kinds of actors:       *)
(*   - the runner of the source queue item, which asks for approval, and   *)
(*     answers "accept" to the connector once the effect is approved;      *)
(*   - resolvers, which carry out a user's approve or deny;                *)
(*   - sweepers, the runtime loops that deny expired approvals;            *)
(*   - fencers, the channel commands (stop, new, steer) that deny what is  *)
(*     still open in their lane;                                           *)
(*   - readers, which reconcile a submitted effect with the connector.     *)
(* A read, an append to transitions.jsonl and a snapshot write are steps   *)
(* of their own: other actors, and crashes, come between them.  Resolvers  *)
(* and sweepers hold APPROVAL_RESOLUTION_LOCK, a mutex of their own        *)
(* process; Proc says which actors share a process.                        *)
(***************************************************************************)
EXTENDS Naturals, FiniteSets

CONSTANTS
    Effects,     \* effect ids; the runner of the source item of e is e itself
    Resolvers,   \* threads serving approve and deny
    Sweepers,    \* runtime loops denying expired approvals
    Fencers,     \* threads serving commands that fence the lane
    Readers,     \* threads reconciling by readback
    Processes,
    Proc,        \* the process of each actor
    MaxCrashes,  \* bound on crashes
    MaxReadback  \* bound on readback reconciliations

NoOne == "no-one"

Actors == Effects \cup Resolvers \cup Sweepers \cup Fencers \cup Readers
Guarded == Resolvers \cup Sweepers

ASSUME ActorsAssumption ==
    /\ Effects # {} /\ NoOne \notin Actors
    /\ Effects \cap (Resolvers \cup Sweepers \cup Fencers \cup Readers) = {}
    /\ Resolvers \cap (Sweepers \cup Fencers \cup Readers) = {}
    /\ Sweepers \cap (Fencers \cup Readers) = {}
    /\ Fencers \cap Readers = {}
ASSUME ProcAssumption == Proc \in [Actors -> Processes]
ASSUME BoundsAssumption == MaxCrashes \in Nat /\ MaxReadback \in Nat

VARIABLES
    snap,      \* the snapshot files
    log,       \* transitions.jsonl, as the set of <<from, to>> lines per effect
    indexed,   \* effects whose public-action index files exist
    due,       \* effects whose token is past expires_at_ms
    item,      \* status of the source queue item
    child,     \* the continuation row of the effect in pending.jsonl
    notice,    \* effects whose expiry notice is in the outbox
    guard,     \* holder of each process's APPROVAL_RESOLUTION_LOCK
    op,        \* what each actor is doing
    accepts,   \* history: "accept" answers written to the connector
    decided,   \* history: token decisions whose snapshot was installed
    told,      \* history: effects reported to the user as denied, unsubmitted
    resubmits, \* history: readbacks that proved absence and re-approved
    crashes, readbacks

files == <<snap, log, indexed, item, child, notice>>
history == <<accepts, decided, told, resubmits>>
vars == <<files, due, guard, op, history, crashes, readbacks>>

NoSnap == [state |-> "absent", token |-> "none", ids |-> FALSE]

States == {"requested", "approval-required", "approved", "denied",
           "submitted", "confirmed", "ambiguous"}

Snapshots == {NoSnap} \cup
    [state : States, token : {"none", "open", "consumed"}, ids : BOOLEAN]

\* One record for every actor: its program counter, the effect at hand, the
\* state it loaded, the snapshot about to be persisted and where to go on
\* afterwards, the effects a sweep or a fence has still to visit, those that
\* were due at the sweep's now_ms, and those it found expired.
Pcs == {"idle", "turn", "advance", "append", "install", "index", "park",
        "refuse", "submit", "accept", "active", "ended", "failed", "resolve",
        "answer", "ensure", "skip", "visit", "settle", "receipt", "reconcile"}
Decisions == {"approve", "deny", "none"}
Ops == [pc : Pcs, eff : Effects, old : States \cup {"absent"},
        new : Snapshots, next : Pcs, dec : Decisions, todo : SUBSET Effects,
        late : SUBSET Effects, found : SUBSET Effects]

\* A runner has its own effect in hand, the others any to start with.
AnEffect == CHOOSE e \in Effects : TRUE
Resting(a) == [pc |-> "idle", eff |-> IF a \in Effects THEN a ELSE AnEffect,
               old |-> "absent", new |-> NoSnap, next |-> "idle",
               dec |-> "none", todo |-> {}, late |-> {}, found |-> {}]

ValidTransition ==
    {<<"absent", "requested">>,
     <<"requested", "approval-required">>, <<"requested", "denied">>,
     <<"approval-required", "approved">>, <<"approval-required", "denied">>,
     <<"approved", "denied">>, <<"approved", "submitted">>,
     <<"submitted", "confirmed">>, <<"submitted", "ambiguous">>,
     <<"submitted", "approved">>,
     <<"ambiguous", "approved">>, <<"ambiguous", "confirmed">>}

Init ==
    /\ snap = [e \in Effects |-> NoSnap]
    /\ log = [e \in Effects |-> {}]
    /\ indexed = {} /\ due = {} /\ notice = {}
    /\ item = [e \in Effects |-> "ready"]
    /\ child = [e \in Effects |-> "none"]
    /\ guard = [p \in Processes |-> NoOne]
    /\ op = [a \in Actors |-> Resting(a)]
    /\ accepts = [e \in Effects |-> 0]
    /\ decided = [e \in Effects |-> {}]
    /\ told = {}
    /\ resubmits = [e \in Effects |-> 0]
    /\ crashes = 0 /\ readbacks = 0

-----------------------------------------------------------------------------
(* Steps every actor shares *)

Goto(a, pc) == op' = [op EXCEPT ![a] = [@ EXCEPT !.pc = pc]]

Rest(a) == op' = [op EXCEPT ![a] = Resting(a)]

\* persist_transition up to its first write: the snapshot `new' is built from
\* what the actor read, which may no longer be what the file holds.
Persist(a, e, new, next) ==
    op' = [op EXCEPT ![a] = [@ EXCEPT !.pc = "append", !.eff = e, !.old = snap[e].state,
                                      !.new = new, !.next = next, !.todo = op[a].todo \ {e}]]

\* persist_transition, first write: one line appended and synced.
AppendTransition(a) ==
    /\ op[a].pc = "append"
    /\ log' = [log EXCEPT ![op[a].eff] = @ \cup {<<op[a].old, op[a].new.state>>}]
    /\ Goto(a, "install")
    /\ UNCHANGED <<snap, indexed, item, child, notice, due, guard, history,
                   crashes, readbacks>>

\* What installing the snapshot decides about the approval token.
Decision(a) ==
    IF op[a].new.ids THEN {"expire"}
    ELSE IF a \in Resolvers THEN {op[a].dec} ELSE {}

\* persist_transition, second write: the snapshot replaced atomically.
InstallSnapshot(a) ==
    /\ op[a].pc = "install"
    /\ LET e == op[a].eff IN
       /\ snap' = [snap EXCEPT ![e] = op[a].new]
       /\ decided' = [decided EXCEPT ![e] = @ \cup Decision(a)]
       /\ resubmits' = [resubmits EXCEPT ![e] =
             IF a \in Readers /\ op[a].new.state = "approved" THEN @ + 1 ELSE @]
    /\ op' = [op EXCEPT ![a] = [@ EXCEPT !.pc = op[a].next, !.old = "absent",
                                         !.new = NoSnap, !.next = "idle"]]
    /\ UNCHANGED <<log, indexed, item, child, notice, due, guard, accepts, told,
                   crashes, readbacks>>

\* transition_external_effect: load, nothing to do if the state is reached
\* already, refuse what valid_transition does not list, else persist.
Transition(a, e, to, next, refused) ==
    \/ snap[e].state = to /\ Goto(a, next)
    \/ /\ <<snap[e].state, to>> \in ValidTransition
       /\ Persist(a, e, [snap[e] EXCEPT !.state = to], next)
    \/ /\ snap[e].state # to
       /\ <<snap[e].state, to>> \notin ValidTransition
       /\ Goto(a, refused)

\* A mutant: nobody waits for the lock.
AcquireAlways(a) == guard' = [guard EXCEPT ![Proc[a]] = a]

\* approval_resolution_guard
Acquire(a) == /\ guard[Proc[a]] = NoOne
              /\ guard' = [guard EXCEPT ![Proc[a]] = a]
Release(a) == guard' = [guard EXCEPT ![Proc[a]] = NoOne]

Fenced(s) == [s EXCEPT !.state = "denied",
                       !.token = IF @ = "none" THEN @ ELSE "consumed"]
\* A mutant: a state of its own for expiry.
ExpiredState(s) == [Fenced(s) EXCEPT !.state = "expired", !.ids = TRUE]
Expired(s) == [Fenced(s) EXCEPT !.ids = TRUE]

-----------------------------------------------------------------------------
(* The runner: the Codex turn of the source queue item *)

LeaseItem(e) ==
    /\ item[e] = "ready" /\ op[e].pc = "idle"
    /\ item' = [item EXCEPT ![e] = "running"]
    /\ Goto(e, "turn")
    /\ UNCHANGED <<snap, log, indexed, child, notice, due, guard, history,
                   crashes, readbacks>>

\* A mutant: a submitted effect is submitted again.
AdmissionResubmits(state) ==
    CASE state = "requested" -> "advance"
      [] state = "approval-required" -> "index"
      [] state \in {"approved", "submitted"} -> "submit"
      [] state = "denied" -> "refuse"
      [] state = "confirmed" -> "failed"
      [] OTHER -> "park"

\* A mutant: a refused request is put to the user again.
AdmissionReasks(state) ==
    CASE state \in {"requested", "denied"} -> "advance"
      [] state = "approval-required" -> "index"
      [] state = "approved" -> "submit"
      [] state = "confirmed" -> "failed"
      [] OTHER -> "park"

\* How begin_external_effect_request goes on from each state it may find.
Admission(state) ==
    CASE state = "requested" -> "advance"
      [] state = "approval-required" -> "index"
      [] state = "approved" -> "submit"
      [] state = "denied" -> "refuse"
      [] state = "confirmed" -> "failed"
      [] OTHER -> "park"

\* An MCP elicitation reaches begin_external_effect_request.
BeginRequest(e) ==
    /\ op[e].pc \in {"turn", "active"}
    /\ \/ /\ snap[e] = NoSnap
          /\ Persist(e, e, [NoSnap EXCEPT !.state = "requested"], "advance")
       \/ /\ snap[e] # NoSnap
          /\ Goto(e, Admission(snap[e].state))
    /\ UNCHANGED <<files, due, guard, history, crashes, readbacks>>

\* advance_requested_external_effect under a policy that denies or one that
\* asks the user.
AdvanceRequested(e) ==
    /\ op[e].pc = "advance"
    /\ LET intent == [NoSnap EXCEPT !.state = "requested"] IN
       \/ Persist(e, e, [intent EXCEPT !.state = "denied"], "refuse")
       \/ Persist(e, e, [intent EXCEPT !.state = "approval-required",
                                       !.token = "open"], "index")
    /\ UNCHANGED <<files, due, guard, history, crashes, readbacks>>

EnsureIndexes(e) ==
    /\ op[e].pc = "index"
    /\ indexed' = indexed \cup {e}
    /\ Goto(e, "park")
    /\ UNCHANGED <<snap, log, item, child, notice, due, guard, history,
                   crashes, readbacks>>

\* The authorized effect is marked submitted before the protocol answer.
Submit(e) ==
    /\ op[e].pc = "submit"
    /\ Transition(e, e, "submitted", "accept", "failed")
    /\ UNCHANGED <<files, due, guard, history, crashes, readbacks>>

Accept(e) ==
    /\ op[e].pc = "accept"
    /\ accepts' = [accepts EXCEPT ![e] = @ + 1]
    /\ Goto(e, "active")
    /\ UNCHANGED <<files, due, guard, decided, told, resubmits, crashes,
                   readbacks>>

\* item/completed after the accepted action.
Confirm(e) ==
    /\ op[e].pc = "active"
    /\ Transition(e, e, "confirmed", "ended", "ended")
    /\ UNCHANGED <<files, due, guard, history, crashes, readbacks>>

\* The run-once receipt of the source item; a terminal status is for good.
Receipt(e) ==
    CASE op[e].pc = "park" -> {"parked"}
      [] op[e].pc = "failed" -> {"ready", "terminal"}
      [] OTHER -> {"terminal"}

FinishTurn(e) ==
    /\ op[e].pc \in {"turn", "park", "refuse", "active", "ended", "failed"}
    /\ \E status \in Receipt(e) :
          item' = [item EXCEPT ![e] = IF @ = "terminal" THEN @ ELSE status]
    /\ Rest(e)
    /\ UNCHANGED <<snap, log, indexed, child, notice, due, guard, history,
                   crashes, readbacks>>

\* The continuation row carries the effect id as its continuationIntentKey;
\* gate_goal_continuation_after_lease finds no committed intent under that key
\* and the run ends in an error with the row still pending.
RunContinuation(e) ==
    /\ child[e] = "queued"
    /\ child' = [child EXCEPT ![e] = "refused"]
    /\ UNCHANGED <<snap, log, indexed, item, notice, due, guard, op, history,
                   crashes, readbacks>>

-----------------------------------------------------------------------------
(* Resolvers: approve or deny, by token or by public action *)

StartResolve(u, e, d) ==
    /\ op[u].pc = "idle" /\ e \in indexed
    /\ Acquire(u)
    /\ op' = [op EXCEPT ![u] = [@ EXCEPT !.pc = "resolve", !.eff = e, !.dec = d]]
    /\ UNCHANGED <<files, due, history, crashes, readbacks>>

\* A mutant: any replayed decision is answered as if it had been taken.
AnyDecision(d, state) == state # "approval-required"

SameDecision(d, state) ==
    <<d, state>> \in {<<"approve", "approved">>, <<"deny", "denied">>}

\* A mutant: the decision is not looked at.
AlwaysApproved(d) == "approved"

Verdict(d) == IF d = "approve" THEN "approved" ELSE "denied"

\* resolve_external_effect_approval_locked, its checks in the code's order.
Resolve(u) ==
    /\ op[u].pc = "resolve"
    /\ LET e == op[u].eff
           s == snap[e]
           d == op[u].dec
       IN \/ s.ids /\ Goto(u, "failed")
          \/ ~s.ids /\ e \in due /\ s.state # "approval-required"
             /\ Goto(u, "failed")
          \/ ~s.ids /\ e \in due /\ s.state = "approval-required"
             /\ Persist(u, e, Expired(s), "failed")
          \/ ~s.ids /\ e \notin due /\ s.token = "consumed"
             /\ Goto(u, IF SameDecision(d, s.state) THEN "answer" ELSE "failed")
          \/ ~s.ids /\ e \notin due /\ s.token # "consumed"
             /\ s.state # "approval-required"
             /\ Goto(u, "failed")
          \/ ~s.ids /\ e \notin due /\ s.token # "consumed"
             /\ s.state = "approval-required"
             /\ Persist(u, e, [s EXCEPT !.token = "consumed",
                                     !.state = Verdict(d)], "answer")
    /\ UNCHANGED <<files, due, guard, history, crashes, readbacks>>

\* The guard goes with the call; an approval still has to be continued.
Answer(u) ==
    /\ op[u].pc \in {"answer", "failed"}
    /\ Release(u)
    /\ IF op[u].pc = "answer" /\ op[u].dec = "approve"
       THEN Goto(u, "ensure") ELSE Rest(u)
    /\ told' = IF op[u].pc = "answer" /\ op[u].dec = "deny"
               THEN told \cup {op[u].eff} ELSE told
    /\ UNCHANGED <<files, due, accepts, decided, resubmits, crashes, readbacks>>

\* ensure_external_effect_continuation: found already, or the row appended.
EnsureContinuation(u) ==
    /\ op[u].pc = "ensure"
    /\ LET e == op[u].eff IN
       \/ child[e] # "none" /\ Rest(u) /\ UNCHANGED child
       \/ /\ child[e] = "none"
          /\ child' = [child EXCEPT ![e] = "queued"]
          /\ Goto(u, "skip")
    /\ UNCHANGED <<snap, log, indexed, item, notice, due, guard, history,
                   crashes, readbacks>>

\* The requeue's last write: the source item gets a "skipped" receipt.
SkipSource(u) ==
    /\ op[u].pc = "skip"
    /\ item' = [item EXCEPT ![op[u].eff] = "terminal"]
    /\ Rest(u)
    /\ UNCHANGED <<snap, log, indexed, child, notice, due, guard, history,
                   crashes, readbacks>>

-----------------------------------------------------------------------------
(* Sweepers: expired approvals are denied, then settled *)

Known == {e \in Effects : snap[e] # NoSnap}

StartSweep(s) ==
    /\ op[s].pc = "idle"
    /\ Acquire(s)
    /\ op' = [op EXCEPT ![s] = [@ EXCEPT !.pc = "visit", !.todo = Known, !.late = due]]
    /\ UNCHANGED <<files, due, history, crashes, readbacks>>

\* A mutant: the sweep takes the wrong state for an open approval.
ExpirableNever(s, e) == e \in op[s].late /\ snap[e].state = "requested"

Expirable(s, e) == e \in op[s].late /\ snap[e].state = "approval-required"

\* A mutant: an expiry already persisted is not reported again.
NeverAgain(e) == FALSE

AlreadyExpired(e) == snap[e].state = "denied" /\ snap[e].ids

\* One effect of the sweep.  now_ms is read before the sweep; a token that
\* runs out meanwhile waits for the next one.
SweepOne(s, e) ==
    /\ op[s].pc = "visit" /\ e \in op[s].todo
    /\ \/ /\ Expirable(s, e)
          /\ op' = [op EXCEPT ![s] =
                [@ EXCEPT !.pc = "append", !.eff = e, !.old = snap[e].state,
                          !.new = Expired(snap[e]), !.next = "visit",
                          !.todo = op[s].todo \ {e}, !.found = op[s].found \cup {e}]]
       \/ /\ ~Expirable(s, e)
          /\ op' = [op EXCEPT ![s] =
                [@ EXCEPT !.todo = op[s].todo \ {e},
                          !.found = IF AlreadyExpired(e) THEN op[s].found \cup {e}
                                    ELSE op[s].found]]
    /\ UNCHANGED <<files, due, guard, history, crashes, readbacks>>

EndSweep(s) ==
    /\ op[s].pc = "visit" /\ op[s].todo = {}
    /\ Release(s)
    /\ IF op[s].found = {} THEN Rest(s) ELSE Goto(s, "settle")
    /\ UNCHANGED <<files, due, history, crashes, readbacks>>

\* settle_expired_external_effect_approval: the snapshot is read again and
\* must still be the expired one; the notice is appended once.
Settle(s, e) ==
    /\ op[s].pc = "settle" /\ e \in op[s].found
    /\ \/ /\ snap[e].state = "denied" /\ snap[e].ids
          /\ notice' = notice \cup {e}
          /\ op' = [op EXCEPT ![s] = [@ EXCEPT !.pc = "receipt", !.eff = e,
                                               !.found = op[s].found \ {e}]]
       \/ /\ ~(snap[e].state = "denied" /\ snap[e].ids)
          /\ op' = [op EXCEPT ![s] = [@ EXCEPT !.found = op[s].found \ {e}]]
          /\ UNCHANGED notice
    /\ UNCHANGED <<snap, log, indexed, item, child, due, guard, history,
                   crashes, readbacks>>

\* The terminal receipt of the source item, once by event key.
SettleReceipt(s) ==
    /\ op[s].pc = "receipt"
    /\ item' = [item EXCEPT ![op[s].eff] = "terminal"]
    /\ Goto(s, "settle")
    /\ UNCHANGED <<snap, log, indexed, child, notice, due, guard, history,
                   crashes, readbacks>>

EndSettle(s) ==
    /\ op[s].pc = "settle" /\ op[s].found = {}
    /\ Rest(s)
    /\ UNCHANGED <<files, due, guard, history, crashes, readbacks>>

-----------------------------------------------------------------------------
(* Fencers: fence_external_effects_for_lane, no guard *)

StartFence(f) ==
    /\ op[f].pc = "idle" /\ Known # {}
    /\ op' = [op EXCEPT ![f] = [@ EXCEPT !.pc = "visit", !.todo = Known]]
    /\ UNCHANGED <<files, due, guard, history, crashes, readbacks>>

FenceOne(f, e) ==
    /\ op[f].pc = "visit" /\ e \in op[f].todo
    /\ IF snap[e].state \in {"approval-required", "approved"}
       THEN Persist(f, e, Fenced(snap[e]), "visit")
       ELSE op' = [op EXCEPT ![f] = [@ EXCEPT !.todo = op[f].todo \ {e}]]
    /\ UNCHANGED <<files, due, guard, history, crashes, readbacks>>

\* A stop or a new session goes on to cancel the items of the lane; steering
\* leaves them.
EndFence(f) ==
    /\ op[f].pc = "visit" /\ op[f].todo = {}
    /\ \/ item' = [e \in Effects |-> "terminal"]
       \/ UNCHANGED item
    /\ Rest(f)
    /\ UNCHANGED <<snap, log, indexed, child, notice, due, guard, history,
                   crashes, readbacks>>

-----------------------------------------------------------------------------
(* Readers: reconcile_external_effect *)

\* The connector answers present only for an action that was accepted.
StartReconcile(r, e, to) ==
    /\ op[r].pc = "idle" /\ readbacks < MaxReadback
    /\ snap[e].state \in {"submitted", "ambiguous"}
    /\ to = "confirmed" => accepts[e] > 0
    /\ readbacks' = readbacks + 1
    /\ op' = [op EXCEPT ![r] = [@ EXCEPT !.pc = "reconcile", !.eff = e,
                                         !.new = [NoSnap EXCEPT !.state = to]]]
    /\ UNCHANGED <<files, due, guard, history, crashes>>

Reconcile(r) ==
    /\ op[r].pc = "reconcile"
    /\ Transition(r, op[r].eff, op[r].new.state, "idle", "idle")
    /\ UNCHANGED <<files, due, guard, history, crashes, readbacks>>
-----------------------------------------------------------------------------
(* The environment *)

\* DEFAULT_APPROVAL_TOKEN_TTL_MS passes.
TokenRunsOut(e) ==
    /\ snap[e].token # "none" /\ e \notin due
    /\ due' = due \cup {e}
    /\ UNCHANGED <<files, guard, op, history, crashes, readbacks>>

\* A process dies: its locks go with it, and the items it was running are
\* leased again.
Crash(p) ==
    /\ crashes < MaxCrashes
    /\ crashes' = crashes + 1
    /\ guard' = [guard EXCEPT ![p] = NoOne]
    /\ op' = [a \in Actors |-> IF Proc[a] = p THEN Resting(a) ELSE op[a]]
    /\ item' = [e \in Effects |-> IF Proc[e] = p /\ item[e] = "running"
                                  THEN "ready" ELSE item[e]]
    /\ UNCHANGED <<snap, log, indexed, child, notice, due, history, readbacks>>

-----------------------------------------------------------------------------
Writes == \E a \in Actors : AppendTransition(a) \/ InstallSnapshot(a)

RunnerStep(e) ==
    \/ LeaseItem(e) \/ BeginRequest(e) \/ AdvanceRequested(e) \/ EnsureIndexes(e)
    \/ Submit(e) \/ Accept(e) \/ Confirm(e) \/ FinishTurn(e)

ResolverStep(u) ==
    Resolve(u) \/ Answer(u) \/ EnsureContinuation(u) \/ SkipSource(u)

SweeperStep(s) ==
    \/ StartSweep(s) \/ EndSweep(s) \/ SettleReceipt(s) \/ EndSettle(s)
    \/ \E e \in Effects : SweepOne(s, e) \/ Settle(s, e)

FencerStep(f) ==
    StartFence(f) \/ EndFence(f) \/ (\E e \in Effects : FenceOne(f, e))

ReaderStep(r) ==
    \/ \E e \in Effects, to \in {"confirmed", "approved", "ambiguous"} :
          StartReconcile(r, e, to)
    \/ Reconcile(r)

Next ==
    \/ Writes
    \/ \E e \in Effects : RunnerStep(e) \/ RunContinuation(e) \/ TokenRunsOut(e)
    \/ \E u \in Resolvers : ResolverStep(u)
    \/ \E u \in Resolvers, e \in Effects, d \in {"approve", "deny"} :
          StartResolve(u, e, d)
    \/ \E s \in Sweepers : SweeperStep(s)
    \/ \E f \in Fencers : FencerStep(f)
    \/ \E r \in Readers : ReaderStep(r)
    \/ \E p \in Processes : Crash(p)

Spec == Init /\ [][Next]_vars

\* Threads that have started a call run on, the runtime loop keeps sweeping and
\* selecting, and time passes.  Nothing is assumed of users, fences, readbacks
\* or crashes.
Fairness ==
    /\ \A a \in Actors : WF_vars(AppendTransition(a) \/ InstallSnapshot(a))
    /\ \A e \in Effects : /\ WF_vars(RunnerStep(e))
                          /\ WF_vars(RunContinuation(e))
                          /\ WF_vars(TokenRunsOut(e))
    /\ \A u \in Resolvers : WF_vars(ResolverStep(u))
    /\ \A s \in Sweepers : SF_vars(StartSweep(s)) /\ WF_vars(SweeperStep(s))

FairSpec == Spec /\ Fairness

-----------------------------------------------------------------------------
(* Properties *)

\* Every variable holds what the files, locks and calls of the code can hold.
TypeOK ==
    /\ snap \in [Effects -> Snapshots]
    /\ log \in [Effects -> SUBSET ((States \cup {"absent"}) \X States)]
    /\ indexed \subseteq Effects /\ due \subseteq Effects
    /\ notice \subseteq Effects /\ told \subseteq Effects
    /\ item \in [Effects -> {"ready", "running", "parked", "terminal"}]
    /\ child \in [Effects -> {"none", "queued", "refused"}]
    /\ guard \in [Processes -> Guarded \cup {NoOne}]
    /\ op \in [Actors -> Ops]
    /\ accepts \in [Effects -> Nat] /\ resubmits \in [Effects -> Nat]
    /\ decided \in [Effects -> SUBSET {"approve", "deny", "expire"}]
    /\ crashes \in 0..MaxCrashes /\ readbacks \in 0..MaxReadback

\* A connector action is accepted at most once, and once more for each readback
\* that proved it absent, whatever crashes, retries of the source item, repeated
\* approvals, fences and expiry sweeps do in between.
AcceptedOnce == \A e \in Effects : accepts[e] <= 1 + resubmits[e]

\* One of approve, deny and expire wins the approval token: no second decision
\* replaces the snapshot (resolve_external_effect_approval_locked and
\* reconcile_expired_external_effect_approvals).
OneTerminalWinner == \A e \in Effects : Cardinality(decided[e]) <= 1

\* Whoever is told that nothing happened is told the truth: the expiry notice
\* "was denied and will not be retried" (settle_expired_external_effect_approval)
\* and the answer "no connector mutation was submitted" to a deny command are
\* only given for an action that is never accepted.
DenialIsTrue == \A e \in notice \cup told : accepts[e] = 0

\* No accept without a user's approval: the token was consumed by an approve
\* decision before the connector hears "accept".
AcceptNeedsApproval ==
    \A e \in Effects : accepts[e] > 0 => "approve" \in decided[e]

\* Snapshots only move along valid_transition: no actor installs a state
\* computed from a snapshot that has since been replaced.
SnapshotMonotonic ==
    [][\A e \in Effects : snap'[e] # snap[e] =>
          <<snap[e].state, snap'[e].state>> \in ValidTransition]_vars

\* An approval wait ends: it is decided or the sweep expires it.
ApprovalWaitEnds ==
    \A e \in Effects :
       snap[e].state = "approval-required" ~> snap[e].state # "approval-required"

\* An expired approval is settled: notice sent and source item terminal, even if
\* the runtime loop dies between denying and settling.
ExpiryIsSettled ==
    \A e \in Effects :
       "expire" \in decided[e] ~> e \in notice /\ item[e] = "terminal"

\* An approved effect whose continuation is scheduled is submitted or fenced in
\* the end: the continuation runs.
ApprovedContinuationRuns ==
    \A e \in Effects :
       child[e] # "none" ~>
          snap[e].state \in {"submitted", "confirmed", "ambiguous", "denied"}
=============================================================================
