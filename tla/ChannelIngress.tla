--------------------------- MODULE ChannelIngress ---------------------------
(***************************************************************************)
(* Provider messages of one exact channel lane on their way into the       *)
(* runtime queue, and the durable /stop and /new session transitions that  *)
(* hold them back: channel_ingress.rs, channel_session_transition.rs, the  *)
(* command and reconciliation halves of channel_state.rs, and the two      *)
(* loops of the command line that call them.                               *)
(*                                                                         *)
(* Two processes work on the lane.  The gateway polls a provider that      *)
(* redelivers every update from the stored offset on.  The runtime loop    *)
(* reconciles pending transitions and then replays held messages.  A step  *)
(* is one file read, one file write or one locked section.  Messages are   *)
(* the update ids 1 .. Last; session 0 is the lane's first session and     *)
(* session m the one that the /new of update m proposes.                   *)
(***************************************************************************)
EXTENDS Integers, Sequences, FiniteSets

CONSTANTS Last,            \* the updates the provider has for the lane
          Kind,            \* update -> "text", "new", "stop" or "note"
          Assessments,     \* what the goal lineage doctor may conclude
          Stored,          \* whether the lane has a state.json to begin with
          TransitionRows,  \* max_transitions of one reconciliation
          HeldRows,        \* max_rows of one replay of held messages
          MaxFaults        \* bound: I/O errors, failed settlements and crashes

Msgs == 1 .. Last
Sessions == 0 .. Last
NoSession == -1
Procs == {"gateway", "loop"}
Boundaries == {"not-applicable", "closure-pending", "ambiguous"}

ASSUME IngressAssumption ==
    /\ Last \in Nat
    /\ Kind \in [Msgs -> {"text", "new", "stop", "note"}]
    /\ Assessments \subseteq Boundaries /\ Stored \in BOOLEAN
    /\ TransitionRows \in Nat \ {0} /\ HeldRows \in Nat \ {0}
    /\ MaxFaults \in Nat

VARIABLES
    \* files
    offset,      \* telegram-offset.json: updates up to this one are acknowledged
    active,      \* active_session_key of the lane's state.json, or its default
    stored,      \* the lane has a state.json
    intents,     \* protected-intents.jsonl, in append order
    committed,   \* transitions with a boundary-committed receipt
    closed,      \* transitions whose goal closure has completed
    acks,        \* sessions whose /new acknowledgement is in the outbox
    cancels,     \* sessions with a runtime cancel request
    claim,       \* update -> state of its ingress claim file
    claimOwner,  \* ... the process generation that owns it
    claimSession,\* ... the session key it was made under
    recoveries,  \* ... its recovery_count
    held,        \* update -> old_session_key of its held record, or NoSession
    queue,       \* pending.jsonl: the appended turns
    stopped,     \* the rows of queue with a scoped stop
    \* processes
    pc, msg, plan, st, tr, ready, todo, replay,
    settles,     \* claim settlements handed to the gateway's retry thread
    generation,  \* the gateway's process generation
    faults

files == <<offset, active, stored, intents, committed, closed, acks, cancels, queue, stopped>>
claims == <<claim, claimOwner, claimSession, recoveries>>
locals == <<pc, msg, plan, st, tr, ready, todo, replay>>
process == <<settles, generation, faults>>
vars == <<files, claims, held, locals, process>>

-----------------------------------------------------------------------------
(* Transitions *)

\* transition_identity: the command and the session it leaves
Id(command, old) == [command |-> command, old |-> old]
Ids == [command : {"new", "stop"}, old : Sessions]
Intent == [id : Ids, frozen : Sessions \cup {NoSession}, boundary : Boundaries]
NoTransition == Id("stop", NoSession)

Intents == {intents[i] : i \in 1 .. Len(intents)}
Recorded(id) == \E i \in Intents : i.id = id
IntentOf(id) == CHOOSE i \in Intents : i.id = id

\* ingress_claim_has_durable_new_transition
DurableNew(session) == Recorded(Id("new", session))

\* durable_goal_boundary_is_ready
BoundaryReady(i) == i.boundary = "not-applicable" \/ i.id \in closed

\* channel_session_transition_admission.  It reads the receipts and then the
\* intents; what it answers is what one read of both in between would answer.
HoldPendingNew(session) == DurableNew(session) /\ Id("new", session) \notin committed

\* pending_channel_session_transition_intents: the oldest without a commit receipt
PendingIntents ==
    LET open == {n \in 1 .. Len(intents) : intents[n].id \notin committed}
    IN  {n \in open : Cardinality({k \in open : k < n}) < TransitionRows}

IsFirst(n, S) == n \in S /\ \A k \in S : n <= k

-----------------------------------------------------------------------------
Init ==
    /\ offset = 0 /\ active = 0 /\ stored = Stored /\ intents = <<>>
    /\ committed = {} /\ closed = {} /\ acks = {} /\ cancels = {}
    /\ claim = [m \in Msgs |-> "none"]
    /\ claimOwner = [m \in Msgs |-> 0]
    /\ claimSession = [m \in Msgs |-> 0]
    /\ recoveries = [m \in Msgs |-> 0]
    /\ held = [m \in Msgs |-> NoSession]
    /\ queue = <<>> /\ stopped = {}
    /\ pc = [p \in Procs |-> "idle"]
    /\ msg = [p \in Procs |-> 0]
    /\ plan = [p \in Procs |-> 0]
    /\ st = [p \in Procs |-> 0]
    /\ tr = [p \in Procs |-> NoTransition]
    /\ ready = FALSE
    /\ todo = {} /\ replay = {}
    /\ settles = {} /\ generation = 1
    /\ faults = 0

Goto(p, l) == pc' = [pc EXCEPT ![p] = l]
At(p, l) == pc[p] = l

\* the locals of a call end with it
Forget(p) ==
    /\ msg' = [msg EXCEPT ![p] = 0] /\ plan' = [plan EXCEPT ![p] = 0] /\ st' = [st EXCEPT ![p] = 0]
    /\ tr' = [tr EXCEPT ![p] = NoTransition]
    /\ ready' = (ready /\ p # "gateway")

\* what receive_channel_message hands back to its caller: the gateway stores the
\* offset, the replay removes the held record
Returned(p) == IF p = "gateway" THEN "offset" ELSE "remove"

\* ... and what an error does: the poll ends without an offset, the replay goes on
Errored(p) == IF p = "gateway" THEN "idle" ELSE "held"

-----------------------------------------------------------------------------
(* receive_channel_message, for an ordinary message *)

\* build_turn_plan_for_account takes the session from the lane's state
Plan(p, m) ==
    /\ msg' = [msg EXCEPT ![p] = m]
    /\ plan' = [plan EXCEPT ![p] = active]
    /\ Goto(p, IF Kind[m] = "text" THEN "admit" ELSE "claim")

\* execute_telegram_poll_once takes the next update
Poll ==
    /\ At("gateway", "idle") /\ offset < Last
    /\ Plan("gateway", offset + 1)
    /\ UNCHANGED <<files, claims, held, st, tr, ready, todo, replay, process>>

Admit(p) ==
    /\ At(p, "admit")
    /\ Goto(p, IF HoldPendingNew(plan[p]) THEN "hold" ELSE "claim")
    /\ UNCHANGED <<files, claims, held, msg, plan, st, tr, ready, todo, replay, process>>

\* persist_held_channel_message_once: the first record stays, and one that was
\* made under another session is an identity collision
Hold(p) ==
    /\ At(p, "hold")
    /\ held' = IF held[msg[p]] = NoSession THEN [held EXCEPT ![msg[p]] = plan[p]] ELSE held
    /\ Goto(p, IF p = "gateway" /\ held[msg[p]] \in {NoSession, plan[p]} THEN "offset" ELSE Errored(p))
    /\ UNCHANGED <<files, claims, msg, plan, st, tr, ready, todo, replay, process>>

\* create_ingress_claim finds no claim file
CreateClaim(p) ==
    /\ At(p, "claim") /\ claim[msg[p]] = "none"
    /\ claim' = [claim EXCEPT ![msg[p]] = "open"]
    /\ claimOwner' = [claimOwner EXCEPT ![msg[p]] = generation]
    /\ claimSession' = [claimSession EXCEPT ![msg[p]] = plan[p]]
    /\ Goto(p, IF Kind[msg[p]] = "text" THEN "enqueue" ELSE "apply")
    /\ UNCHANGED <<files, recoveries, held, msg, plan, st, tr, ready, todo, replay, process>>

\* A mutant: any claim of a dead owner is taken over, not only that of a /new.
RecoverAny(m, session) ==
    /\ claimSession[m] = session
    /\ claim[m] = "retryable" \/ (claim[m] = "open" /\ claimOwner[m] # generation)
    /\ ~DurableNew(session)

\* A mutant: the takeover does not look for a durable transition.
RecoverBlindly(m, session) ==
    /\ Kind[m] = "new"
    /\ claim[m] = "retryable" \/ (claim[m] = "open" /\ claimOwner[m] # generation)

\* recover_orphaned_ingress_claim lets the caller go on: the claim is of this very
\* /new, not settled, its owner gave it up or is gone, and no intent is durable
Recoverable(m, session) ==
    /\ Kind[m] = "new"
    /\ claimSession[m] = session
    /\ claim[m] = "retryable" \/ (claim[m] = "open" /\ claimOwner[m] # generation)
    /\ ~DurableNew(session)

RecoverClaim(p) ==
    /\ At(p, "claim") /\ claim[msg[p]] # "none"
    /\ Recoverable(msg[p], plan[p])
    /\ claim' = [claim EXCEPT ![msg[p]] = "open"]
    /\ claimOwner' = [claimOwner EXCEPT ![msg[p]] = generation]
    /\ recoveries' = [recoveries EXCEPT ![msg[p]] = @ + 1]
    /\ Goto(p, IF Kind[msg[p]] = "text" THEN "enqueue" ELSE "apply")
    /\ UNCHANGED <<files, claimSession, held, msg, plan, st, tr, ready, todo, replay, process>>

\* A mutant: a suppressed update is an error to its caller.
DuplicateFails(p) ==
    /\ At(p, "claim") /\ claim[msg[p]] # "none"
    /\ ~Recoverable(msg[p], plan[p])
    /\ Goto(p, Errored(p))
    /\ UNCHANGED <<files, claims, held, msg, plan, st, tr, ready, todo, replay, process>>

\* duplicate-suppressed.  The claim of an orphaned /new whose intent is durable is
\* completed on the way.
Duplicate(p) ==
    /\ At(p, "claim") /\ claim[msg[p]] # "none"
    /\ ~Recoverable(msg[p], plan[p])
    /\ IF /\ Kind[msg[p]] = "new" /\ claimSession[msg[p]] = plan[p]
          /\ claim[msg[p]] = "retryable" \/ (claim[msg[p]] = "open" /\ claimOwner[msg[p]] # generation)
       THEN claim' = [claim EXCEPT ![msg[p]] = "done"]
       ELSE UNCHANGED claim
    /\ Goto(p, Returned(p))
    /\ UNCHANGED <<files, claimOwner, claimSession, recoveries, held, msg, plan, st, tr, ready,
                   todo, replay, process>>

\* enqueue_channel_step_v2 appends the turn under the planned session
Enqueue(p) ==
    /\ At(p, "enqueue")
    /\ queue' = Append(queue, [msg |-> msg[p], session |-> plan[p]])
    /\ Goto(p, "link")
    /\ UNCHANGED <<offset, active, stored, intents, committed, closed, acks, cancels, stopped, claims, held,
                   msg, plan, st, tr, ready, todo, replay, process>>

\* update_ingress_claim_queue_id
Link(p) ==
    /\ At(p, "link")
    /\ claim' = [claim EXCEPT ![msg[p]] = "linked"]
    /\ Goto(p, "complete")
    /\ UNCHANGED <<files, claimOwner, claimSession, recoveries, held, msg, plan, st, tr, ready,
                   todo, replay, process>>

\* complete_ingress_claim, after which the /new failure guard is disarmed
Complete(p) ==
    /\ At(p, "complete")
    /\ claim' = [claim EXCEPT ![msg[p]] = "done"]
    /\ Goto(p, Returned(p))
    /\ UNCHANGED <<files, claimOwner, claimSession, recoveries, held, msg, plan, st, tr, ready,
                   todo, replay, process>>

\* A mutant: the stored offset skips an update.
StoreNextOffset ==
    /\ At("gateway", "offset")
    /\ offset' = msg["gateway"] + 1
    /\ Goto("gateway", "idle") /\ Forget("gateway")
    /\ UNCHANGED <<active, stored, intents, committed, closed, acks, cancels, queue, stopped, claims, held,
                   todo, replay, process>>

\* write_telegram_offset
StoreOffset ==
    /\ At("gateway", "offset")
    /\ offset' = msg["gateway"]
    /\ Goto("gateway", "idle") /\ Forget("gateway")
    /\ UNCHANGED <<active, stored, intents, committed, closed, acks, cancels, queue, stopped, claims, held,
                   todo, replay, process>>

-----------------------------------------------------------------------------
(* apply_channel_command_step, in the gateway *)

\* the lane's state is read; prepare_channel_session_transition then takes the
\* intent that is recorded for the command and the session, or freezes one
ReadState ==
    /\ At("gateway", "apply")
    /\ st' = [st EXCEPT !["gateway"] = active]
    /\ Goto("gateway", IF Kind[msg["gateway"]] = "note" THEN "write" ELSE "prepare")
    /\ UNCHANGED <<files, claims, held, msg, plan, tr, ready, todo, replay, process>>

Prepare ==
    LET m == msg["gateway"]
        id == Id(Kind[m], st["gateway"])
    IN  /\ At("gateway", "prepare")
        /\ tr' = [tr EXCEPT !["gateway"] = id]
        /\ \/ /\ Recorded(id)
              /\ ready' = BoundaryReady(IntentOf(id))
              /\ UNCHANGED intents
           \/ /\ ~Recorded(id)
              /\ \E b \in Assessments :
                    /\ intents' = Append(intents,
                          [id |-> id, frozen |-> IF Kind[m] = "new" THEN m ELSE NoSession, boundary |-> b])
                    /\ ready' = (b = "not-applicable")
        /\ Goto("gateway", IF Kind[m] = "new" THEN "ack" ELSE "cancel")
        /\ UNCHANGED <<offset, active, stored, committed, closed, acks, cancels, queue, stopped, claims, held,
                       msg, plan, st, todo, replay, process>>

\* ensure_new_session_transition_ack: its delivery id is that of the transition
Ack(p) ==
    /\ At(p, "ack")
    /\ acks' = IF tr[p].command = "new" THEN acks \cup {tr[p].old} ELSE acks
    /\ Goto(p, IF p = "gateway" \/ st[p] = tr[p].old THEN "cancel" ELSE "boundary")
    /\ UNCHANGED <<offset, active, stored, intents, committed, closed, cancels, queue, stopped, claims, held,
                   msg, plan, st, tr, ready, todo, replay, process>>

\* write_runtime_cancel_request
Cancel(p) ==
    /\ At(p, "cancel")
    /\ cancels' = cancels \cup {st[p]}
    /\ Goto(p, "stops")
    /\ UNCHANGED <<offset, active, stored, intents, committed, closed, acks, queue, stopped, claims, held,
                   msg, plan, st, tr, ready, todo, replay, process>>

\* A mutant: the old session is closed whether or not the goal boundary is.
StopAndClose(p) ==
    /\ At(p, "stops")
    /\ stopped' = stopped \cup {n \in 1 .. Len(queue) : queue[n].session = st[p]}
    /\ Goto(p, IF p = "loop" THEN "boundary" ELSE IF tr[p].command = "new" THEN "close" ELSE "write")
    /\ UNCHANGED <<offset, active, stored, intents, committed, closed, acks, cancels, queue, claims, held,
                   msg, plan, st, tr, ready, todo, replay, process>>

\* record_active_session_sibling_stops, for the rows that are queued now
SiblingStops(p) ==
    /\ At(p, "stops")
    /\ stopped' = stopped \cup {n \in 1 .. Len(queue) : queue[n].session = st[p]}
    /\ Goto(p, IF p = "loop" THEN "boundary"
               ELSE IF ready /\ tr[p].command = "new" THEN "close" ELSE "write")
    /\ UNCHANGED <<offset, active, stored, intents, committed, closed, acks, cancels, queue, claims, held,
                   msg, plan, st, tr, ready, todo, replay, process>>

\* the old virtual session is closed and the frozen target becomes the session of
\* the state in memory
Close(p) ==
    /\ At(p, "close")
    /\ st' = [st EXCEPT ![p] = IntentOf(tr[p]).frozen]
    /\ Goto(p, "write")
    /\ UNCHANGED <<files, claims, held, msg, plan, tr, ready, todo, replay, process>>

\* write_channel_session_state_v2 replaces the file by the state in memory
WriteState(p) ==
    /\ At(p, "write")
    /\ active' = st[p] /\ stored' = TRUE
    /\ Goto(p, IF p = "loop" \/ (Kind[msg[p]] # "note" /\ ready) THEN "commit" ELSE "complete")
    /\ UNCHANGED <<offset, intents, committed, closed, acks, cancels, queue, stopped, claims, held,
                   msg, plan, st, tr, ready, todo, replay, process>>

\* record_channel_session_transition_phase(BoundaryCommitted)
Commit(p) ==
    /\ At(p, "commit")
    /\ committed' = committed \cup {tr[p]}
    /\ Goto(p, IF p = "loop" THEN "transitions" ELSE "complete")
    /\ UNCHANGED <<offset, active, stored, intents, closed, acks, cancels, queue, stopped, claims, held,
                   msg, plan, st, tr, ready, todo, replay, process>>

-----------------------------------------------------------------------------
(* reconcile_channel_session_transitions, in the runtime loop *)

Scan ==
    /\ At("loop", "idle")
    /\ todo' = PendingIntents
    /\ Goto("loop", "transitions")
    /\ UNCHANGED <<files, claims, held, msg, plan, st, tr, ready, replay, process>>

\* A mutant: only the old session is taken for the state of a transition.
TakeOldOnly ==
    \E n \in todo :
        /\ At("loop", "transitions") /\ IsFirst(n, todo)
        /\ todo' = todo \ {n}
        /\ tr' = [tr EXCEPT !["loop"] = intents[n].id]
        /\ st' = [st EXCEPT !["loop"] = active]
        /\ Goto("loop", IF stored /\ active = intents[n].id.old THEN "ack" ELSE "transitions")
        /\ UNCHANGED <<files, claims, held, msg, plan, ready, replay, process>>

\* A mutant: a state that has moved to the target needs no acknowledgement.
TakeUnacknowledged ==
    \E n \in todo :
        /\ At("loop", "transitions") /\ IsFirst(n, todo)
        /\ todo' = todo \ {n}
        /\ tr' = [tr EXCEPT !["loop"] = intents[n].id]
        /\ st' = [st EXCEPT !["loop"] = active]
        /\ Goto("loop", CASE stored /\ active = intents[n].frozen -> "commit"
                          [] stored /\ active = intents[n].id.old -> "boundary"
                          [] OTHER -> "transitions")
        /\ UNCHANGED <<files, claims, held, msg, plan, ready, replay, process>>

\* exact_state_for_transition: the state file must be there, and still be of the
\* old session or already of the frozen one
TakeTransition ==
    \E n \in todo :
        /\ At("loop", "transitions") /\ IsFirst(n, todo)
        /\ todo' = todo \ {n}
        /\ tr' = [tr EXCEPT !["loop"] = intents[n].id]
        /\ st' = [st EXCEPT !["loop"] = active]
        /\ Goto("loop", IF stored /\ active \in {intents[n].id.old, intents[n].frozen} THEN "ack" ELSE "transitions")
        /\ UNCHANGED <<files, claims, held, msg, plan, ready, replay, process>>

\* the boundary is ready, or its goal closure is to be executed, or there is no
\* closure to execute and the transition stays pending
Boundary ==
    LET i == IntentOf(tr["loop"])
        next == IF i.id.command = "new" /\ st["loop"] # i.frozen THEN "close" ELSE "commit"
    IN  /\ At("loop", "boundary")
        /\ \/ /\ BoundaryReady(i)
              /\ UNCHANGED closed
              /\ Goto("loop", next)
           \/ /\ ~BoundaryReady(i) /\ i.boundary = "closure-pending"
              /\ closed' = closed \cup {i.id}
              /\ Goto("loop", next)
           \/ /\ ~BoundaryReady(i)
              /\ UNCHANGED closed
              /\ Goto("loop", "transitions")
        /\ UNCHANGED <<offset, active, stored, intents, committed, acks, cancels, queue, stopped, claims, held,
                       msg, plan, st, tr, ready, todo, replay, process>>

-----------------------------------------------------------------------------
(* reconcile_held_channel_messages, in the runtime loop *)

\* the oldest records; only the gateway makes them, in the order of the updates
HeldRecords ==
    LET waiting == {m \in Msgs : held[m] # NoSession}
    IN  {m \in waiting : Cardinality({k \in waiting : k < m}) < HeldRows}

ScanHeld ==
    /\ At("loop", "transitions") /\ todo = {}
    /\ replay' = HeldRecords
    /\ Goto("loop", "held")
    /\ UNCHANGED <<files, claims, held, msg, plan, st, tr, ready, todo, process>>

\* a record whose transition is still pending is passed over
TakeHeld ==
    \E m \in replay :
        /\ At("loop", "held") /\ IsFirst(m, replay)
        /\ replay' = replay \ {m}
        /\ IF HoldPendingNew(held[m])
           THEN UNCHANGED <<pc, msg>>
           ELSE msg' = [msg EXCEPT !["loop"] = m] /\ Goto("loop", "replan")
        /\ UNCHANGED <<files, claims, held, plan, st, tr, ready, todo, process>>

\* receive_channel_message begins again, in the lane's session of now
Replan ==
    /\ At("loop", "replan")
    /\ Plan("loop", msg["loop"])
    /\ UNCHANGED <<files, claims, held, st, tr, ready, todo, replay, process>>

RemoveHeld ==
    /\ At("loop", "remove")
    /\ held' = [held EXCEPT ![msg["loop"]] = NoSession]
    /\ Goto("loop", "held")
    /\ UNCHANGED <<files, claims, msg, plan, st, tr, ready, todo, replay, process>>

Rest ==
    /\ At("loop", "held") /\ replay = {}
    /\ Goto("loop", "idle") /\ Forget("loop")
    /\ UNCHANGED <<files, claims, held, todo, replay, process>>

-----------------------------------------------------------------------------
(* Errors and crashes *)

Failing == {"enqueue", "link", "complete", "apply", "prepare", "ack", "cancel", "stops", "close",
            "write", "commit"}

\* settle_failed_new_ingress_claim: only the handling that still owns the claim
\* settles it, as complete once the intent is durable, else as retryable
SettleClaim(m, recovery) ==
    claim' = IF claim[m] # "open" \/ claimOwner[m] # generation \/ recoveries[m] # recovery THEN claim
             ELSE [claim EXCEPT ![m] = IF DurableNew(claimSession[m]) THEN "done" ELSE "retryable"]

\* an I/O error in the middle of a command or of an enqueue, or an old virtual
\* session that could not be closed.  The /new failure guard settles the claim as
\* it is dropped.
GatewayFails ==
    LET m == msg["gateway"]
    IN  /\ pc["gateway"] \in Failing /\ faults < MaxFaults
        /\ faults' = faults + 1
        /\ Goto("gateway", "idle") /\ Forget("gateway")
        /\ IF Kind[m] = "new" THEN SettleClaim(m, recoveries[m]) ELSE UNCHANGED claim
        /\ UNCHANGED <<files, claimOwner, claimSession, recoveries, held, todo, replay, settles, generation>>

\* settle_or_retry_failed_new_ingress_claim hands a settlement that failed three
\* times to the retry thread
SettleDeferred ==
    LET m == msg["gateway"]
    IN  /\ pc["gateway"] \in Failing /\ Kind[m] = "new" /\ faults < MaxFaults
        /\ faults' = faults + 1
        /\ Goto("gateway", "idle") /\ Forget("gateway")
        /\ settles' = settles \cup {[msg |-> m, recovery |-> recoveries[m]]}
        /\ UNCHANGED <<files, claims, held, todo, replay, generation>>

\* failed_new_ingress_claim_retry_worker; when it gives up it aborts the gateway
RetrySettle ==
    \E s \in settles :
        /\ SettleClaim(s.msg, s.recovery)
        /\ settles' = settles \ {s}
        /\ UNCHANGED <<files, claimOwner, claimSession, recoveries, held, locals, generation,
                       faults>>

\* an error in a transition leaves it pending, one in a replay leaves the record
LoopFails ==
    /\ pc["loop"] \in Failing /\ faults < MaxFaults
    /\ faults' = faults + 1
    /\ Goto("loop", IF pc["loop"] \in {"enqueue", "link", "complete"} THEN "held" ELSE "transitions")
    /\ UNCHANGED <<files, claims, held, msg, plan, st, tr, ready, todo, replay, settles, generation>>

GatewayCrashes ==
    /\ faults < MaxFaults
    /\ faults' = faults + 1
    /\ generation' = generation + 1
    /\ settles' = {}
    /\ Goto("gateway", "idle") /\ Forget("gateway")
    /\ UNCHANGED <<files, claims, held, todo, replay>>

LoopCrashes ==
    /\ faults < MaxFaults
    /\ faults' = faults + 1
    /\ todo' = {} /\ replay' = {}
    /\ Goto("loop", "idle") /\ Forget("loop")
    /\ UNCHANGED <<files, claims, held, settles, generation>>

-----------------------------------------------------------------------------
Receive(p) ==
    Admit(p) \/ Hold(p) \/ CreateClaim(p) \/ RecoverClaim(p) \/ Duplicate(p)
    \/ Enqueue(p) \/ Link(p) \/ Complete(p)

Transition(p) == Ack(p) \/ Cancel(p) \/ SiblingStops(p) \/ Close(p) \/ WriteState(p) \/ Commit(p)

Gateway == Poll \/ Receive("gateway") \/ ReadState \/ Prepare \/ Transition("gateway") \/ StoreOffset

Loop == Scan \/ TakeTransition \/ Boundary \/ Transition("loop")
        \/ ScanHeld \/ TakeHeld \/ Replan \/ Receive("loop") \/ RemoveHeld \/ Rest

Next == Gateway \/ Loop \/ RetrySettle \/ GatewayFails \/ SettleDeferred \/ LoopFails \/ GatewayCrashes \/ LoopCrashes

Spec == Init /\ [][Next]_vars

-----------------------------------------------------------------------------
(* Properties *)

FilesType ==
    /\ offset \in 0 .. Last /\ active \in Sessions /\ stored \in BOOLEAN
    /\ intents \in Seq(Intent)
    /\ committed \subseteq Ids /\ closed \subseteq Ids
    /\ acks \subseteq Sessions /\ cancels \subseteq Sessions
    /\ queue \in Seq([msg : Msgs, session : Sessions]) /\ stopped \subseteq 1 .. Len(queue)
    /\ held \in [Msgs -> Sessions \cup {NoSession}]

ClaimsType ==
    /\ claim \in [Msgs -> {"none", "open", "linked", "retryable", "done"}]
    /\ claimOwner \in [Msgs -> Nat] /\ claimSession \in [Msgs -> Sessions]
    /\ recoveries \in [Msgs -> Nat]
    /\ settles \subseteq [msg : Msgs, recovery : Nat]
    /\ generation \in Nat /\ faults \in 0 .. MaxFaults

LocalsType ==
    /\ pc \in [Procs -> Failing \cup {"idle", "admit", "hold", "claim", "offset", "transitions",
                                      "boundary", "held", "replan", "remove"}]
    /\ msg \in [Procs -> Msgs \cup {0}] /\ plan \in [Procs -> Sessions]
    /\ st \in [Procs -> Sessions] /\ tr \in [Procs -> Ids \cup {NoTransition}]
    /\ ready \in BOOLEAN /\ todo \subseteq 1 .. Len(intents) /\ replay \subseteq Msgs

\* The files, the claims and the locals of both loops keep their types: every
\* handler of the lane reads what the others write.
TypeOK == FilesType /\ ClaimsType /\ LocalsType

\* An update becomes at most one turn of the runtime queue, however often the
\* provider delivers it and whether the gateway enqueues it or the replay does,
\* with a crash between any two of their writes: the ingress claim file decides.
QueuedOnce ==
    \A i, j \in 1 .. Len(queue) : queue[i].msg = queue[j].msg => i = j

\* The lane's session is its first one or the target that a durable /new froze,
\* and the goal boundary of that /new is closed: a stale handler, a replayed
\* command or a reconciler that crashed half way never rotates the lane on an
\* ambiguous or pending boundary.
ActiveIsProven ==
    active = 0 \/ \E i \in Intents : i.id.command = "new" /\ i.frozen = active /\ BoundaryReady(i)

\* One update freezes at most one target session: a retry, a takeover of its
\* claim or a redelivery after the lane has moved on finds the durable intent and
\* does not propose a second one.
OneTargetPerUpdate ==
    \A i, j \in 1 .. Len(intents) :
        intents[i].frozen = intents[j].frozen /\ intents[i].frozen # NoSession => i = j

\* A /new is committed only with its acknowledgement in the outbox, whichever of
\* the two processes wrote which, and wherever the other one stopped.
CommitIsAcknowledged ==
    \A id \in committed : id.command = "new" => id.old \in acks

\* The loops keep running and a goal closure that is executed again and again
\* succeeds in the end; faults are bounded.
Fairness ==
    /\ WF_vars(Gateway) /\ WF_vars(Loop) /\ WF_vars(RetrySettle)
    /\ SF_vars(Boundary /\ pc'["loop"] # "transitions")

FairSpec == Spec /\ Fairness

\* a /new from the session is recorded and its goal boundary can be closed
Closable(session) ==
    DurableNew(session) /\ IntentOf(Id("new", session)).boundary # "ambiguous"

\* A recorded /new is committed, by its handler or by the reconciler, from
\* wherever a crash or an error left it.
TransitionsCommit == \A s \in Sessions : Closable(s) ~> Id("new", s) \in committed

\* Every update comes to rest.  The poll gets past it: no claim that a failed or
\* dead handler left behind makes the same update fail for ever.  And a held
\* message leaves the hold once its transition can be closed: the replay does not
\* keep a record that it has already queued or cannot admit.
UpdatesSettle ==
    /\ <>[](offset = Last)
    /\ \A m \in Msgs : (held[m] # NoSession /\ Closable(held[m])) ~> held[m] = NoSession
=============================================================================
