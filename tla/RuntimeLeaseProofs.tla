------------------------ MODULE RuntimeLeaseProofs ------------------------
(***************************************************************************)
(* No lane ever has two children, no child outlives its lease, the turns   *)
(* of a lane start in order and a completed turn is not started again.     *)
(***************************************************************************)
EXTENDS RuntimeLeaseSafety

USE ZenonT(60)

(* Order of the turns of a lane *)

\* the program points between the grant of an item and its child
Early == {"capture", "prearm", "spawn"}
Admitting(p) == (op[p].pc = "write" /\ op[p].grant) \/ op[p].pc = "prepare" \/ op[p].pc \in Early

\* what a snapshot calls terminal is terminal
Snapshots == \A p \in Runners, j \in Items : op[p].seen[j] \in Closed => status[j] \in Closed

\* an item granted is the first of its lane that is not terminal
Admitted == \A p \in Runners, j \in Items : Admitting(p) /\ Older(j, op[p].item) => status[j] \in Closed

\* an item still leased to a runner that looked for its completed turn has none
Unrepeated == \A p \in Runners : op[p].pc \in Early /\ lease[op[p].item] = op[p].acq => op[p].item \notin done

\* how one step may move a runner
Course(p) ==
    /\ op'[p].seen \in {op[p].seen, Unseen, status}
    /\ Admitting(p)' =>
          /\ op'[p].item = op[p].item
          /\ Admitting(p) \/ FirstInLane(op[p].item, op[p].seen)
    /\ op'[p].pc \in Early =>
          /\ op'[p].item = op[p].item /\ op'[p].acq = op[p].acq
          /\ op[p].pc \in Early \/ op[p].item \notin done

LEMMA Courses == ASSUME TypeOK, Hands, [Next]_vars, NEW q \in Runners PROVE Course(q)
  <1>1. ASSUME op'[q] = op[q] PROVE Course(q)
    BY <1>1 DEF Course, Admitting
  <1>2. ASSUME NEW p \in Runners, NoWork(p) \/ PrepareFails(p) \/ Receipt(p) \/ Crash(p) PROVE Course(q)
    <2>1. op' = [op EXCEPT ![p] = Resting]
      BY <1>2 DEF NoWork, PrepareFails, Receipt, Crash
    <2>2. op'[q] = op[q] \/ (op'[q].pc = "idle" /\ op'[q].seen = Unseen)
      BY <2>1, Rested DEF TypeOK
    <2> QED
      BY <1>1, <2>2 DEF Course, Admitting, Early
  <1>3. ASSUME NEW p \in Runners, NEW c \in Classes, InspectClass(p, c) \/ InspectBusy(p, c) PROVE Course(q)
    <2>1. op[p].pc = "inspect" /\ Visited(p, c)
      BY <1>3 DEF InspectClass, InspectBusy
    <2>2. op'[q] = op[q] \/ (op'[q].pc \in {"idle", "inspect"} /\ op'[q].seen \in {op[q].seen, Unseen})
      BY <2>1, VisitedMoves DEF TypeOK
    <2> QED
      BY <1>1, <2>2 DEF Course, Admitting, Early
  <1>4. ASSUME NEW p \in Runners, InspectStart(p) \/ LockBusy(p) \/ \E i \in Items : Request(p, i) PROVE Course(q)
    <2>1. CASE q # p
      BY <1>1, <1>4, <2>1 DEF InspectStart, LockBusy, Request, TypeOK
    <2>2. CASE q = p
      <3>1. op[q] \in Ops
        BY DEF TypeOK
      <3>2. op'[q].pc \in {"inspect", "lock", "no-work"} /\ op'[q].seen \in {status, Unseen}
        <4>1. CASE InspectStart(p)
          BY <2>2, <3>1, <4>1 DEF InspectStart, TypeOK, Ops
        <4>2. CASE LockBusy(p)
          BY <2>2, <3>1, <4>2 DEF LockBusy, TypeOK, Ops
        <4>3. CASE \E i \in Items : Request(p, i)
          BY <2>2, <3>1, <4>3, SMTT(30) DEF Request, TypeOK, Ops
        <4> QED
          BY <1>4, <4>1, <4>2, <4>3
      <3> QED
        BY <3>2 DEF Course, Admitting, Early
    <2> QED
      BY <2>1, <2>2
  <1>5. ASSUME NEW p \in Runners, CheckCompletion(p) \/ Capture(p) \/ Prearm(p) PROVE Course(q)
    <2>1. op'[q] = op[q] \/ (/\ op'[q].pc \in {"capture", "prearm", "spawn", "release"}
                             /\ op'[q].item = op[q].item /\ op'[q].acq = op[q].acq /\ op'[q].seen = op[q].seen)
      BY <1>5, Moved, Ended DEF CheckCompletion, Capture, Prearm, TypeOK, Pcs, Outcomes
    <2>2. CASE q # p
      BY <1>1, <1>5, <2>2, Moved, Ended DEF CheckCompletion, Capture, Prearm, TypeOK, Pcs, Outcomes
    <2>3. CASE q = p
      <3>1. \/ op[q].pc \in Early
            \/ op[q].pc = "prepare" /\ (op'[q].pc = "release" \/ op[q].item \notin done)
        BY <1>5, <2>3, Ended DEF CheckCompletion, Capture, Prearm, Early, TypeOK, Pcs, Outcomes
      <3> QED
        BY <1>1, <2>1, <3>1 DEF Course, Admitting, Early
    <2> QED
      BY <2>2, <2>3
  <1>6. ASSUME NEW p \in Runners,
               \/ Spawn(p) \/ SpawnFails(p) \/ Bind(p) \/ Poll(p) \/ Prove(p) \/ Clear(p) \/ Defer(p) \/ Release(p)
               \/ \E out \in Outcomes \ {"none"} : TurnEnds(p, out)
        PROVE  Course(q)
    <2>1. \/ UNCHANGED op
          \/ \E pc \in {"bind", "prove", "run", "clear", "release", "receipt"} :
                Goto(p, pc) \/ \E out \in Outcomes : End(p, pc, out)
      BY <1>6 DEF Spawn, SpawnFails, Bind, Poll, Prove, Clear, Defer, Release, TurnEnds, Outcomes
    <2>2. op'[q] = op[q] \/ (/\ op'[q].pc \in {"bind", "prove", "run", "clear", "release", "receipt"}
                             /\ op'[q].seen = op[q].seen)
      BY <2>1, Moved, Ended, SMTT(30) DEF TypeOK, Pcs
    <2> QED
      BY <1>1, <2>2 DEF Course, Admitting, Early
  <1>7. ASSUME NEW p \in Runners, Reserve(p) PROVE Course(q)
    <2>1. CASE q # p
      BY <1>1, <1>7, <2>1 DEF Reserve, TypeOK
    <2>2. CASE q = p
      <3>1. /\ op'[q].pc = "write" /\ op'[q].item = op[q].item /\ op'[q].seen = Unseen
            /\ op'[q].grant = Grantable(op[q].item, op[q].seen, Kept(ClassOf(op[q].item), op[q].seen))
        BY <1>7, <2>2 DEF Reserve, TypeOK, Ops
      <3> QED
        BY <3>1 DEF Course, Admitting, Early, Grantable
    <2> QED
      BY <2>1, <2>2
  <1>8. ASSUME NEW p \in Runners, WriteLeases(p) PROVE Course(q)
    <2>1. CASE q # p
      BY <1>1, <1>8, <2>1 DEF WriteLeases, TypeOK
    <2>2. CASE q = p /\ op[p].grant
      <3>1. op[q].pc = "write" /\ op'[q].pc = "prepare" /\ op'[q].item = op[q].item /\ op'[q].seen = op[q].seen
        BY <1>8, <2>2, WriteMoves DEF WriteLeases
      <3> QED
        BY <2>2, <3>1 DEF Course, Admitting, Early
    <2>3. CASE q = p /\ ~op[p].grant
      <3>1. op'[q].pc = "no-work" /\ op'[q].seen = op[q].seen
        BY <1>8, <2>3, WriteMoves
      <3> QED
        BY <3>1 DEF Course, Admitting, Early
    <2> QED
      BY <2>1, <2>2, <2>3
  <1>9. CASE \/ Tick \/ (\E i \in Items : Elapse(i)) \/ (\E a \in Acqs : RetryProof(a) \/ OrphanDies(a))
             \/ UNCHANGED vars
    BY <1>1, <1>9 DEF Tick, Elapse, RetryProof, OrphanDies, procs, vars
  <1> QED
    BY <1>2, <1>3, <1>4, <1>5, <1>6, <1>7, <1>8, <1>9 DEF Next, RunnerStep

\* a terminal item stays terminal
LEMMA ClosedStays ==
    ASSUME TypeOK, [Next]_vars, NEW j \in Items, status[j] \in Closed PROVE status'[j] \in Closed
  <1>1. ASSUME NEW p \in Runners, NoWork(p) \/ Receipt(p) PROVE status'[j] \in Closed
    BY <1>1 DEF NoWork, Receipt, Closed, TypeOK
  <1>2. ASSUME NEW p \in Runners, RunnerStep(p), ~NoWork(p), ~Receipt(p) PROVE UNCHANGED status
    BY <1>2 DEF RunnerStep, InspectClass, InspectBusy, LockBusy, Reserve, WriteLeases, CheckCompletion,
       Capture, Prearm, Spawn, Bind, Poll, Prove, Clear, Defer, Release, files
  <1>3. ASSUME NEW p \in Runners,
               \/ InspectStart(p) \/ PrepareFails(p) \/ SpawnFails(p) \/ Crash(p)
               \/ \E i \in Items : Request(p, i)
               \/ \E out \in Outcomes \ {"none"} : TurnEnds(p, out)
        PROVE  UNCHANGED status
    BY <1>3 DEF InspectStart, PrepareFails, SpawnFails, Crash, Request, TurnEnds, files
  <1>4. CASE \/ \E a \in Acqs : RetryProof(a) \/ OrphanDies(a)
             \/ Tick \/ (\E i \in Items : Elapse(i)) \/ UNCHANGED vars
    BY <1>4 DEF RetryProof, OrphanDies, Tick, Elapse, files, vars
  <1> QED
    BY <1>1, <1>2, <1>3, <1>4 DEF Next

LEMMA OrderStep ==
    ASSUME TypeOK, Safe, Snapshots, Admitted, [Next]_vars PROVE Snapshots' /\ Admitted'
  <1>1. \A q \in Runners : Course(q)
    BY Courses DEF Safe
  <1>2. \A j \in Items : status[j] \in Closed => status'[j] \in Closed
    BY ClosedStays
  <1>3. Snapshots'
    BY <1>1, <1>2 DEF Snapshots, Course, Unseen, Closed
  <1>4. Admitted'
    BY <1>1, <1>2 DEF Snapshots, Admitted, Course, FirstInLane, Older
  <1> QED
    BY <1>3, <1>4

\* a lease file names an acquisition that a runner has in hand only if it did
\* before
LEMMA LeaseNotRestored ==
    ASSUME TypeOK, [Next]_vars, NEW q \in Runners, NEW i \in Items, lease'[i] = op[q].acq, op[q].acq \in Acqs
    PROVE  lease[i] = op[q].acq
  <1>1. NoAcq \notin Acqs
    BY Constants
  <1>2. ASSUME NEW p \in Runners, WriteLeases(p) PROVE lease[i] = op[q].acq
    <2>1. CASE i = op[p].item /\ op[p].grant
      <3>1. lease'[i] \notin InUse
        BY <1>2, <2>1, FreshAcqType DEF WriteLeases
      <3> QED
        BY <3>1 DEF InUse
    <2>2. CASE ~(i = op[p].item /\ op[p].grant)
      BY <1>1, <1>2, <2>2 DEF WriteLeases
    <2> QED
      BY <2>1, <2>2
  <1>3. ASSUME NEW p \in Runners, PrepareFails(p) \/ Release(p) \/ \E c \in Classes : InspectClass(p, c)
        PROVE  lease[i] = op[q].acq
    BY <1>1, <1>3 DEF PrepareFails, Release, Released, InspectClass, TypeOK
  <1>4. CASE ~\E p \in Runners : \/ WriteLeases(p) \/ PrepareFails(p) \/ Release(p)
                                 \/ \E c \in Classes : InspectClass(p, c)
    <2>1. UNCHANGED lease
      BY <1>4 DEF Next, RunnerStep, InspectStart, InspectBusy, LockBusy, Reserve, NoWork, CheckCompletion, Capture,
         Prearm, Spawn, Bind, Poll, Prove, Clear, Defer, SpawnFails, Crash, Request, TurnEnds, Receipt,
         RetryProof, OrphanDies, Tick, Elapse, files, vars
    <2> QED
      BY <2>1
  <1> QED
    BY <1>2, <1>3, <1>4

LEMMA DoneChanges ==
    ASSUME [Next]_vars
    PROVE  UNCHANGED done \/ \E p \in Runners, out \in Outcomes \ {"none"} : TurnEnds(p, out)
  <1>1. ASSUME NEW p \in Runners, RunnerStep(p) PROVE UNCHANGED done
    BY <1>1 DEF RunnerStep, InspectClass, InspectBusy, LockBusy, Reserve, WriteLeases, NoWork, CheckCompletion,
       Capture, Prearm, Spawn, Bind, Poll, Prove, Clear, Defer, Release, Receipt, files
  <1>2. ASSUME NEW p \in Runners,
               InspectStart(p) \/ PrepareFails(p) \/ SpawnFails(p) \/ Crash(p) \/ \E i \in Items : Request(p, i)
        PROVE  UNCHANGED done
    BY <1>2 DEF InspectStart, PrepareFails, SpawnFails, Crash, Request, files
  <1>3. CASE \/ Tick \/ (\E i \in Items : Elapse(i)) \/ (\E a \in Acqs : RetryProof(a) \/ OrphanDies(a))
             \/ UNCHANGED vars
    BY <1>3 DEF Tick, Elapse, RetryProof, OrphanDies, files, vars
  <1> QED
    BY <1>1, <1>2, <1>3 DEF Next

LEMMA UnrepeatedStep == ASSUME TypeOK, Safe, Unrepeated, [Next]_vars PROVE Unrepeated'
  <1> SUFFICES ASSUME NEW q \in Runners, op'[q].pc \in Early, lease'[op'[q].item] = op'[q].acq
               PROVE  op'[q].item \notin done'
    BY DEF Unrepeated
  <1> DEFINE i == op[q].item
             a == op[q].acq
  <1>1. Course(q) /\ op'[q].item = i /\ op'[q].acq = a /\ i \in Items
    BY Courses DEF Safe, Course, TypeOK, Ops
  <1>2. Hand(q)'
    BY SafeStep DEF Safe, Hands
  <1>3. a \in Acqs /\ a.own = q
    BY <1>1, <1>2 DEF Hand, Early, Active
  <1>4. lease[i] = a
    BY <1>1, <1>3, LeaseNotRestored
  <1>5. i \notin done
    BY <1>1, <1>4 DEF Course, Unrepeated
  <1>6. ASSUME NEW p \in Runners, NEW out \in Outcomes \ {"none"}, TurnEnds(p, out) PROVE i \notin done'
    <2>1. op[p].pc = "run" /\ op'[p].pc = "prove"
      BY <1>6, Ended DEF TurnEnds, TypeOK, Pcs
    <2>2. p # q
      BY <2>1 DEF Early
    <2>3. op[p].acq \in kids /\ op[p].acq.own = p /\ op[p].acq.item = op[p].item
      BY <2>1 DEF Safe, Hands, Hand, Active, Parent
    <2>4. lease[op[p].item] = op[p].acq
      BY <2>3, LeaseOutlives DEF LeaseOutlivesChild, Safe
    <2>5. op[p].item # i
      BY <1>3, <1>4, <2>2, <2>3, <2>4
    <2> QED
      BY <1>5, <1>6, <2>5 DEF TurnEnds
  <1>7. CASE ~\E p \in Runners, out \in Outcomes \ {"none"} : TurnEnds(p, out)
    <2>1. UNCHANGED done
      BY <1>7, DoneChanges
    <2> QED
      BY <1>1, <1>5, <2>1
  <1> QED
    BY <1>1, <1>6, <1>7

LEMMA NewChild ==
    ASSUME TypeOK, [Next]_vars, NEW a \in kids' \ kids
    PROVE  \E p \in Runners : Spawn(p) /\ a = op[p].acq
  <1>1. ASSUME NEW p \in Runners, RunnerStep(p), ~Spawn(p) PROVE kids' \subseteq kids
    BY <1>1 DEF RunnerStep, InspectClass, InspectBusy, LockBusy, Reserve, WriteLeases, NoWork, CheckCompletion,
       Capture, Prearm, Bind, Poll, Prove, Clear, Defer, Release, Receipt
  <1>2. ASSUME NEW p \in Runners,
               \/ InspectStart(p) \/ PrepareFails(p) \/ SpawnFails(p) \/ Crash(p)
               \/ \E i \in Items : Request(p, i)
               \/ \E out \in Outcomes \ {"none"} : TurnEnds(p, out)
        PROVE  kids' \subseteq kids
    BY <1>2 DEF InspectStart, PrepareFails, SpawnFails, Crash, Request, TurnEnds
  <1>3. ASSUME \/ Tick \/ (\E i \in Items : Elapse(i)) \/ (\E b \in Acqs : RetryProof(b) \/ OrphanDies(b))
               \/ UNCHANGED vars
        PROVE  kids' \subseteq kids
    BY <1>3 DEF Tick, Elapse, RetryProof, OrphanDies, procs, vars
  <1>4. \E p \in Runners : Spawn(p)
    BY <1>1, <1>2, <1>3 DEF Next
  <1> QED
    BY <1>4 DEF Spawn

---------------------------------------------------------------------------
(* Theorems *)

Inductive == TypeOK /\ Safe /\ Snapshots /\ Admitted /\ Unrepeated

LEMMA InitInductive == Init => Inductive
  <1> SUFFICES ASSUME Init PROVE Inductive
    OBVIOUS
  <1>1. TypeOK
    BY Constants, LanesAssumption, PlatformsAssumption, LimitsAssumption, SMTT(30) DEF Init, TypeOK, Statuses
  <1>2. \A p \in Runners : op[p].pc = "idle" /\ op[p].seen = Unseen
    BY DEF Init, Resting
  <1>3. Safe
    BY <1>2 DEF Init, Safe, Hands, Hand, Active, Children, Fences, Prearmed, Purged, Purging, Fencing
  <1>4. Snapshots /\ Admitted /\ Unrepeated
    BY <1>2 DEF Snapshots, Unseen, Closed, Admitted, Admitting, Unrepeated, Early
  <1> QED
    BY <1>1, <1>3, <1>4 DEF Inductive

LEMMA InductiveStep == Inductive /\ [Next]_vars => Inductive'
  <1> SUFFICES ASSUME Inductive, [Next]_vars PROVE Inductive'
    OBVIOUS
  <1>1. TypeOK /\ Safe /\ Hands /\ Snapshots /\ Admitted /\ Unrepeated
    BY DEF Inductive, Safe
  <1> QED
    BY <1>1, TypeStep, SafeStep, OrderStep, UnrepeatedStep DEF Inductive

LEMMA InductiveHolds == Spec => []Inductive
  BY InitInductive, InductiveStep, PTL DEF Spec

\* Every step keeps the lease files, the fences and the processes' local
\* state in shape.
THEOREM TypeCorrect == Spec => []TypeOK
  <1>1. Inductive => TypeOK
    BY DEF Inductive
  <1> QED
    BY <1>1, InductiveHolds, PTL

\* No purge, release, reconciliation or crash takes the lease or the fence
\* from under a live child.
THEOREM LeaseHeldWhileChildLives == Spec => []LeaseOutlivesChild
  <1>1. Inductive => LeaseOutlivesChild
    BY LeaseOutlives DEF Inductive, Safe
  <1> QED
    BY <1>1, InductiveHolds, PTL

\* No lane has two child process trees: both would be fenced for, and a lane
\* has one fence.
THEOREM LaneIsExclusive == Spec => []OneChildPerLane
  <1>1. Inductive => OneChildPerLane
    BY DEF Inductive, Safe, Fencing, Fence, OneChildPerLane
  <1> QED
    BY <1>1, InductiveHolds, PTL

\* A turn is started only when every older item of its lane is terminal,
\* however old the snapshot FIFO was decided on.
THEOREM LaneIsFifo == Spec => LaneFifo
  <1>1. Inductive /\ [Next]_vars =>
            [\A a \in kids' \ kids, j \in Items : Older(j, a.item) => status[j] \in Closed]_vars
    <2> SUFFICES ASSUME Inductive, [Next]_vars, NEW a \in kids' \ kids, NEW j \in Items, Older(j, a.item)
                 PROVE  status[j] \in Closed
      OBVIOUS
    <2>1. TypeOK /\ Safe /\ Hands /\ Admitted
      BY DEF Inductive, Safe
    <2>2. PICK p \in Runners : Spawn(p) /\ a = op[p].acq
      BY <2>1, NewChild
    <2>3. op[p].pc = "spawn" /\ a.item = op[p].item
      BY <2>1, <2>2 DEF Spawn, Hands, Hand, Active
    <2> QED
      BY <2>1, <2>3 DEF Admitted, Admitting, Early
  <1> QED
    BY <1>1, InductiveHolds, PTL DEF Spec, LaneFifo

\* A turn whose completion is on record is not given to a child again.
THEOREM CompletedOnce == Spec => CompletedTurnNotRepeated
  <1>1. Inductive /\ [Next]_vars => [\A a \in kids' \ kids : a.item \notin done]_vars
    <2> SUFFICES ASSUME Inductive, [Next]_vars, NEW a \in kids' \ kids PROVE a.item \notin done
      OBVIOUS
    <2>1. TypeOK /\ Safe /\ Unrepeated
      BY DEF Inductive
    <2>2. PICK p \in Runners : Spawn(p) /\ a = op[p].acq
      BY <2>1, NewChild
    <2>3. op[p].pc = "spawn" /\ a.item = op[p].item /\ a \in Acqs /\ op[p].item \in Items
      BY <2>1, <2>2 DEF Spawn, Safe, Hands, Hand, Active, TypeOK, Ops
    <2>4. fence[Lane[op[p].item]].acq = a
      BY <2>1, <2>2, <2>3 DEF Safe, Prearmed
    <2>5. lease[op[p].item] = a
      BY <2>1, <2>3, <2>4, Nothing, LanesAssumption DEF Safe, Fences
    <2> QED
      BY <2>1, <2>2, <2>3, <2>5 DEF Unrepeated, Early
  <1> QED
    BY <1>1, InductiveHolds, PTL DEF Spec, CompletedTurnNotRepeated
===========================================================================
