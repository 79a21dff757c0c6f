------------------------ MODULE RuntimeLeaseSafety ------------------------
(***************************************************************************)
(* Every step keeps the types of RuntimeLease and the invariant Safe, by   *)
(* which a live child is fenced for and its lease is retained, for any     *)
(* items, lanes, classes and runners, any lease length and any number of   *)
(* crashes.                                                                *)
(***************************************************************************)
EXTENDS RuntimeLease, TLAPS

USE ZenonT(60)

\* the program points between a lease and the end of its receipt, those at
\* which no proof of cleanup can have been deferred yet, and those at which a
\* child is alive
Active == {"prepare", "capture", "prearm", "spawn", "bind", "run", "prove", "clear", "release", "receipt"}
Owing == Active \ {"release", "receipt"}
Parent == {"bind", "run"}

\* what a runner has in hand is an acquisition of its own that is not dead
Hand(p) ==
    op[p].pc \in Active =>
        /\ op[p].acq \in Acqs /\ op[p].acq.own = p /\ op[p].acq.item = op[p].item
        /\ op[p].acq \notin dead
        /\ op[p].pc \in Owing => op[p].acq \notin deferred
        /\ op[p].acq \in kids <=> op[p].pc \in Parent

Hands == \A p \in Runners : Hand(p)

---------------------------------------------------------------------------
(* Types *)

LEMMA Constants ==
    /\ AnItem \in Items /\ NoAcq \notin Acqs /\ Unseen \in [Items -> Statuses]
    /\ NoFence \notin [acq : Acqs, phase : Phases] /\ Resting \in Ops
  <1>1. AnItem \in Items
    BY LanesAssumption DEF AnItem
  <1>2. NoAcq \notin Acqs
    BY StampsAssumption DEF NoAcq, Acqs
  <1>3. Unseen \in [Items -> Statuses]
    BY DEF Unseen, Statuses
  <1>4. Resting \in Ops
    BY <1>1, <1>3 DEF Resting, Ops, Pcs, Outcomes
  <1> QED
    BY <1>1, <1>2, <1>3, <1>4 DEF NoFence, Phases

\* one runner's fields change, and how
LEMMA Inspecting ==
    ASSUME NEW r \in Ops, NEW s \in [Items -> Statuses]
    PROVE  [r EXCEPT !.pc = "inspect", !.todo = Classes, !.seen = s] \in Ops
  BY DEF Ops, Pcs

LEMMA Requesting ==
    ASSUME NEW r \in Ops, NEW i \in Items, NEW s \in [Items -> Statuses]
    PROVE  [r EXCEPT !.pc = "lock", !.item = i, !.seen = s] \in Ops
  BY DEF Ops, Pcs

LEMMA Granted ==
    ASSUME NEW r \in Ops, NEW a \in Acqs
    PROVE  [r EXCEPT !.pc = "prepare", !.acq = a, !.keep = {}, !.grant = FALSE] \in Ops
  BY DEF Ops, Pcs

LEMMA Refused == ASSUME NEW r \in Ops PROVE [r EXCEPT !.pc = "no-work", !.keep = {}] \in Ops
  BY DEF Ops, Pcs

LEMMA Updated ==
    ASSUME op \in [Runners -> Ops], NEW p \in Runners, NEW r \in Ops, op' = [op EXCEPT ![p] = r]
    PROVE  op' \in [Runners -> Ops] /\ op'[p] = r /\ \A q \in Runners \ {p} : op'[q] = op[q]
  OBVIOUS

LEMMA Moved ==
    ASSUME op \in [Runners -> Ops], NEW p \in Runners, NEW pc \in Pcs, Goto(p, pc)
    PROVE  /\ op' \in [Runners -> Ops]
           /\ \A q \in Runners \ {p} : op'[q] = op[q]
           /\ op'[p].pc = pc /\ op'[p].item = op[p].item /\ op'[p].acq = op[p].acq
           /\ op'[p].keep = op[p].keep /\ op'[p].grant = op[p].grant /\ op'[p].seen = op[p].seen
  BY DEF Goto, Ops

LEMMA Ended ==
    ASSUME op \in [Runners -> Ops], NEW p \in Runners, NEW pc \in Pcs, NEW out \in Outcomes, End(p, pc, out)
    PROVE  /\ op' \in [Runners -> Ops]
           /\ \A q \in Runners \ {p} : op'[q] = op[q]
           /\ op'[p].pc = pc /\ op'[p].item = op[p].item /\ op'[p].acq = op[p].acq
           /\ op'[p].keep = op[p].keep /\ op'[p].grant = op[p].grant /\ op'[p].seen = op[p].seen
  BY DEF End, Ops

LEMMA Rested ==
    ASSUME op \in [Runners -> Ops], NEW p \in Runners, op' = [op EXCEPT ![p] = Resting]
    PROVE  /\ op' \in [Runners -> Ops]
           /\ \A q \in Runners \ {p} : op'[q] = op[q]
           /\ op'[p].pc = "idle" /\ op'[p].grant = FALSE /\ op'[p].seen = Unseen
  BY Constants DEF Resting

LEMMA VisitedMoves ==
    ASSUME op \in [Runners -> Ops], NEW p \in Runners, NEW c, Visited(p, c)
    PROVE  /\ op' \in [Runners -> Ops]
           /\ \A q \in Runners \ {p} : op'[q] = op[q]
           /\ \/ op'[p].pc = "idle" /\ op'[p].grant = FALSE /\ op'[p].seen = Unseen
              \/ /\ op'[p].pc = op[p].pc /\ op'[p].item = op[p].item /\ op'[p].acq = op[p].acq
                 /\ op'[p].keep = op[p].keep /\ op'[p].grant = op[p].grant /\ op'[p].seen = op[p].seen
  <1>1. CASE op[p].todo = {c}
    BY <1>1, Rested DEF Visited
  <1>2. CASE op[p].todo # {c}
    <2>1. op' = [op EXCEPT ![p] = [op[p] EXCEPT !.todo = op[p].todo \ {c}]]
      BY <1>2 DEF Visited
    <2> QED
      BY <2>1 DEF Ops
  <1> QED
    BY <1>1, <1>2
LEMMA ReconciledType == ASSUME TypeOK, NEW c PROVE Reconciled(c) \in [Lanes -> [acq : Acqs, phase : Phases] \cup {NoFence}]
  BY DEF TypeOK, Reconciled

LEMMA FreshAcqType ==
    ASSUME NEW p, NEW i, Fresh(p, i) # {}
    PROVE  /\ FreshAcq(p, i) \in Acqs /\ FreshAcq(p, i) \notin InUse
           /\ FreshAcq(p, i).own = p /\ FreshAcq(p, i).item = i
  <1>1. FreshAcq(p, i) \in Fresh(p, i)
    BY DEF FreshAcq
  <1> QED
    BY <1>1 DEF Fresh

LEMMA InUseType == ASSUME TypeOK PROVE InUse \subseteq Acqs \cup {NoAcq}
  BY Constants, SMTT(30) DEF TypeOK, InUse, Ops, NoFence

LEMMA TypeStep == ASSUME TypeOK, Hands, [Next]_vars PROVE TypeOK'
  <1> USE DEF TypeOK
  <1>1. ASSUME NEW p \in Runners, InspectStart(p) PROVE TypeOK'
    <2>1. [op[p] EXCEPT !.pc = "inspect", !.todo = Classes, !.seen = status] \in Ops
      BY Inspecting, Requesting
    <2> QED
      BY <1>1, <2>1, Updated DEF InspectStart, files
  <1>2. ASSUME NEW p \in Runners, NEW c \in Classes, InspectClass(p, c) PROVE TypeOK'
    <2>1. op' \in [Runners -> Ops]
      BY <1>2, VisitedMoves DEF InspectClass
    <2>2. lease' \in [Items -> Acqs \cup {NoAcq}] /\ left' \in [Items -> 0 .. LeaseTicks]
      BY <1>2, LimitsAssumption, SMTT(30) DEF InspectClass
    <2> QED
      BY <1>2, <2>1, <2>2, ReconciledType DEF InspectClass
  <1>3. ASSUME NEW p \in Runners, NEW c \in Classes, InspectBusy(p, c) PROVE TypeOK'
    BY <1>3, VisitedMoves DEF InspectBusy, files
  <1>4. ASSUME NEW p \in Runners, NEW i \in Items, Request(p, i) PROVE TypeOK'
    <2>1. [op[p] EXCEPT !.pc = "lock", !.item = i, !.seen = status] \in Ops
      BY Inspecting, Requesting
    <2> QED
      BY <1>4, <2>1, Updated DEF Request, files
  <1>5. ASSUME NEW p \in Runners, LockBusy(p) PROVE TypeOK'
    <2>1. [op[p] EXCEPT !.pc = "no-work", !.seen = Unseen] \in Ops
      BY Constants DEF Ops, Pcs
    <2> QED
      BY <1>5, <2>1, Updated DEF LockBusy, files
  <1>6. ASSUME NEW p \in Runners, Reserve(p) PROVE TypeOK'
    <2> DEFINE kept == Kept(ClassOf(op[p].item), op[p].seen)
               g == Grantable(op[p].item, op[p].seen, kept)
    <2>1. kept \in SUBSET Items
      BY DEF Kept
    <2>2. g \in BOOLEAN
      BY DEF Grantable
    <2>3. op' = [op EXCEPT ![p] = [op[p] EXCEPT !.pc = "write", !.keep = kept, !.seen = Unseen, !.grant = g]]
      BY <1>6 DEF Reserve
    <2> HIDE DEF kept, g
    <2>4. [op[p] EXCEPT !.pc = "write", !.keep = kept, !.seen = Unseen, !.grant = g] \in Ops
      BY <2>1, <2>2, Constants DEF Ops, Pcs
    <2>5. op' \in [Runners -> Ops]
      BY <2>3, <2>4, Updated
    <2> QED
      BY <1>6, <2>5, ReconciledType DEF Reserve
  <1>7. ASSUME NEW p \in Runners, WriteLeases(p) PROVE TypeOK'
    <2> DEFINE a == FreshAcq(p, op[p].item)
    <2>1. lease' \in [Items -> Acqs \cup {NoAcq}] /\ left' \in [Items -> 0 .. LeaseTicks]
      BY <1>7, FreshAcqType, LimitsAssumption, SMTT(30) DEF WriteLeases
    <2>2. CASE op[p].grant
      <3>1. a \in Acqs
        BY <1>7, <2>2, FreshAcqType DEF WriteLeases
      <3>2. dead' = dead \ {a} /\ op' = [op EXCEPT ![p] = [op[p] EXCEPT !.pc = "prepare", !.acq = a,
                                                                        !.keep = {}, !.grant = FALSE]]
        BY <1>7, <2>2 DEF WriteLeases
      <3> HIDE DEF a
      <3>3. [op[p] EXCEPT !.pc = "prepare", !.acq = a, !.keep = {}, !.grant = FALSE] \in Ops
        BY <3>1, Granted
      <3>4. op' \in [Runners -> Ops]
        BY <3>2, <3>3, Updated
      <3> QED
        BY <1>7, <2>1, <3>2, <3>4 DEF WriteLeases
    <2>3. CASE ~op[p].grant
      <3>1. dead' = dead /\ op' = [op EXCEPT ![p] = [op[p] EXCEPT !.pc = "no-work", !.keep = {}]]
        BY <1>7, <2>3 DEF WriteLeases
      <3>2. [op[p] EXCEPT !.pc = "no-work", !.keep = {}] \in Ops
        BY Refused
      <3>3. op' \in [Runners -> Ops]
        BY <3>1, <3>2, Updated
      <3> QED
        BY <1>7, <2>1, <3>1, <3>3 DEF WriteLeases
    <2> QED
      BY <2>2, <2>3
  <1>8. ASSUME NEW p \in Runners, NoWork(p) PROVE TypeOK'
    BY <1>8, Rested DEF NoWork, Statuses, Closed
  <1>9. ASSUME NEW p \in Runners, PrepareFails(p) \/ Release(p) PROVE TypeOK'
    <2>1. op' \in [Runners -> Ops]
      BY <1>9, Rested, Moved DEF PrepareFails, Release, Pcs
    <2>2. lease' \in [Items -> Acqs \cup {NoAcq}] /\ left' \in [Items -> 0 .. LeaseTicks]
      BY <1>9, LimitsAssumption, SMTT(30) DEF PrepareFails, Release, Released
    <2> QED
      BY <1>9, <2>1, <2>2 DEF PrepareFails, Release
  <1>10. ASSUME NEW p \in Runners, CheckCompletion(p) \/ Capture(p) \/ SpawnFails(p) PROVE TypeOK'
    <2>1. op' \in [Runners -> Ops]
      BY <1>10, Moved, Ended DEF CheckCompletion, Capture, SpawnFails, Pcs, Outcomes
    <2> QED
      BY <1>10, <2>1 DEF CheckCompletion, Capture, SpawnFails, files
  <1>11. ASSUME NEW p \in Runners, Prearm(p) PROVE TypeOK'
    <2>1. op' \in [Runners -> Ops]
      BY <1>11, Moved, Ended DEF Prearm, Pcs, Outcomes
    <2>2. op[p].acq \in Acqs
      BY <1>11 DEF Prearm, Hands, Hand, Active
    <2>3. fence' \in [Lanes -> [acq : Acqs, phase : Phases] \cup {NoFence}]
      BY <1>11, <2>2, SMTT(30) DEF Prearm, Phases
    <2> QED
      BY <1>11, <2>1, <2>3 DEF Prearm
  <1>12. ASSUME NEW p \in Runners, Spawn(p) PROVE TypeOK'
    <2>1. op' \in [Runners -> Ops]
      BY <1>12, Moved DEF Spawn, Pcs
    <2> QED
      BY <1>12, <2>1 DEF Spawn, Hands, Hand, Active, files
  <1>13. ASSUME NEW p \in Runners, Bind(p) PROVE TypeOK'
    <2>1. op' \in [Runners -> Ops]
      BY <1>13, Moved, Ended DEF Bind, Pcs, Outcomes
    <2>2. op[p].acq \in Acqs
      BY <1>13 DEF Bind, Hands, Hand, Active
    <2>3. fence' \in [Lanes -> [acq : Acqs, phase : Phases] \cup {NoFence}]
      BY <1>13, <2>2, SMTT(30) DEF Bind, Phases, NoFence
    <2> QED
      BY <1>13, <2>1, <2>3 DEF Bind
  <1>14. ASSUME NEW p \in Runners, Poll(p) PROVE TypeOK'
    <2>1. op' \in [Runners -> Ops]
      BY <1>14, Ended DEF Poll, Pcs, Outcomes
    <2> QED
      BY <1>14, <2>1, LimitsAssumption, SMTT(30) DEF Poll
  <1>15. ASSUME NEW p \in Runners, NEW out \in Outcomes \ {"none"}, TurnEnds(p, out) PROVE TypeOK'
    <2>1. op' \in [Runners -> Ops]
      BY <1>15, Ended DEF TurnEnds, Pcs
    <2>2. op[p].item \in Items
      BY DEF Ops
    <2> QED
      BY <1>15, <2>1, <2>2 DEF TurnEnds
  <1>16. ASSUME NEW p \in Runners, Prove(p) \/ Clear(p) PROVE TypeOK'
    <2>1. op' \in [Runners -> Ops]
      BY <1>16, Moved DEF Prove, Clear, Pcs
    <2>2. op[p].acq \in Acqs
      BY <1>16 DEF Prove, Clear, Hands, Hand, Active
    <2>3. fence' \in [Lanes -> [acq : Acqs, phase : Phases] \cup {NoFence}]
      BY <1>16, <2>2, Constants, SMTT(30) DEF Prove, Clear, Fence, Phases, NoFence
    <2> QED
      BY <1>16, <2>1, <2>3 DEF Prove, Clear
  <1>17. ASSUME NEW p \in Runners, Defer(p) PROVE TypeOK'
    <2>1. op' \in [Runners -> Ops]
      BY <1>17, Moved DEF Defer, Pcs
    <2> QED
      BY <1>17, <2>1 DEF Defer, Hands, Hand, Active, files
  <1>18. ASSUME NEW a \in Acqs, RetryProof(a) PROVE TypeOK'
    <2>1. fence' \in [Lanes -> [acq : Acqs, phase : Phases] \cup {NoFence}]
      BY <1>18, Constants, SMTT(30) DEF RetryProof, Fence, Phases, NoFence
    <2> QED
      BY <1>18, <2>1 DEF RetryProof
  <1>19. ASSUME NEW p \in Runners, Receipt(p) PROVE TypeOK'
    <2>1. op' \in [Runners -> Ops] /\ op[p].item \in Items
      BY <1>19, Rested DEF Receipt, Ops
    <2> QED
      BY <1>19, <2>1, LimitsAssumption, SMTT(30) DEF Receipt, Statuses, Closed
  <1>20. ASSUME NEW p \in Runners, Crash(p) PROVE TypeOK'
    <2>1. {a \in InUse : a.own = p} \subseteq Acqs
      BY InUseType, LanesAssumption, SMTT(30) DEF NoAcq
    <2>2. op' \in [Runners -> Ops]
      BY <1>20, Rested DEF Crash
    <2> QED
      BY <1>20, <2>1, <2>2, LimitsAssumption, LanesAssumption, SMTT(30) DEF Crash, files
  <1>21. ASSUME NEW a \in Acqs, OrphanDies(a) PROVE TypeOK'
    BY <1>21 DEF OrphanDies, files
  <1>22. CASE Tick
    BY <1>22, LimitsAssumption, SMTT(30) DEF Tick, procs
  <1>23. ASSUME NEW i \in Items, Elapse(i) PROVE TypeOK'
    BY <1>23 DEF Elapse, files, procs
  <1>24. CASE UNCHANGED vars
    BY <1>24 DEF vars, files, procs
  <1> QED
    BY <1>1, <1>2, <1>3, <1>4, <1>5, <1>6, <1>7, <1>8, <1>9, <1>10, <1>11, <1>12, <1>13, <1>14, <1>15,
       <1>16, <1>17, <1>18, <1>19, <1>20, <1>21, <1>22, <1>23, <1>24 DEF Next, RunnerStep

---------------------------------------------------------------------------
(* The invariant *)

\* a child alive is not counted as cleaned up, nor on Windows as orphaned
Children ==
    /\ \A a \in kids : a \notin deferred
    /\ platform = "windows" => \A a \in kids : a \notin dead

\* a fence stands in the lane of its item, and its exact lease is retained
Fences ==
    \A l \in Lanes : fence[l] # NoFence =>
        /\ Lane[fence[l].acq.item] = l
        /\ lease[fence[l].acq.item] = fence[l].acq

\* the fence of a runner about to spawn is its own
Prearmed ==
    \A p \in Runners : op[p].pc = "spawn" =>
        LET f == fence[Lane[op[p].item]] IN f.acq = op[p].acq /\ f.phase = "spawn-in-progress"

\* between the purge and the write of the lease files the class is locked, the
\* fenced leases are among those to keep, and the lane granted is not fenced
Purging(p) ==
    op[p].pc = "write" =>
        /\ lock[ClassOf(op[p].item)] = p
        /\ \A i \in Items : ClassOf(i) = ClassOf(op[p].item) /\ lease[i] # NoAcq /\ Fenced(i) =>
              i \in op[p].keep
        /\ op[p].grant => ~Fenced(op[p].item)

Purged == \A p \in Runners : Purging(p)

\* the lane of a child alive is fenced for it
Fencing == \A a \in kids : Fence(a).acq = a /\ Fence(a).phase # "cleanup-proven"

Safe == Hands /\ Children /\ Fences /\ Prearmed /\ Purged /\ Fencing

---------------------------------------------------------------------------
(* Leases, fences and children *)

LEMMA Nothing == NoFence.acq \notin Acqs /\ NoFence.acq = NoAcq
  BY Constants DEF NoFence

LEMMA LeaseOutlives == ASSUME TypeOK, Fences, Fencing PROVE LeaseOutlivesChild
  BY Nothing, LanesAssumption, SMTT(30) DEF TypeOK, Fences, Fencing, LeaseOutlivesChild, Fence, Acqs

\* no step of p touches the acquisitions of another runner ...
Apart(p) ==
    \A a \in Acqs : a.own # p =>
        /\ a \in dead' => a \in dead
        /\ a \in deferred' => a \in deferred
        /\ a \in kids' <=> a \in kids

\* ... nor a class that another runner has locked
Undisturbed(p) ==
    \A c \in Classes : lock[c] \notin {NoOne, p} =>
        /\ lock'[c] = lock[c]
        /\ \A l \in Lanes : Class[l] = c => fence'[l] = fence[l]
        /\ \A i \in Items : ClassOf(i) = c => lease'[i] = lease[i]

LEMMA KeepHands ==
    ASSUME Hands, NEW p \in Runners, \A q \in Runners \ {p} : op'[q] = op[q], Apart(p), Hand(p)'
    PROVE  Hands'
  BY DEF Hands, Hand, Apart

LEMMA KeepPurged ==
    ASSUME TypeOK, Purged, NEW p, \A q \in Runners \ {p} : op'[q] = op[q], Undisturbed(p),
           p \in Runners => Purging(p)'
    PROVE  Purged'
  <1> SUFFICES ASSUME NEW q \in Runners \ {p}, op[q].pc = "write" PROVE Purging(q)'
    BY DEF Purged, Purging
  <1>1. op'[q] = op[q] /\ op[q].item \in Items
    BY DEF TypeOK, Ops
  <1>2. lock[ClassOf(op[q].item)] = q /\ q \notin {NoOne, p} /\ Purging(q)
    BY <1>1, LanesAssumption DEF Purged, Purging
  <1> QED
    BY <1>1, <1>2, LanesAssumption, SMTT(30) DEF Purging, Undisturbed, ClassOf, Fenced

LEMMA KeepFences ==
    ASSUME TypeOK, Fences,
           \A l \in Lanes : fence'[l] # NoFence =>
               /\ fence[l] # NoFence /\ fence'[l].acq = fence[l].acq
               /\ lease'[fence[l].acq.item] = lease[fence[l].acq.item]
    PROVE  Fences'
  BY SMTT(30) DEF Fences

\* a step that neither starts nor ends a child, nor locks a class
LEMMA Aside ==
    ASSUME TypeOK, Safe, NEW p \in Runners, \A q \in Runners \ {p} : op'[q] = op[q],
           op'[p].pc \notin {"write", "spawn"} \cup Parent,
           op'[p].pc \in Active => /\ op'[p].acq = op[p].acq /\ op'[p].item = op[p].item
                                   /\ op[p].pc \in Active \ Parent
                                   /\ op'[p].pc \in Owing => op[p].pc \in Owing,
           UNCHANGED <<platform, fence, lock, dead, kids, deferred>>,
           \A i \in Items : lease'[i] # lease[i] => ~Fenced(i) /\ Free(i)
    PROVE  Safe'
  <1>1. Hands'
    BY KeepHands, SMTT(30) DEF Safe, Hands, Hand, Apart
  <1>2. Children'
    BY DEF Safe, Children
  <1>3. Fences'
    BY KeepFences, Nothing, SMTT(30) DEF Safe, Fences, Fenced, TypeOK, Acqs
  <1>4. Prearmed'
    BY DEF Safe, Prearmed
  <1>5. Purged'
    BY KeepPurged DEF Safe, Purging, Undisturbed, Free
  <1>6. Fencing'
    BY DEF Safe, Fencing, Fence
  <1> QED
    BY <1>1, <1>2, <1>3, <1>4, <1>5, <1>6 DEF Safe

\* a step of time, or one that changes none of these
LEMMA Still ==
    ASSUME TypeOK, Safe, UNCHANGED <<platform, lease, fence, lock, dead, kids, deferred, op>>
    PROVE  Safe'
  <1>1. Hands' /\ Children'
    BY DEF Safe, Hands, Hand, Children
  <1>2. Fences' /\ Prearmed'
    BY DEF Safe, Fences, Prearmed
  <1>3. Purged' /\ Fencing'
    BY DEF Safe, Purged, Purging, Fenced, Fencing, Fence
  <1> QED
    BY <1>1, <1>2, <1>3 DEF Safe

\* reconciliation spares the fences of live children and of runners about to
\* spawn
LEMMA ReconciledFences ==
    ASSUME TypeOK, Safe, NEW c
    PROVE  /\ \A l \in Lanes : Reconciled(c)[l] # NoFence => Reconciled(c)[l] = fence[l]
           /\ \A l \in Lanes : Class[l] # c => Reconciled(c)[l] = fence[l]
           /\ \A a \in kids : Reconciled(c)[Lane[a.item]] = Fence(a)
           /\ \A p \in Runners : op[p].pc = "spawn" =>
                 Reconciled(c)[Lane[op[p].item]] = fence[Lane[op[p].item]]
  <1>1. \A l \in Lanes : Reconciled(c)[l] = IF Class[l] = c /\ Reconcilable(l) THEN NoFence ELSE fence[l]
    BY DEF Reconciled
  <1>2. ASSUME NEW a \in kids PROVE ~Reconcilable(Lane[a.item]) /\ Lane[a.item] \in Lanes
    BY LanesAssumption DEF Safe, Fencing, Children, Fence, Reconcilable, TypeOK, Acqs
  <1>3. ASSUME NEW p \in Runners, op[p].pc = "spawn"
        PROVE  ~Reconcilable(Lane[op[p].item]) /\ Lane[op[p].item] \in Lanes
    <2>1. op[p].acq \notin dead /\ op[p].item \in Items
      BY <1>3 DEF Safe, Hands, Hand, Active, TypeOK, Ops
    <2>2. fence[Lane[op[p].item]].acq = op[p].acq /\ fence[Lane[op[p].item]].phase = "spawn-in-progress"
      BY <1>3 DEF Safe, Prearmed
    <2> QED
      BY <2>1, <2>2, LanesAssumption DEF Reconcilable
  <1> QED
    BY <1>1, <1>2, <1>3 DEF Fence

LEMMA InspectSafe ==
    ASSUME TypeOK, Safe, NEW p \in Runners, NEW c \in Classes, InspectClass(p, c)
    PROVE  Safe'
  <1>1. /\ \A q \in Runners \ {p} : op'[q] = op[q]
        /\ op'[p].pc \in {"idle", "inspect"}
    BY VisitedMoves DEF InspectClass, TypeOK
  <1>2. fence' = Reconciled(c) /\ UNCHANGED <<platform, lock, dead, kids, deferred>> /\ lock[c] = NoOne
    BY DEF InspectClass
  <1>3. \A i \in Items : lease'[i] # lease[i] => ClassOf(i) = c /\ (lease[i] = NoAcq \/ fence'[Lane[i]] = NoFence)
    BY <1>2 DEF InspectClass, Kept
  <1>4. Hands'
    BY <1>1, <1>2, KeepHands DEF Safe, Apart, Hand, Active
  <1>5. Children'
    BY <1>2 DEF Safe, Children
  <1>6. Fences'
    BY <1>2, <1>3, ReconciledFences, KeepFences, Constants, SMTT(30) DEF Safe, Fences, TypeOK, Acqs
  <1>7. Prearmed'
    BY <1>1, <1>2, ReconciledFences, SMTT(30) DEF Safe, Prearmed
  <1>8. Purged'
    BY <1>1, <1>2, <1>3, ReconciledFences, KeepPurged, LanesAssumption, SMTT(30) DEF Safe, Undisturbed, Purging, ClassOf
  <1>9. Fencing'
    BY <1>2, ReconciledFences, SMTT(30) DEF Safe, Fencing, Fence
  <1> QED
    BY <1>4, <1>5, <1>6, <1>7, <1>8, <1>9 DEF Safe

LEMMA ReserveSafe == ASSUME TypeOK, Safe, NEW p \in Runners, Reserve(p) PROVE Safe'
  <1> DEFINE i == op[p].item
             c == ClassOf(i)
  <1>0. i \in Items /\ c \in Classes
    BY LanesAssumption DEF TypeOK, Ops, ClassOf
  <1>1. /\ \A q \in Runners \ {p} : op'[q] = op[q]
        /\ op'[p].pc = "write" /\ op'[p].item = i /\ op'[p].keep = Kept(c, op[p].seen)
        /\ op'[p].grant = Grantable(i, op[p].seen, Kept(c, op[p].seen))
    BY DEF Reserve, TypeOK, Ops
  <1>2. /\ fence' = Reconciled(c) /\ lock[c] = NoOne /\ lock' = [lock EXCEPT ![c] = p]
        /\ UNCHANGED <<platform, lease, dead, kids, deferred>>
    BY DEF Reserve, Free
  <1>3. Hands'
    BY <1>1, <1>2, KeepHands DEF Safe, Apart, Hand, Active
  <1>4. Children'
    BY <1>2 DEF Safe, Children
  <1>5. Fences'
    BY <1>2, ReconciledFences, KeepFences DEF Safe
  <1>6. Prearmed'
    BY <1>1, <1>2, ReconciledFences, SMTT(30) DEF Safe, Prearmed
  <1>7. Purged'
    <2>1. Purging(p)'
      <3>1. lock'[c] = p
        BY <1>0, <1>2 DEF TypeOK
      <3>2. \A j \in Items : ClassOf(j) = c /\ lease[j] # NoAcq /\ Reconciled(c)[Lane[j]] # NoFence =>
                j \in Kept(c, op[p].seen)
        BY DEF Kept
      <3>3. Grantable(i, op[p].seen, Kept(c, op[p].seen)) => Reconciled(c)[Lane[i]] = NoFence
        BY DEF Grantable, HasCapacity
      <3> QED
        BY <1>1, <1>2, <3>1, <3>2, <3>3 DEF Purging, Fenced, ClassOf
    <2>2. Undisturbed(p)
      BY <1>0, <1>2, ReconciledFences, LanesAssumption DEF Undisturbed, ClassOf, TypeOK
    <2> QED
      BY <1>1, <2>1, <2>2, KeepPurged DEF Safe
  <1>8. Fencing'
    BY <1>2, ReconciledFences, SMTT(30) DEF Safe, Fencing, Fence
  <1> QED
    BY <1>3, <1>4, <1>5, <1>6, <1>7, <1>8 DEF Safe

LEMMA WriteMoves ==
    ASSUME TypeOK, NEW p \in Runners, WriteLeases(p)
    PROVE  /\ \A q \in Runners \ {p} : op'[q] = op[q]
           /\ op'[p].item = op[p].item /\ op'[p].seen = op[p].seen
           /\ IF op[p].grant
              THEN /\ op'[p].pc = "prepare" /\ op'[p].acq = FreshAcq(p, op[p].item)
                   /\ Fresh(p, op[p].item) # {} /\ FreshAcq(p, op[p].item) \notin dead'
              ELSE op'[p].pc = "no-work"
  <1> DEFINE a == FreshAcq(p, op[p].item)
  <1>1. op[p] \in Ops
    BY DEF TypeOK
  <1>2. CASE op[p].grant
    <2>1. /\ op' = [op EXCEPT ![p] = [op[p] EXCEPT !.pc = "prepare", !.acq = a, !.keep = {}, !.grant = FALSE]]
          /\ Fresh(p, op[p].item) # {} /\ a \notin dead'
      BY <1>2 DEF WriteLeases
    <2> HIDE DEF a
    <2>2. /\ \A q \in Runners \ {p} : op'[q] = op[q]
          /\ op'[p].item = op[p].item /\ op'[p].seen = op[p].seen /\ op'[p].pc = "prepare" /\ op'[p].acq = a
      BY <1>1, <2>1 DEF TypeOK, Ops
    <2> QED
      BY <1>2, <2>1, <2>2 DEF a
  <1>3. CASE ~op[p].grant
    <2>1. op' = [op EXCEPT ![p] = [op[p] EXCEPT !.pc = "no-work", !.keep = {}]]
      BY <1>3 DEF WriteLeases
    <2> QED
      BY <1>1, <1>3, <2>1 DEF TypeOK, Ops
  <1> QED
    BY <1>2, <1>3

LEMMA WriteSafe == ASSUME TypeOK, Safe, NEW p \in Runners, WriteLeases(p) PROVE Safe'
  <1> DEFINE i == op[p].item
             c == ClassOf(i)
             a == FreshAcq(p, i)
  <1>0. i \in Items /\ c \in Classes /\ op[p].pc = "write" /\ Purging(p)
    BY LanesAssumption DEF TypeOK, Ops, ClassOf, WriteLeases, Safe, Purged
  <1>1. /\ UNCHANGED <<platform, fence, kids, deferred>> /\ lock' = [lock EXCEPT ![c] = NoOne]
        /\ dead' \subseteq dead
    BY DEF WriteLeases
  <1>2. \A j \in Items : lease'[j] # lease[j] =>
            ClassOf(j) = c /\ ((j = i /\ op[p].grant) \/ j \notin op[p].keep)
    BY DEF WriteLeases
  <1>3. /\ \A q \in Runners \ {p} : op'[q] = op[q]
        /\ op'[p].pc \in {"prepare", "no-work"}
        /\ op'[p].pc = "prepare" =>
              /\ op'[p].acq = a /\ op'[p].item = i
              /\ Fresh(p, i) # {} /\ a \notin dead'
    BY WriteMoves
  <1> HIDE DEF a
  <1>4. Hands'
    <2>1. CASE op'[p].pc = "prepare"
      <3>0. a \in Acqs /\ a \notin InUse /\ a.own = p /\ a.item = i
        BY <1>3, <2>1, FreshAcqType DEF a
      <3>1. a \in Acqs /\ a.own = p /\ a.item = i /\ a \notin kids /\ a \notin deferred
        BY <3>0 DEF InUse
      <3>2. Hand(p)'
        BY <1>1, <1>3, <2>1, <3>1 DEF Hand, Active, Parent
      <3> QED
        BY <1>1, <1>3, <3>2, KeepHands DEF Safe, Apart
    <2>2. CASE op'[p].pc = "no-work"
      BY <1>1, <1>3, <2>2, KeepHands DEF Safe, Apart, Hand, Active
    <2> QED
      BY <1>3, <2>1, <2>2
  <1>5. Children'
    BY <1>1 DEF Safe, Children
  <1>6. Fences'
    <2> SUFFICES ASSUME NEW l \in Lanes, fence[l] # NoFence
                 PROVE  lease'[fence[l].acq.item] = lease[fence[l].acq.item]
      BY <1>1, KeepFences DEF Safe
    <2>1. fence[l].acq \in Acqs /\ fence[l].acq.item \in Items
      BY DEF TypeOK, Acqs
    <2>2. lease[fence[l].acq.item] # NoAcq /\ Fenced(fence[l].acq.item)
      BY <2>1, Constants DEF Safe, Fences, Fenced
    <2> QED
      BY <1>0, <1>2, <2>1, <2>2 DEF Purging
  <1>7. Prearmed'
    BY <1>1, <1>3 DEF Safe, Prearmed
  <1>8. Purged'
    <2>1. Undisturbed(p)
      BY <1>0, <1>1, <1>2 DEF Undisturbed, Purging, TypeOK
    <2> QED
      BY <1>3, <2>1, KeepPurged DEF Safe, Purging
  <1>9. Fencing'
    BY <1>1 DEF Safe, Fencing, Fence
  <1> QED
    BY <1>4, <1>5, <1>6, <1>7, <1>8, <1>9 DEF Safe

LEMMA PrearmSafe ==
    ASSUME TypeOK, Safe, NEW p \in Runners, Prearm(p), op'[p].pc = "spawn"
    PROVE  Safe'
  <1> DEFINE i == op[p].item
             l == Lane[i]
  <1>0. i \in Items /\ l \in Lanes /\ op[p].pc = "prearm"
    BY LanesAssumption DEF TypeOK, Ops, Prearm
  <1>1. /\ \A q \in Runners \ {p} : op'[q] = op[q]
        /\ op'[p].acq = op[p].acq /\ op'[p].item = i
    BY Moved, Ended DEF Prearm, TypeOK, Pcs, Outcomes
  <1>2. Free(i) /\ Holds(p) /\ fence[l] = NoFence
        /\ fence' = [fence EXCEPT ![l] = [acq |-> op[p].acq, phase |-> "spawn-in-progress"]]
    BY Ended DEF Prearm, TypeOK, Pcs, Outcomes
  <1>3. UNCHANGED <<platform, lease, lock, dead, kids, deferred>>
    BY DEF Prearm
  <1>4. fence'[l].acq = op[p].acq /\ fence'[l].phase = "spawn-in-progress"
        /\ \A m \in Lanes \ {l} : fence'[m] = fence[m]
    BY <1>0, <1>2 DEF TypeOK
  <1>5. Hand(p) /\ op[p].acq \in Acqs /\ op[p].acq.item = i
    BY <1>0 DEF Safe, Hands, Hand, Active
  <1>6. Hands'
    BY <1>0, <1>1, <1>3, <1>5, KeepHands DEF Safe, Apart, Hand, Active, Owing, Parent
  <1>7. Children'
    BY <1>3 DEF Safe, Children
  <1>8. Fences'
    BY <1>2, <1>3, <1>4, <1>5, SMTT(30) DEF Safe, Fences, Holds
  <1>9. Prearmed'
    <2> SUFFICES ASSUME NEW q \in Runners \ {p}, op[q].pc = "spawn" PROVE Lane[op[q].item] # l /\ Lane[op[q].item] \in Lanes
      BY <1>1, <1>4, SMTT(30) DEF Safe, Prearmed
    <2>1. op[q].acq \in Acqs /\ op[q].item \in Items
      BY DEF Safe, Hands, Hand, Active, TypeOK, Ops
    <2> QED
      BY <1>2, <2>1, Nothing, LanesAssumption DEF Safe, Prearmed
  <1>10. Purged'
    <2>1. Undisturbed(p)
      BY <1>0, <1>2, <1>3, <1>4 DEF Undisturbed, Free, ClassOf
    <2> QED
      BY <1>1, <2>1, KeepPurged DEF Safe, Purging
  <1>11. Fencing'
    <2> SUFFICES ASSUME NEW b \in kids PROVE Lane[b.item] # l /\ Lane[b.item] \in Lanes
      BY <1>3, <1>4 DEF Safe, Fencing, Fence
    <2> QED
      BY <1>2, Nothing, LanesAssumption, SMTT(30) DEF Safe, Fencing, Fence, TypeOK, Acqs
  <1> QED
    BY <1>6, <1>7, <1>8, <1>9, <1>10, <1>11 DEF Safe

LEMMA SpawnSafe == ASSUME TypeOK, Safe, NEW p \in Runners, Spawn(p) PROVE Safe'
  <1>1. /\ \A q \in Runners \ {p} : op'[q] = op[q]
        /\ op'[p].pc = "bind" /\ op'[p].acq = op[p].acq /\ op'[p].item = op[p].item
    BY Moved DEF Spawn, TypeOK, Pcs
  <1>2. op[p].pc = "spawn" /\ kids' = kids \cup {op[p].acq}
        /\ UNCHANGED <<platform, lease, fence, lock, dead, deferred>>
    BY DEF Spawn, files
  <1>3. /\ op[p].acq \in Acqs /\ op[p].acq.own = p /\ op[p].acq.item = op[p].item
        /\ op[p].acq \notin dead /\ op[p].acq \notin deferred
    BY <1>2 DEF Safe, Hands, Hand, Active, Owing
  <1>4. Hands'
    BY <1>1, <1>2, <1>3, KeepHands DEF Safe, Apart, Hand, Parent
  <1>5. Children'
    BY <1>2, <1>3 DEF Safe, Children
  <1>6. Fences' /\ Prearmed'
    BY <1>1, <1>2, SMTT(30) DEF Safe, Fences, Prearmed
  <1>7. Purged'
    BY <1>1, <1>2, KeepPurged DEF Safe, Undisturbed, Purging
  <1>8. Fencing'
    BY <1>2, <1>3, SMTT(30) DEF Safe, Fencing, Fence, Prearmed
  <1> QED
    BY <1>4, <1>5, <1>6, <1>7, <1>8 DEF Safe

LEMMA BindSafe ==
    ASSUME TypeOK, Safe, NEW p \in Runners, Bind(p), op'[p].pc = "run"
    PROVE  Safe'
  <1> DEFINE i == op[p].item
             l == Lane[i]
  <1>0. i \in Items /\ l \in Lanes /\ op[p].pc = "bind"
    BY LanesAssumption DEF TypeOK, Ops, Bind
  <1>1. /\ \A q \in Runners \ {p} : op'[q] = op[q]
        /\ op'[p].acq = op[p].acq /\ op'[p].item = i
    BY Moved, Ended DEF Bind, TypeOK, Pcs, Outcomes
  <1>2. /\ Free(i) /\ fence' = [fence EXCEPT ![l].phase = "child-bound"] /\ kids' = kids
        /\ fence[l] = [acq |-> op[p].acq, phase |-> "spawn-in-progress"]
    BY Ended DEF Bind, TypeOK, Pcs, Outcomes
  <1>3. UNCHANGED <<platform, lease, lock, dead, deferred>>
    BY DEF Bind
  <1>4. fence'[l].acq = op[p].acq /\ fence'[l].phase = "child-bound" /\ fence[l].acq = op[p].acq
        /\ \A m \in Lanes \ {l} : fence'[m] = fence[m]
    BY <1>0, <1>2, SMTT(30) DEF TypeOK
  <1>5. /\ op[p].acq \in Acqs /\ op[p].acq.own = p /\ fence[l] # NoFence
        /\ op[p].acq \in kids /\ op[p].acq \notin deferred /\ op[p].acq \notin dead /\ op[p].acq.item = i
    BY <1>0, <1>4, Nothing DEF Safe, Hands, Hand, Active, Owing, Parent
  <1>6. Hands'
    BY <1>1, <1>2, <1>3, <1>5, KeepHands DEF Safe, Apart, Hand, Parent
  <1>7. Children'
    BY <1>2, <1>3 DEF Safe, Children
  <1>8. Fences'
    BY <1>3, <1>4, <1>5, SMTT(30) DEF Safe, Fences
  <1>9. Prearmed'
    <2> SUFFICES ASSUME NEW q \in Runners \ {p}, op[q].pc = "spawn" PROVE Lane[op[q].item] # l /\ Lane[op[q].item] \in Lanes
      BY <1>1, <1>4, SMTT(30) DEF Safe, Prearmed
    <2>1. op[q].acq.own = q /\ op[q].item \in Items
      BY DEF Safe, Hands, Hand, Active, TypeOK, Ops
    <2> QED
      BY <1>4, <1>5, <2>1, LanesAssumption, SMTT(30) DEF Safe, Prearmed
  <1>10. Purged'
    <2>1. Undisturbed(p)
      BY <1>0, <1>2, <1>3, <1>4 DEF Undisturbed, Free, ClassOf
    <2> QED
      BY <1>1, <2>1, KeepPurged DEF Safe, Purging
  <1>11. Fencing'
    BY <1>2, <1>4, <1>5, LanesAssumption, SMTT(30) DEF Safe, Fencing, Fence, TypeOK, Acqs
  <1> QED
    BY <1>6, <1>7, <1>8, <1>9, <1>10, <1>11 DEF Safe

\* the child of p is killed and reaped
LEMMA ChildEnds ==
    ASSUME TypeOK, Safe, NEW p \in Runners, op[p].pc \in Parent, \A q \in Runners \ {p} : op'[q] = op[q],
           op'[p].pc = "prove", op'[p].acq = op[p].acq, op'[p].item = op[p].item,
           kids' = kids \ {op[p].acq}, UNCHANGED <<platform, lease, fence, lock, dead, deferred>>
    PROVE  Safe'
  <1>1. /\ op[p].acq \in Acqs /\ op[p].acq.own = p /\ op[p].acq.item = op[p].item
        /\ op[p].acq \notin dead /\ op[p].acq \notin deferred
    BY DEF Safe, Hands, Hand, Active, Owing, Parent
  <1>2. Hands'
    BY <1>1, KeepHands DEF Safe, Apart, Hand, Parent
  <1>3. Children' /\ Fencing'
    BY DEF Safe, Children, Fencing, Fence
  <1>4. Fences' /\ Prearmed'
    BY DEF Safe, Fences, Prearmed
  <1>5. Purged'
    BY KeepPurged DEF Safe, Undisturbed, Purging
  <1> QED
    BY <1>2, <1>3, <1>4, <1>5 DEF Safe

\* the fence of an acquisition without a child is marked or taken away
LEMMA FenceSettles ==
    ASSUME TypeOK, Safe, NEW a \in Acqs, a \notin kids, Fence(a).acq = a, lock[Class[Lane[a.item]]] = NoOne,
           \A q \in Runners : op[q].pc = "spawn" => op[q].acq # a,
           \/ fence' = [fence EXCEPT ![Lane[a.item]].phase = "cleanup-proven"]
           \/ fence' = [fence EXCEPT ![Lane[a.item]] = NoFence],
           UNCHANGED <<lease, lock, kids>>
    PROVE  /\ Fences' /\ Fencing' /\ \A p : Undisturbed(p)
           /\ \A q \in Runners : op[q].pc = "spawn" => fence'[Lane[op[q].item]] = fence[Lane[op[q].item]]
  <1> DEFINE l == Lane[a.item]
  <1>1. l \in Lanes /\ fence[l].acq = a /\ fence[l] # NoFence
    BY Nothing, LanesAssumption DEF Acqs, Fence
  <1>2. (fence'[l].acq = a \/ fence'[l] = NoFence) /\ \A m \in Lanes \ {l} : fence'[m] = fence[m]
    BY <1>1 DEF TypeOK
  <1> HIDE DEF l
  <1>3. Fences'
    BY <1>1, <1>2, SMTT(30) DEF Safe, Fences
  <1>4. Fencing'
    <2> SUFFICES ASSUME NEW b \in kids PROVE Lane[b.item] # l /\ Lane[b.item] \in Lanes
      BY <1>2 DEF Safe, Fencing, Fence
    <2> QED
      BY <1>1, LanesAssumption, SMTT(30) DEF Safe, Fencing, Fence, TypeOK, Acqs
  <1>5. \A q \in Runners : op[q].pc = "spawn" => Lane[op[q].item] # l /\ Lane[op[q].item] \in Lanes
    BY <1>1, LanesAssumption DEF Safe, Prearmed, TypeOK, Ops
  <1>6. ASSUME NEW p PROVE Undisturbed(p)
    BY <1>2 DEF Undisturbed, l
  <1> QED
    BY <1>2, <1>3, <1>4, <1>5, <1>6

LEMMA CleanupSafe == ASSUME TypeOK, Safe, NEW p \in Runners, Prove(p) \/ Clear(p) PROVE Safe'
  <1> DEFINE a == op[p].acq
  <1>1. /\ \A q \in Runners \ {p} : op'[q] = op[q]
        /\ op'[p].pc \in {"clear", "release"} /\ op'[p].acq = a /\ op'[p].item = op[p].item
    BY Moved DEF Prove, Clear, TypeOK, Pcs
  <1>2. UNCHANGED <<platform, lease, lock, dead, kids, deferred>>
    BY DEF Prove, Clear
  <1>3. op[p].pc \in {"prove", "clear"} /\ lock[Class[Lane[op[p].item]]] = NoOne
    BY DEF Prove, Clear, Free, ClassOf
  <1>4. a \in Acqs /\ a.own = p /\ a.item = op[p].item /\ a \notin kids /\ a \notin dead /\ a \notin deferred
    BY <1>3 DEF Safe, Hands, Hand, Active, Owing, Parent
  <1>5. Hands'
    BY <1>1, <1>2, <1>4, KeepHands DEF Safe, Apart, Hand, Parent
  <1>6. Children'
    BY <1>2 DEF Safe, Children
  <1>7. \A q \in Runners : op[q].pc = "spawn" => op[q].acq # a
    BY <1>3, <1>4 DEF Safe, Hands, Hand, Active
  <1>8. \/ fence' = fence
        \/ /\ Fence(a).acq = a
           /\ \/ fence' = [fence EXCEPT ![Lane[a.item]].phase = "cleanup-proven"]
              \/ fence' = [fence EXCEPT ![Lane[a.item]] = NoFence]
    <2>1. CASE Prove(p)
      BY <2>1 DEF Prove
    <2>2. CASE Clear(p)
      <3>1. [acq |-> a, phase |-> "cleanup-proven"].acq = a
        OBVIOUS
      <3> QED
        BY <2>2, <3>1 DEF Clear
    <2> QED
      BY <2>1, <2>2
  <1> HIDE DEF a
  <1>9. /\ Fences' /\ Fencing' /\ Undisturbed(p)
        /\ \A q \in Runners : op[q].pc = "spawn" => fence'[Lane[op[q].item]] = fence[Lane[op[q].item]]
    <2>1. CASE fence' = fence
      BY <1>2, <2>1 DEF Safe, Fences, Fencing, Fence, Undisturbed
    <2>2. CASE fence' # fence
      BY <1>2, <1>3, <1>4, <1>7, <1>8, <2>2, FenceSettles
    <2> QED
      BY <2>1, <2>2
  <1>10. Prearmed'
    BY <1>1, <1>9, SMTT(30) DEF Safe, Prearmed
  <1>11. Purged'
    BY <1>1, <1>9, KeepPurged DEF Safe, Purging
  <1> QED
    BY <1>5, <1>6, <1>9, <1>10, <1>11 DEF Safe

LEMMA DeferSafe == ASSUME TypeOK, Safe, NEW p \in Runners, Defer(p) PROVE Safe'
  <1>1. /\ \A q \in Runners \ {p} : op'[q] = op[q]
        /\ op'[p].pc = "release" /\ op'[p].acq = op[p].acq /\ op'[p].item = op[p].item
    BY Moved DEF Defer, TypeOK, Pcs
  <1>2. /\ op[p].pc \in {"prove", "clear"} /\ deferred' = deferred \cup {op[p].acq}
        /\ UNCHANGED <<platform, lease, fence, lock, dead, kids>>
    BY DEF Defer, files
  <1>3. /\ op[p].acq \in Acqs /\ op[p].acq.own = p /\ op[p].acq.item = op[p].item
        /\ op[p].acq \notin dead /\ op[p].acq \notin kids
    BY <1>2 DEF Safe, Hands, Hand, Active, Parent
  <1>4. Hands'
    BY <1>1, <1>2, <1>3, KeepHands DEF Safe, Apart, Hand, Owing, Parent
  <1>5. Children' /\ Fencing'
    BY <1>2, <1>3 DEF Safe, Children, Fencing, Fence
  <1>6. Fences' /\ Prearmed'
    BY <1>1, <1>2 DEF Safe, Fences, Prearmed
  <1>7. Purged'
    BY <1>1, <1>2, KeepPurged DEF Safe, Undisturbed, Purging
  <1> QED
    BY <1>4, <1>5, <1>6, <1>7 DEF Safe

LEMMA RetrySafe == ASSUME TypeOK, Safe, NEW a \in Acqs, RetryProof(a) PROVE Safe'
  <1>1. /\ UNCHANGED <<platform, lease, lock, dead, kids, op>> /\ deferred' \subseteq deferred
        /\ a \in deferred /\ lock[Class[Lane[a.item]]] = NoOne
    BY DEF RetryProof
  <1>2. a \notin kids /\ \A q \in Runners : op[q].pc = "spawn" => op[q].acq # a
    BY <1>1 DEF Safe, Children, Hands, Hand, Active, Owing
  <1>3. \/ fence' = fence
        \/ /\ Fence(a).acq = a
           /\ \/ fence' = [fence EXCEPT ![Lane[a.item]].phase = "cleanup-proven"]
              \/ fence' = [fence EXCEPT ![Lane[a.item]] = NoFence]
    BY DEF RetryProof
  <1>4. /\ Fences' /\ Fencing' /\ Undisturbed(NoOne)
        /\ \A q \in Runners : op[q].pc = "spawn" => fence'[Lane[op[q].item]] = fence[Lane[op[q].item]]
    <2>1. CASE fence' = fence
      BY <1>1, <2>1 DEF Safe, Fences, Fencing, Fence, Undisturbed
    <2>2. CASE fence' # fence
      BY <1>1, <1>2, <1>3, <2>2, FenceSettles
    <2> QED
      BY <2>1, <2>2
  <1>5. Hands' /\ Children'
    BY <1>1 DEF Safe, Hands, Hand, Children
  <1>6. Prearmed'
    BY <1>1, <1>4 DEF Safe, Prearmed
  <1>7. Purged'
    BY <1>1, <1>4, KeepPurged, LanesAssumption DEF Safe
  <1> QED
    BY <1>4, <1>5, <1>6, <1>7 DEF Safe

LEMMA CrashSafe == ASSUME TypeOK, Safe, NEW p \in Runners, Crash(p) PROVE Safe'
  <1>1. /\ \A q \in Runners \ {p} : op'[q] = op[q]
        /\ op'[p].pc = "idle"
    BY Rested DEF Crash, TypeOK
  <1>2. /\ \A a \in Acqs : a \in dead' => a \in dead \/ a.own = p
        /\ kids' \subseteq kids /\ deferred' \subseteq deferred
        /\ \A a \in kids : a \notin kids' => a.own = p
        /\ platform = "windows" => \A a \in kids' : a \notin dead' \/ a \in dead
        /\ \A c \in Classes : lock[c] # p => lock'[c] = lock[c]
        /\ UNCHANGED <<platform, lease, fence>>
    BY DEF Crash, files
  <1>3. Hands'
    BY <1>1, <1>2, KeepHands DEF Safe, Apart, Hand, Active, TypeOK
  <1>4. Children' /\ Fencing'
    BY <1>2 DEF Safe, Children, Fencing, Fence
  <1>5. Fences' /\ Prearmed'
    BY <1>1, <1>2 DEF Safe, Fences, Prearmed
  <1>6. Purged'
    BY <1>1, <1>2, KeepPurged DEF Safe, Undisturbed, Purging
  <1> QED
    BY <1>3, <1>4, <1>5, <1>6 DEF Safe

LEMMA OrphanSafe == ASSUME TypeOK, Safe, NEW a \in Acqs, OrphanDies(a) PROVE Safe'
  <1>1. /\ a \in dead /\ kids' = kids \ {a}
        /\ UNCHANGED <<platform, lease, fence, lock, dead, deferred, op>>
    BY DEF OrphanDies, files
  <1>2. Hands' /\ Children'
    BY <1>1 DEF Safe, Hands, Hand, Children
  <1>3. Fences' /\ Prearmed'
    BY <1>1 DEF Safe, Fences, Prearmed
  <1>4. Purged' /\ Fencing'
    BY <1>1 DEF Safe, Purged, Purging, Fenced, Fencing, Fence
  <1> QED
    BY <1>2, <1>3, <1>4 DEF Safe

LEMMA SafeStep == ASSUME TypeOK, Safe, [Next]_vars PROVE Safe'
  <1>1. ASSUME NEW p \in Runners,
               \/ InspectStart(p) \/ LockBusy(p) \/ NoWork(p) \/ Receipt(p)
               \/ \E c \in Classes : InspectBusy(p, c)
               \/ \E i \in Items : Request(p, i)
        PROVE  Safe'
    <2>1. /\ \A q \in Runners \ {p} : op'[q] = op[q]
          /\ op'[p].pc \in {"idle", "inspect", "lock", "no-work"}
      BY <1>1, Rested, VisitedMoves DEF InspectStart, LockBusy, NoWork, Receipt, InspectBusy, Request, TypeOK, Ops
    <2>2. UNCHANGED <<platform, lease, fence, lock, dead, kids, deferred>>
      BY <1>1 DEF InspectStart, LockBusy, NoWork, Receipt, InspectBusy, Request, files
    <2> QED
      BY <2>1, <2>2, Aside DEF Active, Parent
  <1>2. ASSUME NEW p \in Runners, CheckCompletion(p) \/ Capture(p) \/ SpawnFails(p) PROVE Safe'
    <2>1. /\ \A q \in Runners \ {p} : op'[q] = op[q]
          /\ op'[p].pc \in {"capture", "prearm", "release", "prove"}
          /\ op'[p].acq = op[p].acq /\ op'[p].item = op[p].item
      BY <1>2, Moved, Ended DEF CheckCompletion, Capture, SpawnFails, TypeOK, Pcs, Outcomes
    <2>2. /\ UNCHANGED <<platform, lease, fence, lock, dead, kids, deferred>>
          /\ op[p].pc \in {"prepare", "capture", "spawn"}
      BY <1>2 DEF CheckCompletion, Capture, SpawnFails, files
    <2> QED
      BY <2>1, <2>2, Aside DEF Active, Parent, Owing
  <1>3. ASSUME NEW p \in Runners, PrepareFails(p) \/ Release(p) PROVE Safe'
    <2>1. /\ \A q \in Runners \ {p} : op'[q] = op[q]
          /\ \/ op'[p].pc = "idle"
             \/ op'[p].pc = "receipt" /\ op'[p].acq = op[p].acq /\ op'[p].item = op[p].item
      BY <1>3, Moved, Rested DEF PrepareFails, Release, TypeOK, Pcs
    <2>2. /\ UNCHANGED <<platform, fence, lock, dead, kids, deferred>>
          /\ op'[p].pc = "receipt" => op[p].pc = "release"
      BY <1>3, <2>1, Rested DEF PrepareFails, Release, TypeOK
    <2>3. \A i \in Items : lease'[i] # lease[i] => ~Fenced(i) /\ Free(i)
      BY <1>3 DEF PrepareFails, Release, Released, TypeOK
    <2> QED
      BY <2>1, <2>2, <2>3, Aside DEF Active, Parent, Owing
  <1>4. ASSUME NEW p \in Runners, Prearm(p) PROVE Safe'
    <2>1. CASE op'[p].pc = "spawn"
      BY <1>4, <2>1, PrearmSafe
    <2>2. CASE op'[p].pc # "spawn"
      <3>1. End(p, "release", "failed") /\ UNCHANGED fence
        BY <1>4, <2>2, Moved DEF Prearm, TypeOK, Pcs
      <3>2. op[p].pc = "prearm" /\ UNCHANGED <<platform, lease, lock, dead, kids, deferred>>
        BY <1>4 DEF Prearm
      <3>3. /\ \A q \in Runners \ {p} : op'[q] = op[q]
            /\ op'[p].pc = "release" /\ op'[p].acq = op[p].acq /\ op'[p].item = op[p].item
        BY <3>1, Ended DEF TypeOK, Pcs, Outcomes
      <3> QED
        BY <3>1, <3>2, <3>3, Aside DEF Active, Parent, Owing
    <2> QED
      BY <2>1, <2>2
  <1>5. ASSUME NEW p \in Runners, Bind(p) \/ Poll(p) \/ \E out \in Outcomes \ {"none"} : TurnEnds(p, out)
        PROVE  Safe'
    <2>1. CASE Bind(p) /\ op'[p].pc = "run"
      BY <2>1, BindSafe
    <2>2. CASE Poll(p) /\ UNCHANGED <<kids, op>>
      BY <2>2, Still DEF Poll
    <2>3. CASE ~(Bind(p) /\ op'[p].pc = "run") /\ ~(Poll(p) /\ UNCHANGED <<kids, op>>)
      <3>1. /\ op[p].pc \in Parent /\ kids' = kids \ {op[p].acq}
            /\ UNCHANGED <<platform, lease, fence, lock, dead, deferred>>
            /\ \E out \in Outcomes : End(p, "prove", out)
        BY <1>5, <2>3, Moved DEF Bind, Poll, TurnEnds, Parent, TypeOK, Pcs, Outcomes
      <3>2. /\ \A q \in Runners \ {p} : op'[q] = op[q]
            /\ op'[p].pc = "prove" /\ op'[p].acq = op[p].acq /\ op'[p].item = op[p].item
        BY <3>1, Ended DEF TypeOK, Pcs
      <3> QED
        BY <3>1, <3>2, ChildEnds
    <2> QED
      BY <2>1, <2>2, <2>3
  <1>6. CASE Tick \/ (\E i \in Items : Elapse(i)) \/ UNCHANGED vars
    BY <1>6, Still DEF Tick, Elapse, files, procs, vars
  <1> QED
    BY <1>1, <1>2, <1>3, <1>4, <1>5, <1>6, InspectSafe, ReserveSafe, WriteSafe, SpawnSafe, CleanupSafe,
       DeferSafe, RetrySafe, CrashSafe, OrphanSafe DEF Next, RunnerStep
===========================================================================
