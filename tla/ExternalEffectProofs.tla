----------------------- MODULE ExternalEffectProofs -----------------------
(***************************************************************************)
(* The safety properties of ExternalEffect, for any effects, any threads   *)
(* and any split of them into processes.                                   *)
(*                                                                         *)
(* A snapshot write may be stale: it was computed from what an actor read  *)
(* some steps before.  The invariant says, for each kind of actor, what    *)
(* the snapshot can have become between the read and the write.            *)
(***************************************************************************)
EXTENDS ExternalEffect, FiniteSetTheorems, TLAPS

USE ZenonT(60)

\* Where the actors run.  Nothing in the code ties the commands of users and
\* the runtime loop to one process, and only then does one
\* APPROVAL_RESOLUTION_LOCK order what they do.
OneDesk == \A u, v \in Resolvers : Proc[u] = Proc[v]
OneHouse == \A a, b \in Guarded : Proc[a] = Proc[b]
Unfenced == OneHouse /\ Fencers = {}
Alone == Unfenced /\ Readers = {}

Asked == {"absent", "requested"}
Past == {"approved", "submitted", "confirmed", "ambiguous"}

\* a write between its read and its last step, and one that is still in time
Writing(a) == op[a].pc \in {"append", "install"}
InTime(a) ==
    /\ op[a].old = snap[op[a].eff].state
    /\ <<op[a].old, op[a].new.state>> \in ValidTransition

\* the runner asks for what nobody else has seen yet, and submits or confirms
\* what was approved
Runner(e) ==
    /\ op[e].eff = e
    /\ op[e].pc = "advance" => snap[e].state = "requested"
    /\ op[e].pc = "submit" => snap[e].state # "submitted"
    /\ op[e].pc = "accept" => "approve" \in decided[e]
    /\ Unfenced /\ op[e].pc = "accept" => snap[e].state \in Past
    /\ Writing(e) =>
          /\ ~op[e].new.ids
          /\ \/ op[e].new.state = "requested" /\ op[e].next = "advance" /\ snap[e].state = "absent"
             \/ op[e].new.state = "denied" /\ op[e].next = "refuse" /\ snap[e].state = "requested"
             \/ op[e].new.state = "approval-required" /\ op[e].next = "index" /\ snap[e].state = "requested"
             \/ /\ <<op[e].new.state, op[e].next>> \in {<<"submitted", "accept">>, <<"confirmed", "ended">>}
                /\ "approve" \in decided[e] /\ (Unfenced => snap[e].state \in Past)
          /\ Alone => InTime(e)

\* a decision on the token, by a user or by the sweep: the first one where
\* the lock orders them
Deciding(a) ==
    /\ snap[op[a].eff].state \notin Asked
    /\ OneHouse => decided[op[a].eff] = {}
    /\ Unfenced => snap[op[a].eff].state = "approval-required"
    /\ Alone => InTime(a)

Resolver(u) ==
    /\ op[u].pc = "resolve" => op[u].dec # "none"
    /\ Unfenced /\ op[u].pc = "answer" /\ op[u].dec = "deny" => snap[op[u].eff].state = "denied"
    /\ Writing(u) =>
          /\ Deciding(u)
          /\ \/ op[u].new.ids /\ op[u].new.state = "denied" /\ op[u].next = "failed"
             \/ /\ ~op[u].new.ids /\ op[u].new.state = Verdict(op[u].dec)
                /\ op[u].next = "answer" /\ op[u].dec # "none"
          /\ OneDesk /\ op[u].new.state = "approved" => "approve" \notin decided[op[u].eff]

Sweeper(s) ==
    Writing(s) => Deciding(s) /\ op[s].new.ids /\ op[s].new.state = "denied" /\ op[s].next = "visit"

Fencer(f) ==
    Writing(f) => /\ snap[op[f].eff].state \notin Asked
                  /\ ~op[f].new.ids /\ op[f].new.state = "denied" /\ op[f].next = "visit"

Reader(r) ==
    /\ op[r].pc = "reconcile" => /\ op[r].new.state \in {"confirmed", "approved", "ambiguous"}
                                 /\ "approve" \in decided[op[r].eff]
    /\ Writing(r) =>
          /\ op[r].new.state \in {"confirmed", "approved", "ambiguous"} /\ ~op[r].new.ids
          /\ snap[op[r].eff].state \notin Asked /\ "approve" \in decided[op[r].eff]
          /\ Unfenced => snap[op[r].eff].state \in Past
          /\ op[r].next = "idle"

Local(a) ==
    /\ a \in Effects => Runner(a)
    /\ a \in Resolvers => Resolver(a)
    /\ a \in Sweepers => Sweeper(a)
    /\ a \in Fencers => Fencer(a)
    /\ a \in Readers => Reader(a)

\* who is deciding holds the lock of their process
Holding(a) ==
    \/ a \in Resolvers /\ op[a].pc \notin {"idle", "ensure", "skip"}
    \/ a \in Sweepers /\ op[a].pc \in {"visit", "append", "install"}
Held == \A a \in Actors : Holding(a) => guard[Proc[a]] = a

\* the accepts still to come of an approval: one while it is there to be
\* submitted, one while the runner is about to answer
Submittable(e) ==
    IF snap[e].state = "approved" \/ (Writing(e) /\ op[e].new.state = "submitted") THEN 1 ELSE 0
Answering(e) == IF op[e].pc = "accept" THEN 1 ELSE 0

\* what is decided about an effect shows in its snapshot
Effect(e) ==
    /\ snap[e].ids => snap[e].state = "denied"
    /\ snap[e].state \in Past \/ accepts[e] > 0 => "approve" \in decided[e]
    /\ decided[e] # {} => snap[e].state \notin Asked \cup {"approval-required"}
    /\ OneHouse => \A c, d \in decided[e] : c = d
    /\ Unfenced => /\ accepts[e] > 0 => snap[e].state \in Past
                   /\ e \in notice \cup told => snap[e].state = "denied"
    /\ OneDesk => accepts[e] + Submittable(e) + Answering(e) <= 1 + resubmits[e]

Inductive ==
    /\ TypeOK /\ Held
    /\ \A a \in Actors : Local(a)
    /\ \A e \in Effects : Effect(e)

---------------------------------------------------------------------------
(* Types *)

LEMMA Cast ==
    /\ Effects \subseteq Actors /\ Guarded \subseteq Actors
    /\ Fencers \subseteq Actors /\ Readers \subseteq Actors
    /\ \A e \in Effects : e \notin Resolvers /\ e \notin Sweepers /\ e \notin Fencers /\ e \notin Readers
    /\ \A u \in Resolvers : u \notin Effects /\ u \notin Sweepers /\ u \notin Fencers /\ u \notin Readers
    /\ \A s \in Sweepers : s \notin Effects /\ s \notin Resolvers /\ s \notin Fencers /\ s \notin Readers
    /\ \A f \in Fencers : f \notin Effects /\ f \notin Resolvers /\ f \notin Sweepers /\ f \notin Readers
    /\ \A r \in Readers : r \notin Effects /\ r \notin Resolvers /\ r \notin Sweepers /\ r \notin Fencers
  BY ActorsAssumption DEF Actors, Guarded

LEMMA RestingType == ASSUME NEW a \in Actors PROVE Resting(a) \in Ops /\ Resting(a).pc = "idle"
  <1>1. AnEffect \in Effects
    BY ActorsAssumption DEF AnEffect
  <1> QED
    BY <1>1 DEF Resting, Ops, Pcs, Decisions, Snapshots

LEMMA NoSnapType == NoSnap \in Snapshots /\ NoSnap.state = "absent" /\ ~NoSnap.ids
  BY DEF Snapshots, NoSnap

\* the snapshots that actors build from the one they read
Fields == [state : States \cup {"absent"}, token : {"none", "open", "consumed"}, ids : BOOLEAN]

LEMMA SnapshotFields ==
    /\ \A s \in Snapshots : s \in Fields
    /\ \A s \in Fields : s.state \in States => s \in Snapshots
  <1>1. NoSnap \in Fields
    BY DEF NoSnap, Fields
  <1>2. \A s \in Fields : s.state \in States =>
            s \in [state : States, token : {"none", "open", "consumed"}, ids : BOOLEAN]
    BY DEF Fields
  <1>3. \A s \in [state : States, token : {"none", "open", "consumed"}, ids : BOOLEAN] : s \in Fields
    BY DEF Fields
  <1> QED
    BY <1>1, <1>2, <1>3 DEF Snapshots

LEMMA WithState ==
    ASSUME NEW s \in Snapshots, NEW to \in States
    PROVE  /\ [s EXCEPT !.state = to] \in Snapshots
           /\ [s EXCEPT !.state = to].state = to /\ [s EXCEPT !.state = to].ids = s.ids
  <1>1. s \in Fields
    BY SnapshotFields
  <1>2. /\ [s EXCEPT !.state = to] \in Fields
        /\ [s EXCEPT !.state = to].state = to /\ [s EXCEPT !.state = to].ids = s.ids
    BY <1>1 DEF Fields
  <1> QED
    BY <1>2, SnapshotFields

LEMMA WithToken ==
    ASSUME NEW s \in Snapshots, NEW to \in States, NEW t \in {"none", "open", "consumed"}
    PROVE  /\ [s EXCEPT !.token = t, !.state = to] \in Snapshots
           /\ [s EXCEPT !.token = t, !.state = to].state = to
           /\ [s EXCEPT !.token = t, !.state = to].ids = s.ids
  <1>1. s \in Fields
    BY SnapshotFields
  <1>2. /\ [s EXCEPT !.token = t, !.state = to] \in Fields
        /\ [s EXCEPT !.token = t, !.state = to].state = to
        /\ [s EXCEPT !.token = t, !.state = to].ids = s.ids
    BY <1>1 DEF Fields
  <1> QED
    BY <1>2, SnapshotFields

LEMMA FencedType ==
    ASSUME NEW s \in Snapshots
    PROVE  /\ Fenced(s) \in Snapshots /\ Fenced(s).state = "denied" /\ Fenced(s).ids = s.ids
           /\ Expired(s) \in Snapshots /\ Expired(s).state = "denied" /\ Expired(s).ids
  <1>1. s \in Fields
    BY SnapshotFields
  <1>2. Fenced(s) \in Fields /\ Fenced(s).state = "denied" /\ Fenced(s).ids = s.ids
    BY <1>1 DEF Fenced, Fields, States
  <1>3. Expired(s) \in Fields /\ Expired(s).state = "denied" /\ Expired(s).ids
    BY <1>2 DEF Expired, Fields
  <1> QED
    BY <1>2, <1>3, SnapshotFields DEF States

\* every other actor goes on where it was
OthersKeep(a) == op' \in [Actors -> Ops] /\ \A b \in Actors \ {a} : op'[b] = op[b]

LEMMA Updated ==
    ASSUME op \in [Actors -> Ops], NEW a \in Actors, NEW r \in Ops, op' = [op EXCEPT ![a] = r]
    PROVE  OthersKeep(a) /\ op'[a] = r
  BY DEF OthersKeep

LEMMA Moved ==
    ASSUME op \in [Actors -> Ops], NEW a \in Actors, NEW pc \in Pcs, Goto(a, pc)
    PROVE  /\ OthersKeep(a)
           /\ op'[a].pc = pc /\ op'[a].eff = op[a].eff /\ op'[a].old = op[a].old /\ op'[a].new = op[a].new
           /\ op'[a].next = op[a].next /\ op'[a].dec = op[a].dec
  <1>1. [op[a] EXCEPT !.pc = pc] \in Ops
    BY DEF Ops
  <1>2. op' = [op EXCEPT ![a] = [op[a] EXCEPT !.pc = pc]]
    BY DEF Goto
  <1> QED
    BY <1>1, <1>2, Updated DEF Ops

LEMMA Rested ==
    ASSUME op \in [Actors -> Ops], NEW a \in Actors, Rest(a)
    PROVE  OthersKeep(a) /\ op'[a].pc = "idle" /\ (a \in Effects => op'[a].eff = a)
  <1>1. op'[a] = Resting(a) /\ OthersKeep(a)
    BY RestingType, Updated DEF Rest
  <1> QED
    BY <1>1, SMTT(30) DEF Resting

LEMMA Written ==
    ASSUME NEW r \in Ops, NEW e \in Effects, NEW old \in States \cup {"absent"}, NEW new \in Snapshots,
           NEW next \in Pcs, NEW todo \in SUBSET Effects
    PROVE  [r EXCEPT !.pc = "append", !.eff = e, !.old = old, !.new = new, !.next = next, !.todo = todo] \in Ops
  BY DEF Ops, Pcs

LEMMA Persisted ==
    ASSUME op \in [Actors -> Ops], snap \in [Effects -> Snapshots], NEW a \in Actors, NEW e \in Effects,
           NEW new \in Snapshots, NEW next \in Pcs, Persist(a, e, new, next)
    PROVE  /\ OthersKeep(a)
           /\ op'[a].pc = "append" /\ op'[a].eff = e /\ op'[a].old = snap[e].state /\ op'[a].new = new
           /\ op'[a].next = next /\ op'[a].dec = op[a].dec
  <1> DEFINE old == snap[e].state
             todo == op[a].todo \ {e}
             r == [op[a] EXCEPT !.pc = "append", !.eff = e, !.old = old,
                                !.new = new, !.next = next, !.todo = todo]
  <1>1. old \in States \cup {"absent"}
    BY SnapshotFields, SMTT(30) DEF Fields
  <1>2. todo \in SUBSET Effects /\ op[a] \in Ops
    BY DEF Ops
  <1>3. op' = [op EXCEPT ![a] = r]
    BY DEF Persist
  <1> HIDE DEF old, todo
  <1>4. r \in Ops
    BY <1>1, <1>2, Written
  <1>5. r.pc = "append" /\ r.eff = e /\ r.old = old /\ r.new = new /\ r.next = next /\ r.dec = op[a].dec
    BY <1>2 DEF Ops
  <1> HIDE DEF r
  <1>6. OthersKeep(a) /\ op'[a] = r
    BY <1>3, <1>4, Updated
  <1> QED
    BY <1>5, <1>6 DEF old

---------------------------------------------------------------------------
(* Steps that leave the snapshots alone *)

\* what an actor knows does not depend on what the others are doing
LEMMA LocalKeeps ==
    ASSUME NEW b \in Actors, Local(b), op'[b] = op[b], snap' = snap, decided' = decided
    PROVE  Local(b)'
  <1>1. Runner(b) => Runner(b)'
    BY DEF Runner, Writing, InTime
  <1>2. Deciding(b) => Deciding(b)'
    BY DEF Deciding, InTime
  <1>3. Resolver(b) => Resolver(b)'
    BY <1>2 DEF Resolver, Writing
  <1>4. Sweeper(b) => Sweeper(b)'
    BY <1>2 DEF Sweeper, Writing
  <1>5. Fencer(b) => Fencer(b)'
    BY DEF Fencer, Writing
  <1>6. Reader(b) => Reader(b)'
    BY DEF Reader, Writing
  <1> QED
    BY <1>1, <1>3, <1>4, <1>5, <1>6 DEF Local

LEMMA EffectKeeps ==
    ASSUME NEW e \in Effects, Effect(e), TypeOK,
           UNCHANGED <<snap, decided, accepts, resubmits, notice, told>>,
           Submittable(e)' + Answering(e)' <= Submittable(e) + Answering(e)
    PROVE  Effect(e)'
  <1>1. Submittable(e) \in Nat /\ Answering(e) \in Nat /\ Submittable(e)' \in Nat /\ Answering(e)' \in Nat
    BY DEF Submittable, Answering
  <1>2. accepts[e] \in Nat /\ resubmits[e] \in Nat
    BY DEF TypeOK
  <1>3. OneDesk => accepts[e]' + Submittable(e)' + Answering(e)' <= 1 + resubmits[e]'
    BY <1>1, <1>2, SMTT(30) DEF Effect
  <1> QED
    BY <1>3 DEF Effect

\* one actor moves on, and only in its own record
LEMMA Calm ==
    ASSUME Inductive, TypeOK', NEW a \in Actors, OthersKeep(a),
           UNCHANGED <<snap, decided, accepts, resubmits, notice, told, guard>>,
           Local(a)', Holding(a)' => Holding(a),
           a \in Effects => Submittable(a)' + Answering(a)' <= Submittable(a) + Answering(a)
    PROVE  Inductive'
  <1>1. \A b \in Actors : Local(b)'
    BY LocalKeeps DEF Inductive, OthersKeep
  <1>2. ASSUME NEW e \in Effects PROVE Effect(e)'
    <2>1. CASE e = a
      BY <2>1, EffectKeeps DEF Inductive
    <2>2. CASE e # a
      <3>1. op'[e] = op[e]
        BY <2>2, Cast DEF OthersKeep
      <3>2. Submittable(e)' = Submittable(e) /\ Answering(e)' = Answering(e)
        BY <3>1 DEF Submittable, Answering, Writing
      <3>3. Submittable(e)' + Answering(e)' <= Submittable(e) + Answering(e)
        BY <3>2, SMTT(30) DEF Submittable, Answering
      <3> QED
        BY <3>3, EffectKeeps DEF Inductive
    <2> QED
      BY <2>1, <2>2
  <1>3. Held'
    BY DEF Inductive, Held, Holding, OthersKeep
  <1> QED
    BY <1>1, <1>2, <1>3 DEF Inductive

LEMMA Still ==
    ASSUME Inductive, TypeOK', UNCHANGED <<op, snap, decided, accepts, resubmits, notice, told, guard>>
    PROVE  Inductive'
  <1>1. \A b \in Actors : Local(b)'
    BY LocalKeeps DEF Inductive
  <1>2. ASSUME NEW e \in Effects PROVE Effect(e)'
    <2>1. Submittable(e)' = Submittable(e) /\ Answering(e)' = Answering(e)
      BY DEF Submittable, Answering, Writing
    <2>2. Submittable(e)' + Answering(e)' <= Submittable(e) + Answering(e)
      BY <2>1, SMTT(30) DEF Submittable, Answering
    <2> QED
      BY <2>2, EffectKeeps DEF Inductive
  <1>3. Held'
    BY DEF Inductive, Held, Holding
  <1> QED
    BY <1>1, <1>2, <1>3 DEF Inductive

---------------------------------------------------------------------------
(* The runner *)

\* the runner e is done with its step, and nothing it still owes has grown
Proceeds(e) ==
    /\ OthersKeep(e) /\ Local(e)'
    /\ Submittable(e)' + Answering(e)' <= Submittable(e) + Answering(e)

LEMMA RunnerGoes ==
    ASSUME Inductive, NEW e \in Effects, OthersKeep(e), snap' = snap, decided' = decided,
           op'[e].eff = e, op'[e].pc \notin {"append", "install", "accept"},
           op'[e].pc = "advance" => snap[e].state = "requested",
           op'[e].pc = "submit" => snap[e].state # "submitted"
    PROVE  Proceeds(e)
  <1>1. Runner(e)'
    BY DEF Runner, Writing
  <1>2. Local(e)'
    BY <1>1, Cast DEF Local
  <1>3. Submittable(e)' <= Submittable(e) /\ Answering(e)' <= Answering(e)
    BY SMTT(30) DEF Submittable, Answering, Writing
  <1>4. Submittable(e)' + Answering(e)' <= Submittable(e) + Answering(e)
    BY <1>3, SMTT(30) DEF Submittable, Answering
  <1> QED
    BY <1>2, <1>4 DEF Proceeds

LEMMA RunnerMoves ==
    ASSUME Inductive, NEW e \in Effects, snap' = snap, decided' = decided,
           NEW pc \in Pcs \ {"append", "install", "accept"}, Goto(e, pc),
           pc = "advance" => snap[e].state = "requested",
           pc = "submit" => snap[e].state # "submitted"
    PROVE  Proceeds(e)
  <1>1. op \in [Actors -> Ops] /\ e \in Actors /\ op[e].eff = e
    BY Cast DEF Inductive, TypeOK, Local, Runner
  <1>2. OthersKeep(e) /\ op'[e].pc = pc /\ op'[e].eff = e
    BY <1>1, Moved
  <1> QED
    BY <1>2, RunnerGoes

LEMMA RunnerRests ==
    ASSUME Inductive, NEW e \in Effects, snap' = snap, decided' = decided, Rest(e)
    PROVE  Proceeds(e)
  <1>1. op \in [Actors -> Ops] /\ e \in Actors
    BY Cast DEF Inductive, TypeOK
  <1>2. OthersKeep(e) /\ op'[e].pc = "idle" /\ op'[e].eff = e
    BY <1>1, Rested
  <1> QED
    BY <1>2, RunnerGoes

LEMMA RunnerWrites ==
    ASSUME Inductive, NEW e \in Effects, snap' = snap, decided' = decided,
           NEW new \in Snapshots, NEW next \in Pcs, Persist(e, e, new, next), ~new.ids,
           <<snap[e].state, new.state>> \in ValidTransition,
           <<new.state, next>> \in {<<"requested", "advance">>, <<"denied", "refuse">>,
                <<"approval-required", "index">>, <<"submitted", "accept">>, <<"confirmed", "ended">>},
           new.state = "requested" => snap[e].state = "absent",
           new.state \in {"denied", "approval-required"} => snap[e].state = "requested"
    PROVE  Proceeds(e)
  <1>1. op \in [Actors -> Ops] /\ e \in Actors /\ snap \in [Effects -> Snapshots]
    BY Cast DEF Inductive, TypeOK
  <1>2. /\ OthersKeep(e) /\ op'[e].pc = "append" /\ op'[e].eff = e /\ op'[e].old = snap[e].state
        /\ op'[e].new = new /\ op'[e].next = next
    BY <1>1, Persisted, SMTT(30)
  <1>3. new.state \in {"submitted", "confirmed"} => snap[e].state \in Past
    BY DEF ValidTransition, Past
  <1>4. new.state = "submitted" => snap[e].state = "approved"
    BY DEF ValidTransition
  <1>5. snap[e].state \in Past => "approve" \in decided[e]
    BY DEF Inductive, Effect
  <1>6. InTime(e)'
    BY <1>2 DEF InTime
  <1>7. Runner(e)'
    BY <1>2, <1>3, <1>5, <1>6 DEF Runner, Writing
  <1>8. Local(e)'
    BY <1>7, Cast DEF Local
  <1>9. Submittable(e)' <= Submittable(e) /\ Answering(e)' <= Answering(e)
    BY <1>2, <1>4, SMTT(30) DEF Submittable, Answering, Writing
  <1>10. Submittable(e)' + Answering(e)' <= Submittable(e) + Answering(e)
    BY <1>9, SMTT(30) DEF Submittable, Answering
  <1> QED
    BY <1>2, <1>8, <1>10 DEF Proceeds

LEMMA RunnerSteps ==
    ASSUME Inductive, NEW e \in Effects,
           \/ LeaseItem(e) \/ BeginRequest(e) \/ AdvanceRequested(e) \/ EnsureIndexes(e)
           \/ Submit(e) \/ Confirm(e) \/ FinishTurn(e)
    PROVE  Proceeds(e)
  <1> USE DEF Pcs
  <1>1. snap' = snap /\ decided' = decided
    BY DEF LeaseItem, BeginRequest, AdvanceRequested, EnsureIndexes, Submit, Confirm, FinishTurn, files, history
  <1>2. Runner(e) /\ Effect(e) /\ snap[e] \in Snapshots
    BY Cast DEF Inductive, Local, TypeOK
  <1>3. CASE LeaseItem(e)
    BY <1>1, <1>3, RunnerMoves DEF LeaseItem
  <1>4. CASE BeginRequest(e)
    <2>1. CASE snap[e] = NoSnap /\ Persist(e, e, [NoSnap EXCEPT !.state = "requested"], "advance")
      <3>1. [NoSnap EXCEPT !.state = "requested"] \in Snapshots
            /\ [NoSnap EXCEPT !.state = "requested"].state = "requested"
            /\ ~[NoSnap EXCEPT !.state = "requested"].ids
        BY NoSnapType, WithState DEF States
      <3> QED
        BY <1>1, <2>1, <3>1, NoSnapType, RunnerWrites DEF ValidTransition
    <2>2. CASE Goto(e, Admission(snap[e].state))
      BY <1>1, <2>2, RunnerMoves DEF Admission
    <2> QED
      BY <1>4, <2>1, <2>2 DEF BeginRequest
  <1>5. CASE AdvanceRequested(e)
    <2> DEFINE intent == [NoSnap EXCEPT !.state = "requested"]
    <2>1. snap[e].state = "requested"
      BY <1>2, <1>5 DEF AdvanceRequested, Runner
    <2>2. intent \in Snapshots /\ ~intent.ids
      BY NoSnapType, WithState DEF States
    <2>3. CASE Persist(e, e, [intent EXCEPT !.state = "denied"], "refuse")
      <3>1. [intent EXCEPT !.state = "denied"] \in Snapshots /\ [intent EXCEPT !.state = "denied"].state = "denied"
            /\ ~[intent EXCEPT !.state = "denied"].ids
        BY <2>2, WithState DEF States
      <3> QED
        BY <1>1, <2>1, <2>3, <3>1, RunnerWrites DEF ValidTransition
    <2>4. CASE Persist(e, e, [intent EXCEPT !.state = "approval-required", !.token = "open"], "index")
      <3> DEFINE open == [intent EXCEPT !.state = "approval-required", !.token = "open"]
      <3>1. open \in Snapshots /\ open.state = "approval-required" /\ ~open.ids
        BY DEF NoSnap, Snapshots, States
      <3> HIDE DEF open
      <3> QED
        BY <1>1, <2>1, <2>4, <3>1, RunnerWrites DEF ValidTransition, open
    <2> QED
      BY <1>5, <2>3, <2>4 DEF AdvanceRequested
  <1>6. CASE EnsureIndexes(e)
    BY <1>1, <1>6, RunnerMoves DEF EnsureIndexes
  <1>7. CASE Submit(e)
    <2>1. snap[e].state # "submitted"
      BY <1>2, <1>7 DEF Submit, Runner
    <2>2. CASE Goto(e, "failed")
      BY <1>1, <2>2, RunnerMoves
    <2>3. CASE /\ <<snap[e].state, "submitted">> \in ValidTransition
               /\ Persist(e, e, [snap[e] EXCEPT !.state = "submitted"], "accept")
      <3>1. ~snap[e].ids
        BY <1>2, <2>3 DEF Effect, ValidTransition
      <3>2. [snap[e] EXCEPT !.state = "submitted"] \in Snapshots
            /\ [snap[e] EXCEPT !.state = "submitted"].state = "submitted"
            /\ ~[snap[e] EXCEPT !.state = "submitted"].ids
        BY <1>2, <3>1, WithState DEF States
      <3> QED
        BY <1>1, <2>3, <3>2, RunnerWrites
    <2> QED
      BY <1>7, <2>1, <2>2, <2>3 DEF Submit, Transition
  <1>8. CASE Confirm(e)
    <2>1. CASE Goto(e, "ended")
      BY <1>1, <2>1, RunnerMoves
    <2>2. CASE /\ <<snap[e].state, "confirmed">> \in ValidTransition
               /\ Persist(e, e, [snap[e] EXCEPT !.state = "confirmed"], "ended")
      <3>1. ~snap[e].ids
        BY <1>2, <2>2 DEF Effect, ValidTransition
      <3>2. [snap[e] EXCEPT !.state = "confirmed"] \in Snapshots
            /\ [snap[e] EXCEPT !.state = "confirmed"].state = "confirmed"
            /\ ~[snap[e] EXCEPT !.state = "confirmed"].ids
        BY <1>2, <3>1, WithState DEF States
      <3> QED
        BY <1>1, <2>2, <3>2, RunnerWrites
    <2> QED
      BY <1>8, <2>1, <2>2 DEF Confirm, Transition
  <1>9. CASE FinishTurn(e)
    BY <1>1, <1>9, RunnerRests DEF FinishTurn
  <1> QED
    BY <1>3, <1>4, <1>5, <1>6, <1>7, <1>8, <1>9

LEMMA RunnerTypes ==
    ASSUME TypeOK, NEW e \in Effects, op' \in [Actors -> Ops],
           RunnerStep(e) \/ RunContinuation(e) \/ TokenRunsOut(e)
    PROVE  TypeOK'
  <1> USE DEF TypeOK, files, history
  <1>1. CASE LeaseItem(e) \/ BeginRequest(e) \/ AdvanceRequested(e) \/ EnsureIndexes(e)
    BY <1>1 DEF LeaseItem, BeginRequest, AdvanceRequested, EnsureIndexes
  <1>2. CASE Submit(e) \/ Confirm(e) \/ Accept(e)
    BY <1>2, SMTT(30) DEF Submit, Confirm, Accept
  <1>3. CASE FinishTurn(e)
    <2>1. Receipt(e) \subseteq {"ready", "running", "parked", "terminal"}
      BY DEF Receipt
    <2> QED
      BY <1>3, <2>1 DEF FinishTurn
  <1>4. CASE RunContinuation(e) \/ TokenRunsOut(e)
    BY <1>4 DEF RunContinuation, TokenRunsOut
  <1> QED
    BY <1>1, <1>2, <1>3, <1>4 DEF RunnerStep

\* the one step that spends what an approval allows
LEMMA AcceptSafe ==
    ASSUME Inductive, NEW e \in Effects, Accept(e)
    PROVE  Inductive'
  <1>1. /\ TypeOK /\ op \in [Actors -> Ops] /\ e \in Actors /\ Runner(e) /\ op[e].pc = "accept"
        /\ accepts \in [Effects -> Nat] /\ resubmits \in [Effects -> Nat]
    BY Cast DEF Inductive, TypeOK, Local, Accept
  <1>2. /\ OthersKeep(e) /\ op'[e].pc = "active" /\ op'[e].eff = e
    BY <1>1, Moved DEF Accept, Pcs, Runner
  <1>3. UNCHANGED <<snap, decided, resubmits, notice, told, guard>>
    BY DEF Accept, files
  <1>4. TypeOK'
    BY <1>1, <1>2, RunnerTypes DEF RunnerStep, OthersKeep
  <1>5. Local(e)'
    <2>1. Runner(e)'
      BY <1>2 DEF Runner, Writing
    <2> QED
      BY <2>1, Cast DEF Local
  <1>6. \A b \in Actors : Local(b)'
    BY <1>2, <1>3, <1>5, LocalKeeps DEF Inductive, OthersKeep
  <1>7. Held'
    <2>1. ~Holding(e)'
      BY Cast DEF Holding, Guarded
    <2> QED
      BY <1>2, <1>3, <2>1 DEF Inductive, Held, Holding, OthersKeep
  <1>8. ASSUME NEW x \in Effects, x # e PROVE Effect(x)'
    <2>1. op'[x] = op[x] /\ accepts'[x] = accepts[x] /\ x \in Actors
      BY <1>1, <1>2, <1>8, Cast DEF OthersKeep, Accept
    <2>2. Submittable(x)' = Submittable(x) /\ Answering(x)' = Answering(x)
      BY <1>3, <2>1 DEF Submittable, Answering, Writing
    <2> QED
      BY <1>3, <2>1, <2>2 DEF Inductive, Effect
  <1>9. Effect(e)'
    <2>1. accepts'[e] = accepts[e] + 1 /\ accepts[e] \in Nat /\ resubmits[e] \in Nat
      BY <1>1 DEF Accept
    <2>2. Submittable(e)' = Submittable(e) /\ Answering(e)' = 0 /\ Answering(e) = 1 /\ Submittable(e) \in {0, 1}
      BY <1>1, <1>2, <1>3 DEF Submittable, Answering, Writing
    <2>3. OneDesk => accepts'[e] + Submittable(e)' + Answering(e)' <= 1 + resubmits'[e]
      BY <1>3, <2>1, <2>2, SMTT(30) DEF Inductive, Effect
    <2>4. "approve" \in decided[e] /\ (Unfenced => snap[e].state \in Past)
      BY <1>1 DEF Runner
    <2> QED
      BY <1>3, <2>3, <2>4 DEF Inductive, Effect
  <1> QED
    BY <1>4, <1>6, <1>7, <1>8, <1>9 DEF Inductive

LEMMA RunnerSafe ==
    ASSUME Inductive, NEW e \in Effects, RunnerStep(e) \/ RunContinuation(e) \/ TokenRunsOut(e)
    PROVE  Inductive'
  <1>1. TypeOK /\ e \in Actors
    BY Cast DEF Inductive
  <1>2. CASE \/ LeaseItem(e) \/ BeginRequest(e) \/ AdvanceRequested(e) \/ EnsureIndexes(e)
             \/ Submit(e) \/ Confirm(e) \/ FinishTurn(e)
    <2>1. Proceeds(e)
      BY <1>2, RunnerSteps
    <2>2. TypeOK'
      BY <1>1, <1>2, <2>1, RunnerTypes DEF Proceeds, OthersKeep, RunnerStep
    <2>3. UNCHANGED <<snap, decided, accepts, resubmits, notice, told, guard>>
      BY <1>2 DEF LeaseItem, BeginRequest, AdvanceRequested, EnsureIndexes, Submit, Confirm, FinishTurn,
         files, history
    <2>4. ~Holding(e)'
      BY Cast DEF Holding, Guarded
    <2> QED
      BY <1>1, <2>1, <2>2, <2>3, <2>4, Calm DEF Proceeds
  <1>3. CASE RunContinuation(e) \/ TokenRunsOut(e)
    <2>1. UNCHANGED <<op, snap, decided, accepts, resubmits, notice, told, guard>>
      BY <1>3 DEF RunContinuation, TokenRunsOut, files, history
    <2>2. TypeOK'
      BY <1>1, <1>3, <2>1, RunnerTypes DEF TypeOK
    <2> QED
      BY <2>1, <2>2, Still
  <1> QED
    BY <1>2, <1>3, AcceptSafe DEF RunnerStep

---------------------------------------------------------------------------
(* The lock, and steps of the actors that serve a call *)

LEMMA Acquired ==
    ASSUME Inductive, NEW a \in Guarded, Acquire(a), OthersKeep(a)
    PROVE  Held' /\ guard' \in [Processes -> Guarded \cup {NoOne}]
  <1>1. guard \in [Processes -> Guarded \cup {NoOne}] /\ a \in Actors /\ Proc[a] \in Processes
    BY Cast, ProcAssumption DEF Inductive, TypeOK
  <1>2. ASSUME NEW b \in Actors, Holding(b)' PROVE guard'[Proc[b]] = b
    <2>1. CASE b = a
      BY <1>1, <2>1 DEF Acquire
    <2>2. CASE b # a
      <3>1. Holding(b)
        BY <1>2, <2>2 DEF OthersKeep, Holding
      <3>2. guard[Proc[b]] = b /\ b # NoOne /\ Proc[b] \in Processes
        BY <1>2, <3>1, ActorsAssumption, ProcAssumption DEF Inductive, Held
      <3> QED
        BY <1>1, <3>2 DEF Acquire
    <2> QED
      BY <2>1, <2>2
  <1> QED
    BY <1>1, <1>2 DEF Held, Acquire

LEMMA Released ==
    ASSUME Inductive, NEW a \in Guarded, Holding(a), Release(a), OthersKeep(a), ~Holding(a)'
    PROVE  Held' /\ guard' \in [Processes -> Guarded \cup {NoOne}]
  <1>1. guard \in [Processes -> Guarded \cup {NoOne}] /\ a \in Actors /\ Proc[a] \in Processes /\ guard[Proc[a]] = a
    BY Cast, ProcAssumption DEF Inductive, TypeOK, Held
  <1>2. ASSUME NEW b \in Actors, Holding(b)' PROVE guard'[Proc[b]] = b
    <2>1. b # a
      BY <1>2
    <2>2. Holding(b)
      BY <1>2, <2>1 DEF OthersKeep, Holding
    <2>3. guard[Proc[b]] = b /\ Proc[b] \in Processes
      BY <1>2, <2>2, ProcAssumption DEF Inductive, Held
    <2> QED
      BY <1>1, <2>1, <2>3 DEF Release
  <1> QED
    BY <1>1, <1>2 DEF Held, Release

LEMMA HeldKeeps ==
    ASSUME Inductive, NEW a \in Actors, OthersKeep(a), guard' = guard, Holding(a)' => Holding(a)
    PROVE  Held'
  BY DEF Inductive, Held, Holding, OthersKeep

\* a call that is not the runner's goes on, and tells users what is true
LEMMA Served ==
    ASSUME Inductive, TypeOK', Held', NEW a \in Actors \ Effects, OthersKeep(a), Local(a)',
           UNCHANGED <<snap, decided, accepts, resubmits>>,
           \A e \in Effects : Unfenced /\ e \in notice' \cup told' =>
                                  e \in notice \cup told \/ snap[e].state = "denied"
    PROVE  Inductive'
  <1>1. \A b \in Actors : Local(b)'
    BY LocalKeeps DEF Inductive, OthersKeep
  <1>2. ASSUME NEW e \in Effects PROVE Effect(e)'
    <2>1. op'[e] = op[e]
      BY Cast DEF OthersKeep
    <2>2. Submittable(e)' = Submittable(e) /\ Answering(e)' = Answering(e)
      BY <2>1 DEF Submittable, Answering, Writing
    <2> QED
      BY <2>2 DEF Inductive, Effect
  <1> QED
    BY <1>1, <1>2 DEF Inductive

---------------------------------------------------------------------------
(* Resolvers *)

LEMMA ResolverRests ==
    ASSUME Inductive, NEW u \in Resolvers, Rest(u)
    PROVE  OthersKeep(u) /\ Local(u)' /\ ~Holding(u)'
  <1>1. op \in [Actors -> Ops] /\ u \in Actors
    BY Cast DEF Inductive, TypeOK, Guarded
  <1>2. OthersKeep(u) /\ op'[u].pc = "idle"
    BY <1>1, Rested
  <1>3. Resolver(u)'
    BY <1>2 DEF Resolver, Writing
  <1> QED
    BY <1>2, <1>3, Cast DEF Local, Holding

LEMMA ResolverMoves ==
    ASSUME Inductive, NEW u \in Resolvers, NEW pc \in {"answer", "failed", "ensure", "skip"}, Goto(u, pc),
           snap' = snap,
           Unfenced /\ pc = "answer" /\ op[u].dec = "deny" => snap[op[u].eff].state = "denied"
    PROVE  OthersKeep(u) /\ Local(u)' /\ (pc \in {"ensure", "skip"} => ~Holding(u)')
  <1>1. op \in [Actors -> Ops] /\ u \in Actors /\ pc \in Pcs
    BY Cast DEF Inductive, TypeOK, Guarded, Pcs
  <1>2. OthersKeep(u) /\ op'[u].pc = pc /\ op'[u].eff = op[u].eff /\ op'[u].dec = op[u].dec
    BY <1>1, Moved
  <1>3. Resolver(u)'
    BY <1>2 DEF Resolver, Writing
  <1>4. Local(u)'
    BY <1>3, Cast DEF Local
  <1>5. pc \in {"ensure", "skip"} => ~Holding(u)'
    BY <1>2, Cast DEF Holding
  <1> QED
    BY <1>2, <1>4, <1>5

\* a decision is written down for a token that nobody has decided on
LEMMA ResolverWrites ==
    ASSUME Inductive, NEW u \in Resolvers, snap' = snap, decided' = decided, op[u].eff \in Effects,
           NEW new \in Snapshots, NEW next \in Pcs, Persist(u, op[u].eff, new, next),
           snap[op[u].eff].state = "approval-required",
           \/ new.ids /\ new.state = "denied" /\ next = "failed"
           \/ ~new.ids /\ new.state = Verdict(op[u].dec) /\ next = "answer" /\ op[u].dec # "none"
    PROVE  OthersKeep(u) /\ Local(u)'
  <1> DEFINE e == op[u].eff
  <1>1. op \in [Actors -> Ops] /\ u \in Actors /\ snap \in [Effects -> Snapshots] /\ Effect(e)
    BY Cast DEF Inductive, TypeOK, Guarded
  <1>2. /\ OthersKeep(u) /\ op'[u].pc = "append" /\ op'[u].eff = e /\ op'[u].old = snap[e].state
        /\ op'[u].new = new /\ op'[u].next = next /\ op'[u].dec = op[u].dec
    BY <1>1, Persisted, SMTT(30)
  <1>3. decided[e] = {}
    BY <1>1 DEF Effect
  <1>4. new.state \in {"approved", "denied"}
    BY DEF Verdict
  <1> HIDE DEF e
  <1>5. InTime(u)'
    BY <1>2, <1>4 DEF InTime, ValidTransition, e
  <1>6. Deciding(u)'
    BY <1>2, <1>3, <1>5 DEF Deciding, Asked, e
  <1>7. Resolver(u)'
    BY <1>2, <1>3, <1>6 DEF Resolver, Writing, e
  <1> QED
    BY <1>2, <1>7, Cast DEF Local

LEMMA ResolveSafe ==
    ASSUME Inductive, NEW u \in Resolvers, Resolve(u)
    PROVE  Inductive'
  <1> DEFINE e == op[u].eff
             s == snap[e]
             d == op[u].dec
  <1>1. /\ TypeOK /\ u \in Actors \ Effects /\ op[u].pc = "resolve" /\ e \in Effects /\ s \in Snapshots
        /\ Resolver(u) /\ Effect(e)
    BY Cast DEF Inductive, TypeOK, Guarded, Ops, Local, Resolve
  <1>2. UNCHANGED <<snap, log, indexed, item, child, notice, due, guard, accepts, decided, told, resubmits,
                    crashes, readbacks>>
    BY DEF Resolve, files, history
  <1>3. OthersKeep(u) /\ Local(u)'
    <2>1. CASE Goto(u, "failed")
      BY <1>2, <2>1, ResolverMoves
    <2>2. CASE Goto(u, "answer") /\ SameDecision(d, s.state)
      BY <1>2, <2>2, ResolverMoves DEF SameDecision
    <2>3. CASE s.state = "approval-required" /\ Persist(u, e, Expired(s), "failed")
      <3>1. Expired(s) \in Snapshots /\ Expired(s).state = "denied" /\ Expired(s).ids
        BY <1>1, FencedType
      <3> HIDE DEF s
      <3> QED
        BY <1>1, <1>2, <2>3, <3>1, ResolverWrites DEF Pcs, s
    <2>4. CASE s.state = "approval-required" /\ Persist(u, e, [s EXCEPT !.token = "consumed",
                                                                        !.state = Verdict(d)], "answer")
      <3> DEFINE v == Verdict(d)
                 new == [s EXCEPT !.token = "consumed", !.state = v]
      <3>1. v \in States
        BY DEF Verdict, States
      <3>2. d # "none" /\ ~s.ids
        BY <1>1, <2>4 DEF Resolver, Effect
      <3> HIDE DEF v
      <3>3. new \in Snapshots /\ new.state = v /\ ~new.ids
        BY <1>1, <3>1, <3>2, WithToken
      <3>4. Persist(u, e, new, "answer")
        BY <2>4 DEF v
      <3> HIDE DEF new
      <3> QED
        BY <1>1, <1>2, <2>4, <3>2, <3>3, <3>4, ResolverWrites DEF Pcs, v
    <2> QED
      BY <2>1, <2>2, <2>3, <2>4 DEF Resolve
  <1>4. TypeOK'
    BY <1>1, <1>2, <1>3 DEF TypeOK, OthersKeep
  <1>5. Holding(u)
    BY <1>1 DEF Holding
  <1>6. Held'
    BY <1>1, <1>2, <1>3, <1>5, HeldKeeps
  <1> QED
    BY <1>1, <1>2, <1>3, <1>4, <1>6, Served

LEMMA StartResolveSafe ==
    ASSUME Inductive, NEW u \in Resolvers, NEW e \in Effects, NEW d \in {"approve", "deny"}, StartResolve(u, e, d)
    PROVE  Inductive'
  <1> DEFINE r == [op[u] EXCEPT !.pc = "resolve", !.eff = e, !.dec = d]
  <1>1. TypeOK /\ u \in Guarded /\ u \in Actors \ Effects /\ op[u] \in Ops /\ op \in [Actors -> Ops]
    BY Cast DEF Inductive, TypeOK, Guarded
  <1>2. r \in Ops /\ r.pc = "resolve" /\ r.dec = d
    <2>1. d \in Decisions
      BY DEF Decisions
    <2> QED
      BY <1>1, <2>1 DEF Ops, Pcs
  <1>3. op' = [op EXCEPT ![u] = r] /\ Acquire(u)
    BY DEF StartResolve
  <1>4. UNCHANGED <<snap, log, indexed, item, child, notice, due, accepts, decided, told, resubmits,
                    crashes, readbacks>>
    BY DEF StartResolve, files, history
  <1> HIDE DEF r
  <1>5. OthersKeep(u) /\ op'[u] = r
    BY <1>1, <1>2, <1>3, Updated
  <1>6. Held' /\ guard' \in [Processes -> Guarded \cup {NoOne}]
    BY <1>1, <1>3, <1>5, Acquired
  <1>7. TypeOK'
    BY <1>1, <1>4, <1>5, <1>6 DEF TypeOK, OthersKeep
  <1>8. Resolver(u)'
    BY <1>2, <1>5 DEF Resolver, Writing
  <1>9. Local(u)'
    BY <1>8, Cast DEF Local
  <1> QED
    BY <1>1, <1>4, <1>5, <1>6, <1>7, <1>9, Served

LEMMA AnswerSafe ==
    ASSUME Inductive, NEW u \in Resolvers, Answer(u)
    PROVE  Inductive'
  <1>1. /\ TypeOK /\ u \in Guarded /\ u \in Actors \ Effects /\ op[u].eff \in Effects /\ Resolver(u)
        /\ op[u].pc \in {"answer", "failed"}
    BY Cast DEF Inductive, TypeOK, Guarded, Ops, Local, Answer
  <1>2. Release(u) /\ UNCHANGED <<snap, log, indexed, item, child, notice, due, accepts, decided, resubmits,
                                  crashes, readbacks>>
    BY DEF Answer, files
  <1>3. OthersKeep(u) /\ Local(u)' /\ ~Holding(u)'
    <2>1. CASE Rest(u)
      BY <2>1, ResolverRests
    <2>2. CASE Goto(u, "ensure")
      BY <1>2, <2>2, ResolverMoves
    <2> QED
      BY <2>1, <2>2 DEF Answer
  <1>4. Holding(u)
    BY <1>1 DEF Holding
  <1>5. Held' /\ guard' \in [Processes -> Guarded \cup {NoOne}]
    BY <1>1, <1>2, <1>3, <1>4, Released
  <1>6. \/ told' = told
        \/ told' = told \cup {op[u].eff} /\ op[u].pc = "answer" /\ op[u].dec = "deny"
    BY DEF Answer
  <1>7. TypeOK'
    BY <1>1, <1>2, <1>3, <1>5, <1>6 DEF TypeOK, OthersKeep
  <1>8. \A x \in Effects : Unfenced /\ x \in notice' \cup told' => x \in notice \cup told \/ snap[x].state = "denied"
    BY <1>1, <1>2, <1>6 DEF Resolver
  <1> QED
    BY <1>1, <1>2, <1>3, <1>5, <1>7, <1>8, Served

LEMMA ContinueSafe ==
    ASSUME Inductive, NEW u \in Resolvers, EnsureContinuation(u) \/ SkipSource(u)
    PROVE  Inductive'
  <1>1. TypeOK /\ u \in Actors \ Effects /\ op[u].eff \in Effects
    BY Cast DEF Inductive, TypeOK, Guarded, Ops
  <1>2. UNCHANGED <<snap, notice, guard, accepts, decided, told, resubmits>>
    BY DEF EnsureContinuation, SkipSource, history
  <1>3. OthersKeep(u) /\ Local(u)' /\ ~Holding(u)'
    <2>1. CASE Rest(u)
      BY <2>1, ResolverRests
    <2>2. CASE Goto(u, "skip")
      BY <1>2, <2>2, ResolverMoves
    <2> QED
      BY <2>1, <2>2 DEF EnsureContinuation, SkipSource
  <1>4. TypeOK'
    BY <1>1, <1>3 DEF TypeOK, OthersKeep, EnsureContinuation, SkipSource, history
  <1>5. Held'
    BY <1>1, <1>2, <1>3, HeldKeeps
  <1> QED
    BY <1>1, <1>2, <1>3, <1>4, <1>5, Served

---------------------------------------------------------------------------
(* Sweepers, fencers and readers *)

LEMMA SweeperLocal ==
    ASSUME NEW s \in Sweepers, op'[s].pc \notin {"append", "install"}
    PROVE  Local(s)' /\ (op'[s].pc # "visit" => ~Holding(s)')
  <1>1. Sweeper(s)'
    BY DEF Sweeper, Writing
  <1> QED
    BY <1>1, Cast DEF Local, Holding

LEMMA StartSweepSafe ==
    ASSUME Inductive, NEW s \in Sweepers, StartSweep(s)
    PROVE  Inductive'
  <1> DEFINE known == Known
             r == [op[s] EXCEPT !.pc = "visit", !.todo = known, !.late = due]
  <1>1. /\ TypeOK /\ s \in Guarded /\ s \in Actors \ Effects /\ op[s] \in Ops /\ op \in [Actors -> Ops]
        /\ known \in SUBSET Effects /\ due \in SUBSET Effects
    BY Cast DEF Inductive, TypeOK, Guarded, Known
  <1>2. op' = [op EXCEPT ![s] = r] /\ Acquire(s)
    BY DEF StartSweep
  <1> HIDE DEF known
  <1>3. r \in Ops /\ r.pc = "visit"
    BY <1>1 DEF Ops, Pcs
  <1>4. UNCHANGED <<snap, log, indexed, item, child, notice, due, accepts, decided, told, resubmits,
                    crashes, readbacks>>
    BY DEF StartSweep, files, history
  <1> HIDE DEF r
  <1>5. OthersKeep(s) /\ op'[s] = r
    BY <1>1, <1>2, <1>3, Updated
  <1>6. Held' /\ guard' \in [Processes -> Guarded \cup {NoOne}]
    BY <1>1, <1>2, <1>5, Acquired
  <1>7. TypeOK'
    BY <1>1, <1>4, <1>5, <1>6 DEF TypeOK, OthersKeep
  <1>8. Local(s)'
    BY <1>3, <1>5, SweeperLocal
  <1> QED
    BY <1>1, <1>4, <1>5, <1>6, <1>7, <1>8, Served

LEMMA EndSweepSafe ==
    ASSUME Inductive, NEW s \in Sweepers, EndSweep(s)
    PROVE  Inductive'
  <1>1. TypeOK /\ s \in Guarded /\ s \in Actors \ Effects /\ op \in [Actors -> Ops] /\ Holding(s)
    BY Cast DEF Inductive, TypeOK, Guarded, EndSweep, Holding
  <1>2. Release(s) /\ UNCHANGED <<snap, log, indexed, item, child, notice, due, accepts, decided, told, resubmits,
                                  crashes, readbacks>>
    BY DEF EndSweep, files, history
  <1>3. OthersKeep(s) /\ op'[s].pc \in {"idle", "settle"}
    BY <1>1, Moved, Rested DEF EndSweep, Pcs
  <1>4. Local(s)' /\ ~Holding(s)'
    BY <1>3, SweeperLocal
  <1>5. Held' /\ guard' \in [Processes -> Guarded \cup {NoOne}]
    BY <1>1, <1>2, <1>3, <1>4, Released
  <1>6. TypeOK'
    BY <1>1, <1>2, <1>3, <1>5 DEF TypeOK, OthersKeep
  <1> QED
    BY <1>1, <1>2, <1>3, <1>4, <1>5, <1>6, Served

\* the sweep decides on a token too
LEMMA SweepOneSafe ==
    ASSUME Inductive, NEW s \in Sweepers, NEW e \in Effects, SweepOne(s, e)
    PROVE  Inductive'
  <1>1. /\ TypeOK /\ s \in Actors \ Effects /\ op[s] \in Ops /\ op \in [Actors -> Ops] /\ Holding(s)
        /\ snap[e] \in Snapshots /\ Effect(e)
    BY Cast DEF Inductive, TypeOK, Guarded, SweepOne, Holding
  <1>2. UNCHANGED <<snap, log, indexed, item, child, notice, due, guard, accepts, decided, told, resubmits,
                    crashes, readbacks>>
    BY DEF SweepOne, files, history
  <1>3. OthersKeep(s) /\ Local(s)'
    <2> DEFINE todo == op[s].todo \ {e}
    <2>1. todo \in SUBSET Effects /\ op[s].found \in SUBSET Effects /\ op[s].found \cup {e} \in SUBSET Effects
      BY <1>1 DEF Ops
    <2>2. CASE Expirable(s, e)
      <3> DEFINE old == snap[e].state
                 new == Expired(snap[e])
                 found == op[s].found \cup {e}
                 r == [op[s] EXCEPT !.pc = "append", !.eff = e, !.old = old, !.new = new,
                                    !.next = "visit", !.todo = todo, !.found = found]
      <3>1. /\ old = "approval-required" /\ new \in Snapshots /\ new.state = "denied" /\ new.ids
            /\ decided[e] = {}
        BY <1>1, <2>2, FencedType DEF Expirable, Effect
      <3>2. op' = [op EXCEPT ![s] = r]
        BY <2>2 DEF SweepOne
      <3> HIDE DEF old, new, todo, found
      <3>3. /\ r \in Ops /\ r.pc = "append" /\ r.eff = e /\ r.old = old /\ r.new = new /\ r.next = "visit"
        <4>1. old \in States \cup {"absent"} /\ found \in SUBSET Effects
          BY <2>1, <3>1 DEF States, found
        <4> QED
          BY <1>1, <2>1, <3>1, <4>1 DEF Ops, Pcs
      <3> HIDE DEF r
      <3>4. OthersKeep(s) /\ op'[s] = r
        BY <1>1, <3>2, <3>3, Updated
      <3>5. InTime(s)'
        BY <1>2, <3>1, <3>3, <3>4 DEF InTime, ValidTransition, old
      <3>6. Deciding(s)'
        BY <1>2, <3>1, <3>3, <3>4, <3>5 DEF Deciding, Asked, old
      <3>7. Sweeper(s)'
        BY <3>1, <3>3, <3>4, <3>6 DEF Sweeper
      <3> QED
        BY <3>4, <3>7, Cast DEF Local
    <2>3. CASE ~Expirable(s, e)
      <3> DEFINE found == IF AlreadyExpired(e) THEN op[s].found \cup {e} ELSE op[s].found
                 r == [op[s] EXCEPT !.todo = todo, !.found = found]
      <3>1. op' = [op EXCEPT ![s] = r]
        BY <2>3 DEF SweepOne
      <3>2. found \in SUBSET Effects /\ op[s].pc = "visit"
        BY <2>1 DEF SweepOne
      <3> HIDE DEF todo, found
      <3>3. r \in Ops /\ r.pc = "visit"
        BY <1>1, <2>1, <3>2 DEF Ops
      <3> HIDE DEF r
      <3>4. OthersKeep(s) /\ op'[s] = r
        BY <1>1, <3>1, <3>3, Updated
      <3> QED
        BY <3>3, <3>4, SweeperLocal
    <2> QED
      BY <2>2, <2>3
  <1>4. TypeOK'
    BY <1>1, <1>2, <1>3 DEF TypeOK, OthersKeep
  <1>5. Held'
    BY <1>1, <1>2, <1>3, HeldKeeps
  <1> QED
    BY <1>1, <1>2, <1>3, <1>4, <1>5, Served

LEMMA SettleSafe ==
    ASSUME Inductive, NEW s \in Sweepers, NEW e \in Effects, Settle(s, e)
    PROVE  Inductive'
  <1>1. TypeOK /\ s \in Actors \ Effects /\ op[s] \in Ops /\ op \in [Actors -> Ops] /\ op[s].pc = "settle"
    BY Cast DEF Inductive, TypeOK, Guarded, Settle
  <1>2. UNCHANGED <<snap, log, indexed, item, child, due, guard, accepts, decided, told, resubmits,
                    crashes, readbacks>>
    BY DEF Settle, history
  <1>3. OthersKeep(s) /\ op'[s].pc \in {"receipt", "settle"}
    <2> DEFINE found == op[s].found \ {e}
               r1 == [op[s] EXCEPT !.pc = "receipt", !.eff = e, !.found = found]
               r2 == [op[s] EXCEPT !.found = found]
    <2>1. found \in SUBSET Effects
      BY <1>1 DEF Ops
    <2>2. op' = [op EXCEPT ![s] = r1] \/ op' = [op EXCEPT ![s] = r2]
      BY DEF Settle
    <2> HIDE DEF found
    <2>3. r1 \in Ops /\ r1.pc = "receipt" /\ r2 \in Ops /\ r2.pc = "settle"
      BY <1>1, <2>1 DEF Ops, Pcs
    <2> HIDE DEF r1, r2
    <2> QED
      BY <1>1, <2>2, <2>3, Updated
  <1>4. notice' = notice \/ (notice' = notice \cup {e} /\ snap[e].state = "denied")
    BY DEF Settle
  <1>5. Local(s)' /\ ~Holding(s)'
    BY <1>3, SweeperLocal
  <1>6. TypeOK'
    BY <1>1, <1>2, <1>3, <1>4 DEF TypeOK, OthersKeep
  <1>7. Held'
    BY <1>1, <1>2, <1>3, <1>5, HeldKeeps
  <1>8. \A x \in Effects : Unfenced /\ x \in notice' \cup told' => x \in notice \cup told \/ snap[x].state = "denied"
    BY <1>2, <1>4
  <1> QED
    BY <1>1, <1>2, <1>3, <1>5, <1>6, <1>7, <1>8, Served

LEMMA SettledSafe ==
    ASSUME Inductive, NEW s \in Sweepers, SettleReceipt(s) \/ EndSettle(s)
    PROVE  Inductive'
  <1>1. TypeOK /\ s \in Actors \ Effects /\ op \in [Actors -> Ops] /\ op[s].eff \in Effects
    BY Cast DEF Inductive, TypeOK, Guarded, Ops
  <1>2. UNCHANGED <<snap, notice, guard, accepts, decided, told, resubmits>>
    BY DEF SettleReceipt, EndSettle, files, history
  <1>3. OthersKeep(s) /\ op'[s].pc \in {"idle", "settle"}
    BY <1>1, Moved, Rested DEF SettleReceipt, EndSettle, Pcs
  <1>4. Local(s)' /\ ~Holding(s)'
    BY <1>3, SweeperLocal
  <1>5. TypeOK'
    BY <1>1, <1>3 DEF TypeOK, OthersKeep, SettleReceipt, EndSettle, files, history
  <1>6. Held'
    BY <1>1, <1>2, <1>3, <1>4, HeldKeeps
  <1> QED
    BY <1>1, <1>2, <1>3, <1>4, <1>5, <1>6, Served

LEMMA FencerSafe ==
    ASSUME Inductive, NEW f \in Fencers, FencerStep(f)
    PROVE  Inductive'
  <1>1. TypeOK /\ f \in Actors \ Effects /\ op[f] \in Ops /\ op \in [Actors -> Ops] /\ snap \in [Effects -> Snapshots]
    BY Cast DEF Inductive, TypeOK
  <1>2. UNCHANGED <<snap, notice, guard, accepts, decided, told, resubmits>>
    BY DEF FencerStep, StartFence, EndFence, FenceOne, files, history
  <1>3. OthersKeep(f) /\ Fencer(f)'
    <2>1. CASE StartFence(f)
      <3> DEFINE known == Known
                 r == [op[f] EXCEPT !.pc = "visit", !.todo = known]
      <3>1. op' = [op EXCEPT ![f] = r] /\ known \in SUBSET Effects
        BY <2>1 DEF StartFence, Known
      <3> HIDE DEF known
      <3>2. r \in Ops /\ r.pc = "visit"
        BY <1>1, <3>1 DEF Ops, Pcs
      <3> HIDE DEF r
      <3>3. OthersKeep(f) /\ op'[f] = r
        BY <1>1, <3>1, <3>2, Updated
      <3> QED
        BY <3>2, <3>3 DEF Fencer, Writing
    <2>2. CASE EndFence(f)
      <3>1. OthersKeep(f) /\ op'[f].pc = "idle"
        BY <1>1, <2>2, Rested DEF EndFence
      <3> QED
        BY <3>1 DEF Fencer, Writing
    <2>3. ASSUME NEW e \in Effects, FenceOne(f, e) PROVE OthersKeep(f) /\ Fencer(f)'
      <3>1. CASE snap[e].state \in {"approval-required", "approved"}
        <4>1. ~snap[e].ids
          BY <3>1 DEF Inductive, Effect
        <4>2. Fenced(snap[e]) \in Snapshots /\ Fenced(snap[e]).state = "denied" /\ ~Fenced(snap[e]).ids
          BY <1>1, <4>1, FencedType
        <4>3. Persist(f, e, Fenced(snap[e]), "visit")
          BY <2>3, <3>1 DEF FenceOne
        <4>4. OthersKeep(f) /\ op'[f].eff = e /\ op'[f].new = Fenced(snap[e]) /\ op'[f].next = "visit"
          BY <1>1, <4>2, <4>3, Persisted DEF Pcs
        <4> QED
          BY <1>2, <3>1, <4>2, <4>4 DEF Fencer, Asked
      <3>2. CASE snap[e].state \notin {"approval-required", "approved"}
        <4> DEFINE todo == op[f].todo \ {e}
                   r == [op[f] EXCEPT !.todo = todo]
        <4>1. op' = [op EXCEPT ![f] = r] /\ todo \in SUBSET Effects /\ op[f].pc = "visit"
          BY <1>1, <2>3, <3>2 DEF FenceOne, Ops
        <4> HIDE DEF todo
        <4>2. r \in Ops /\ r.pc = "visit"
          BY <1>1, <4>1 DEF Ops
        <4> HIDE DEF r
        <4>3. OthersKeep(f) /\ op'[f] = r
          BY <1>1, <4>1, <4>2, Updated
        <4> QED
          BY <4>2, <4>3 DEF Fencer, Writing
      <3> QED
        BY <3>1, <3>2
    <2> QED
      BY <2>1, <2>2, <2>3 DEF FencerStep
  <1>4. Local(f)' /\ ~Holding(f)'
    BY <1>3, Cast DEF Local, Holding
  <1>5. TypeOK'
    BY <1>1, <1>3 DEF TypeOK, OthersKeep, FencerStep, StartFence, EndFence, FenceOne, files, history
  <1>6. Held'
    BY <1>1, <1>2, <1>3, <1>4, HeldKeeps
  <1> QED
    BY <1>1, <1>2, <1>3, <1>4, <1>5, <1>6, Served

LEMMA ReaderSafe ==
    ASSUME Inductive, NEW r \in Readers, ReaderStep(r)
    PROVE  Inductive'
  <1>1. /\ TypeOK /\ r \in Actors \ Effects /\ op[r] \in Ops /\ op \in [Actors -> Ops]
        /\ snap \in [Effects -> Snapshots] /\ op[r].eff \in Effects /\ Reader(r)
    BY Cast DEF Inductive, TypeOK, Ops, Local
  <1>2. UNCHANGED <<snap, notice, guard, accepts, decided, told, resubmits>>
    BY DEF ReaderStep, StartReconcile, Reconcile, files, history
  <1>3. OthersKeep(r) /\ Reader(r)'
    <2>1. ASSUME NEW e \in Effects, NEW to \in {"confirmed", "approved", "ambiguous"}, StartReconcile(r, e, to)
          PROVE  OthersKeep(r) /\ Reader(r)'
      <3> DEFINE new == [NoSnap EXCEPT !.state = to]
                 c == [op[r] EXCEPT !.pc = "reconcile", !.eff = e, !.new = new]
      <3>1. new \in Snapshots /\ new.state = to
        <4>1. to \in States
          BY DEF States
        <4> QED
          BY <4>1, NoSnapType, WithState
      <3>2. "approve" \in decided[e]
        BY <2>1 DEF StartReconcile, Inductive, Effect, Past
      <3>3. op' = [op EXCEPT ![r] = c]
        BY <2>1 DEF StartReconcile
      <3> HIDE DEF new
      <3>4. c \in Ops /\ c.pc = "reconcile" /\ c.eff = e /\ c.new = new
        BY <1>1, <3>1 DEF Ops, Pcs
      <3> HIDE DEF c
      <3>5. OthersKeep(r) /\ op'[r] = c
        BY <1>1, <3>3, <3>4, Updated
      <3> QED
        BY <1>2, <3>1, <3>2, <3>4, <3>5 DEF Reader, Writing
    <2>2. CASE Reconcile(r)
      <3> DEFINE e == op[r].eff
                 to == op[r].new.state
      <3>1. to \in {"confirmed", "approved", "ambiguous"} /\ e \in Effects /\ "approve" \in decided[e]
        BY <1>1, <2>2 DEF Reader, Reconcile
      <3>2. Effect(e) /\ snap[e] \in Snapshots
        BY <1>1, <3>1 DEF Inductive
      <3>3. CASE Goto(r, "idle")
        <4>1. OthersKeep(r) /\ op'[r].pc = "idle"
          BY <1>1, <3>3, Moved DEF Pcs
        <4> QED
          BY <4>1 DEF Reader, Writing
      <3>4. CASE /\ <<snap[e].state, to>> \in ValidTransition
                 /\ Persist(r, e, [snap[e] EXCEPT !.state = to], "idle")
        <4> DEFINE new == [snap[e] EXCEPT !.state = to]
        <4> HIDE DEF e, to
        <4>1. to \in States
          BY <3>1 DEF States
        <4>2. snap[e].state \in Past
          BY <3>1, <3>2, <3>4 DEF ValidTransition, Past, Effect
        <4>3. ~snap[e].ids
          BY <3>2, <4>2 DEF Effect, Past
        <4>4. new \in Snapshots /\ new.state = to /\ ~new.ids
          BY <3>2, <4>1, <4>3, WithState
        <4> HIDE DEF new
        <4>5. /\ OthersKeep(r) /\ op'[r].pc = "append" /\ op'[r].eff = e /\ op'[r].new = new /\ op'[r].next = "idle"
          BY <1>1, <3>1, <3>4, <4>4, Persisted DEF Pcs, new
        <4> QED
          BY <1>2, <3>1, <3>2, <4>2, <4>4, <4>5 DEF Reader, Effect, Asked, Past
      <3> QED
        BY <2>2, <3>3, <3>4 DEF Reconcile, Transition
    <2> QED
      BY <2>1, <2>2 DEF ReaderStep
  <1>4. Local(r)' /\ ~Holding(r)'
    BY <1>3, Cast DEF Local, Holding
  <1>5. TypeOK'
    <2>1. readbacks' = readbacks \/ (readbacks < MaxReadback /\ readbacks' = readbacks + 1)
      BY DEF ReaderStep, StartReconcile, Reconcile
    <2>2. readbacks' \in 0 .. MaxReadback
      BY <1>1, <2>1, BoundsAssumption, SMTT(30) DEF TypeOK
    <2> QED
      BY <1>1, <1>3, <2>2 DEF TypeOK, OthersKeep, ReaderStep, StartReconcile, Reconcile, files, history
  <1>6. Held'
    BY <1>1, <1>2, <1>3, <1>4, HeldKeeps
  <1> QED
    BY <1>1, <1>2, <1>3, <1>4, <1>5, <1>6, Served

---------------------------------------------------------------------------
(* The two writes of a transition, and crashes *)

LEMMA AppendSafe ==
    ASSUME Inductive, NEW a \in Actors, AppendTransition(a)
    PROVE  Inductive'
  <1>1. TypeOK /\ op \in [Actors -> Ops] /\ op[a] \in Ops /\ op[a].pc = "append" /\ op[a].eff \in Effects
    BY DEF Inductive, TypeOK, Ops, AppendTransition
  <1>2. UNCHANGED <<snap, indexed, item, child, notice, due, guard, accepts, decided, told, resubmits,
                    crashes, readbacks>>
    BY DEF AppendTransition, history
  <1>3. /\ OthersKeep(a) /\ op'[a].pc = "install" /\ op'[a].eff = op[a].eff /\ op'[a].old = op[a].old
        /\ op'[a].new = op[a].new /\ op'[a].next = op[a].next /\ op'[a].dec = op[a].dec
    BY <1>1, Moved DEF AppendTransition, Pcs
  <1>4. Local(a)'
    <2>1. Writing(a) /\ Writing(a)'
      BY <1>1, <1>3 DEF Writing
    <2>2. InTime(a) => InTime(a)'
      BY <1>2, <1>3 DEF InTime
    <2>3. Deciding(a) => Deciding(a)'
      BY <1>2, <1>3, <2>2 DEF Deciding
    <2>4. Runner(a) => Runner(a)'
      BY <1>2, <1>3, <2>1, <2>2 DEF Runner
    <2>5. Resolver(a) => Resolver(a)'
      BY <1>2, <1>3, <2>1, <2>3 DEF Resolver
    <2>6. Sweeper(a) => Sweeper(a)'
      BY <1>2, <1>3, <2>1, <2>3 DEF Sweeper
    <2>7. Fencer(a) => Fencer(a)'
      BY <1>2, <1>3, <2>1 DEF Fencer
    <2>8. Reader(a) => Reader(a)'
      BY <1>2, <1>3, <2>1 DEF Reader
    <2> QED
      BY <2>4, <2>5, <2>6, <2>7, <2>8 DEF Inductive, Local
  <1>5. TypeOK'
    <2>1. CASE op[a].new.state \in States /\ op[a].old \in States \cup {"absent"}
      <3>1. log' \in [Effects -> SUBSET ((States \cup {"absent"}) \X States)]
        BY <1>1, <2>1, SMTT(30) DEF TypeOK, AppendTransition
      <3> QED
        BY <1>1, <1>2, <1>3, <3>1 DEF TypeOK, OthersKeep
    <2>2. op[a].new.state \in States
      <3>1. Writing(a)
        BY <1>1 DEF Writing
      <3>2. a \in Effects \cup Resolvers \cup Sweepers \cup Fencers \cup Readers /\ Local(a)
        BY DEF Actors, Inductive
      <3> QED
        BY <3>1, <3>2 DEF Local, Runner, Resolver, Sweeper, Fencer, Reader, Verdict, States
    <2>3. op[a].old \in States \cup {"absent"}
      BY <1>1 DEF Ops
    <2> QED
      BY <2>1, <2>2, <2>3
  <1>6. Holding(a)' => Holding(a)
    BY <1>1, <1>3 DEF Holding
  <1>7. Submittable(a)' + Answering(a)' <= Submittable(a) + Answering(a)
    BY <1>1, <1>2, <1>3, SMTT(30) DEF Submittable, Answering, Writing
  <1> QED
    BY <1>2, <1>3, <1>4, <1>5, <1>6, <1>7, Calm

LEMMA CrashSafe ==
    ASSUME Inductive, NEW p \in Processes, Crash(p)
    PROVE  Inductive'
  <1>1. TypeOK /\ op \in [Actors -> Ops] /\ guard \in [Processes -> Guarded \cup {NoOne}]
    BY DEF Inductive, TypeOK
  <1>2. UNCHANGED <<snap, log, indexed, child, notice, due, accepts, decided, told, resubmits, readbacks>>
    BY DEF Crash, history
  <1>3. /\ op' \in [Actors -> Ops]
        /\ \A a \in Actors : op'[a] = op[a] \/ op'[a] = Resting(a)
        /\ \A a \in Actors : Proc[a] = p => op'[a] = Resting(a)
    BY <1>1, RestingType DEF Crash
  <1>4. TypeOK'
    <2>1. crashes' \in 0 .. MaxCrashes
      BY <1>1, BoundsAssumption, SMTT(30) DEF Crash, TypeOK
    <2>2. item' \in [Effects -> {"ready", "running", "parked", "terminal"}]
      BY <1>1 DEF Crash, TypeOK
    <2>3. guard' \in [Processes -> Guarded \cup {NoOne}]
      BY <1>1 DEF Crash
    <2> QED
      BY <1>1, <1>2, <1>3, <2>1, <2>2, <2>3 DEF TypeOK
  <1>5. ASSUME NEW a \in Actors PROVE Local(a)'
    <2>1. CASE op'[a] = op[a]
      BY <1>2, <2>1, LocalKeeps DEF Inductive
    <2>2. CASE op'[a] = Resting(a)
      <3>1. op'[a].pc = "idle" /\ (a \in Effects => op'[a].eff = a)
        BY <2>2, SMTT(30) DEF Resting
      <3> QED
        BY <3>1 DEF Local, Runner, Resolver, Sweeper, Fencer, Reader, Writing
    <2> QED
      BY <1>3, <2>1, <2>2
  <1>6. Held'
    <2> SUFFICES ASSUME NEW a \in Actors, Holding(a)' PROVE guard'[Proc[a]] = a
      BY DEF Held
    <2>1. op'[a] # Resting(a)
      BY RestingType DEF Holding
    <2>2. op'[a] = op[a] /\ Proc[a] # p /\ Proc[a] \in Processes
      BY <1>3, <2>1, ProcAssumption
    <2>3. Holding(a)
      BY <2>2 DEF Holding
    <2> QED
      BY <1>1, <2>2, <2>3 DEF Crash, Inductive, Held
  <1>7. ASSUME NEW e \in Effects PROVE Effect(e)'
    <2>1. op'[e] = op[e] \/ op'[e].pc = "idle"
      BY <1>3, Cast, RestingType
    <2>2. Submittable(e)' <= Submittable(e) /\ Answering(e)' <= Answering(e)
      BY <1>2, <2>1, SMTT(30) DEF Submittable, Answering, Writing
    <2>3. Submittable(e)' + Answering(e)' <= Submittable(e) + Answering(e)
      BY <2>2, SMTT(30) DEF Submittable, Answering
    <2> QED
      BY <1>1, <1>2, <2>3, EffectKeeps DEF Inductive
  <1> QED
    BY <1>4, <1>5, <1>6, <1>7 DEF Inductive

---------------------------------------------------------------------------
(* A snapshot is installed *)

\* what a writer can do to the snapshot it has read some steps before
Write(a) ==
    LET e == op[a].eff
        n == op[a].new.state
        was == snap[e].state
    IN /\ n \in States /\ op[a].next \notin {"append", "install"}
       /\ op[a].new.ids => n = "denied"
       /\ was \in Asked => a = e
       /\ n = "submitted" => a = e
       /\ n = "requested" => was = "absent"
       /\ n = "approval-required" => was = "requested"
       /\ n = "approved" => \/ a \in Readers
                            \/ a \in Resolvers /\ (OneDesk => "approve" \notin decided[e])
       /\ n \in Past => "approve" \in decided[e] \cup Decision(a)
       /\ Decision(a) # {} => /\ a \in Guarded /\ n \in {"approved", "denied"}
                              /\ OneHouse => decided[e] = {}
                              /\ \E d \in {"approve", "deny", "expire"} : Decision(a) = {d}
       /\ "approve" \in Decision(a) => a \in Resolvers
       /\ Unfenced => /\ was # "denied"
                      /\ was \in Past => n \in Past
                      /\ was = "approval-required" => a \in Guarded

LEMMA WriterKnown ==
    ASSUME Inductive, NEW a \in Actors, Writing(a)
    PROVE  Write(a)
  <1>1. Local(a) /\ a \in Effects \cup Resolvers \cup Sweepers \cup Fencers \cup Readers
    BY DEF Inductive, Actors
  <1>2. CASE a \in Effects
    <2>1. Runner(a) /\ a \notin Resolvers /\ Decision(a) = {}
      BY <1>1, <1>2, Cast DEF Local, Decision, Runner
    <2> QED
      BY <2>1 DEF Runner, Write, States, Asked, Past
  <1>3. CASE a \in Resolvers
    <2>1. Resolver(a) /\ Deciding(a)
      BY <1>1, <1>3, Cast DEF Local, Resolver
    <2>2. op[a].dec \in {"approve", "deny", "none"}
      BY DEF Inductive, TypeOK, Ops, Decisions
    <2>3. a \in Guarded /\ a # op[a].eff
      BY <1>3, Cast DEF Guarded, Inductive, TypeOK, Ops
    <2>4. CASE op[a].new.ids
      BY <2>1, <2>3, <2>4 DEF Resolver, Deciding, Write, Decision, States, Asked, Past, Verdict
    <2>5. CASE ~op[a].new.ids
      BY <1>3, <2>1, <2>2, <2>3, <2>5 DEF Resolver, Deciding, Write, Decision, States, Asked, Past, Verdict
    <2> QED
      BY <2>4, <2>5
  <1>4. CASE a \in Sweepers
    BY <1>1, <1>4, Cast DEF Local, Sweeper, Deciding, Write, Decision, States, Asked, Past, Guarded
  <1>5. CASE a \in Fencers
    <2>1. ~Unfenced /\ Decision(a) = {} /\ Fencer(a)
      BY <1>1, <1>5, Cast DEF Unfenced, Decision, Local, Fencer
    <2> QED
      BY <1>5, <2>1 DEF Fencer, Write, States, Asked, Past
  <1>6. CASE a \in Readers
    <2>1. Decision(a) = {} /\ Reader(a)
      BY <1>1, <1>6, Cast DEF Decision, Local, Reader
    <2> QED
      BY <1>6, <2>1 DEF Reader, Write, States, Asked, Past
  <1> QED
    BY <1>1, <1>2, <1>3, <1>4, <1>5, <1>6

\* what installing it changes
LEMMA Installed ==
    ASSUME Inductive, NEW a \in Actors, InstallSnapshot(a)
    PROVE  /\ op[a].eff \in Effects /\ Writing(a) /\ Write(a) /\ OthersKeep(a)
           /\ op'[a].pc = op[a].next /\ op'[a].eff = op[a].eff /\ op'[a].dec = op[a].dec
           /\ snap'[op[a].eff] = op[a].new /\ decided'[op[a].eff] = decided[op[a].eff] \cup Decision(a)
           /\ \A x \in Effects \ {op[a].eff} :
                 snap'[x] = snap[x] /\ decided'[x] = decided[x] /\ resubmits'[x] = resubmits[x]
           /\ UNCHANGED <<log, indexed, item, child, notice, due, guard, accepts, told, crashes, readbacks>>
  <1> DEFINE r == [op[a] EXCEPT !.pc = op[a].next, !.old = "absent", !.new = NoSnap, !.next = "idle"]
  <1>1. /\ TypeOK /\ op \in [Actors -> Ops] /\ op[a] \in Ops /\ op[a].eff \in Effects /\ Writing(a)
        /\ snap \in [Effects -> Snapshots] /\ DOMAIN decided = Effects /\ DOMAIN resubmits = Effects
    BY DEF Inductive, TypeOK, Ops, InstallSnapshot, Writing
  <1>2. r \in Ops /\ r.pc = op[a].next /\ r.eff = op[a].eff /\ r.dec = op[a].dec
    BY <1>1, NoSnapType DEF Ops, Pcs
  <1>3. op' = [op EXCEPT ![a] = r]
    BY DEF InstallSnapshot
  <1> HIDE DEF r
  <1>4. OthersKeep(a) /\ op'[a] = r
    BY <1>1, <1>2, <1>3, Updated
  <1>5. Write(a)
    BY <1>1, WriterKnown
  <1>6. /\ snap'[op[a].eff] = op[a].new /\ decided'[op[a].eff] = decided[op[a].eff] \cup Decision(a)
        /\ \A x \in Effects \ {op[a].eff} :
              snap'[x] = snap[x] /\ decided'[x] = decided[x] /\ resubmits'[x] = resubmits[x]
    BY <1>1 DEF InstallSnapshot, TypeOK
  <1>7. UNCHANGED <<log, indexed, item, child, notice, due, guard, accepts, told, crashes, readbacks>>
    BY DEF InstallSnapshot
  <1> QED
    BY <1>1, <1>2, <1>4, <1>5, <1>6, <1>7

\* under one lock, whoever is writing a decision is the only one
LEMMA OneDecides ==
    ASSUME Inductive, NEW a \in Actors, NEW b \in Actors, Writing(a), Writing(b)
    PROVE  /\ OneHouse /\ a \in Guarded /\ b \in Guarded => a = b
           /\ OneDesk /\ a \in Resolvers /\ b \in Resolvers => a = b
  <1>1. a \in Guarded => guard[Proc[a]] = a
    BY DEF Inductive, Held, Holding, Writing, Guarded
  <1>2. b \in Guarded => guard[Proc[b]] = b
    BY DEF Inductive, Held, Holding, Writing, Guarded
  <1>3. OneHouse /\ a \in Guarded /\ b \in Guarded => a = b
    BY <1>1, <1>2 DEF OneHouse
  <1>4. OneDesk /\ a \in Resolvers /\ b \in Resolvers => a = b
    BY <1>1, <1>2 DEF OneDesk, Guarded
  <1> QED
    BY <1>3, <1>4

\* where nobody fences or reads back there is one writer at a time
LEMMA OneWrites ==
    ASSUME Inductive, Alone, NEW a \in Actors, NEW b \in Actors, Writing(a), Writing(b), op[a].eff = op[b].eff
    PROVE  a = b
  <1>1. /\ a \in Effects \cup Guarded /\ b \in Effects \cup Guarded /\ Local(a) /\ Local(b) /\ OneHouse /\ Unfenced
    BY DEF Alone, Unfenced, Actors, Guarded, Inductive
  <1>2. \A x \in {a, b} : x \in Effects => x = op[x].eff /\ snap[op[x].eff].state # "approval-required"
    BY <1>1 DEF Local, Runner, Past
  <1>3. \A x \in {a, b} : x \in Guarded => snap[op[x].eff].state = "approval-required"
    BY <1>1 DEF Guarded, Local, Resolver, Sweeper, Deciding
  <1> QED
    BY <1>1, <1>2, <1>3, OneDecides, SMTT(30)

\* the others bear a write of somebody else
LEMMA OthersBear ==
    ASSUME Inductive, NEW a \in Actors, InstallSnapshot(a), NEW b \in Actors, b # a
    PROVE  Local(b)'
  <1> DEFINE e == op[a].eff
             n == op[a].new.state
  <1>1. /\ Local(b) /\ op'[b] = op[b] /\ e \in Effects /\ Writing(a) /\ Write(a) /\ op[b].eff \in Effects
        /\ snap'[e] = op[a].new /\ decided'[e] = decided[e] \cup Decision(a)
        /\ \A x \in Effects \ {e} : snap'[x] = snap[x] /\ decided'[x] = decided[x]
    BY Installed, SMTT(30) DEF Inductive, OthersKeep, TypeOK, Ops
  <1>2. CASE op[b].eff # e
    <2>1. snap'[op[b].eff] = snap[op[b].eff] /\ decided'[op[b].eff] = decided[op[b].eff]
      BY <1>1, <1>2
    <2>2. Runner(b) => Runner(b)'
      BY <1>1, <2>1 DEF Runner, Writing, InTime
    <2>3. Deciding(b) => Deciding(b)'
      BY <1>1, <2>1 DEF Deciding, InTime
    <2>4. Resolver(b) => Resolver(b)'
      BY <1>1, <2>1, <2>3 DEF Resolver, Writing
    <2>5. Sweeper(b) => Sweeper(b)'
      BY <1>1, <2>3 DEF Sweeper, Writing
    <2>6. Fencer(b) => Fencer(b)'
      BY <1>1, <2>1 DEF Fencer, Writing
    <2>7. Reader(b) => Reader(b)'
      BY <1>1, <2>1 DEF Reader, Writing
    <2> QED
      BY <1>1, <2>2, <2>4, <2>5, <2>6, <2>7 DEF Local
  <1>3. CASE op[b].eff = e
    <2> DEFINE was == snap[e].state
    <2>1. Writing(b) <=> Writing(b)'
      BY <1>1 DEF Writing
    <2>2. Writing(b) => ~Alone
      BY <1>1, <1>3, OneWrites
    <2>3. was \notin Asked => n \notin Asked
      BY <1>1 DEF Write, Asked, States
    <2>4. decided[e] \subseteq decided'[e] /\ snap'[e].state = n
      BY <1>1
    <2>5. Unfenced => was # "denied" /\ (was \in Past => n \in Past)
      BY <1>1 DEF Write
    <2>6. n = "submitted" \/ was \in Asked => a = e
      BY <1>1 DEF Write
    <2>7. b \in Guarded /\ Writing(b) =>
             /\ OneHouse => decided'[e] = decided[e]
             /\ Unfenced => was # "approval-required"
      BY <1>1, OneDecides DEF Write, Unfenced
    <2>8. b \in Resolvers /\ Writing(b) /\ OneDesk => ("approve" \in decided'[e] => "approve" \in decided[e])
      BY <1>1, OneDecides DEF Write
    <2> HIDE DEF e, n, was
    <2>9. b \in Effects => Runner(b)'
      BY <1>1, <1>3, <2>1, <2>2, <2>4, <2>5, <2>6 DEF Local, Runner, Asked, was
    <2>10. b \in Guarded /\ Writing(b) /\ Deciding(b) => Deciding(b)'
      BY <1>1, <1>3, <2>2, <2>3, <2>4, <2>7 DEF Deciding, was
    <2>11. b \in Resolvers => Resolver(b)'
      BY <1>1, <1>3, <2>1, <2>4, <2>5, <2>8, <2>10 DEF Local, Resolver, Guarded, was
    <2>12. b \in Sweepers => Sweeper(b)'
      BY <1>1, <2>1, <2>10 DEF Local, Sweeper, Guarded
    <2>13. b \in Fencers => Fencer(b)'
      BY <1>1, <1>3, <2>1, <2>3, <2>4 DEF Local, Fencer, was
    <2>14. b \in Readers => Reader(b)'
      BY <1>1, <1>3, <2>1, <2>3, <2>4, <2>5 DEF Local, Reader, was
    <2> QED
      BY <2>9, <2>11, <2>12, <2>13, <2>14 DEF Local
  <1> QED
    BY <1>2, <1>3

\* and the writer goes on from what it has written
LEMMA WriterGoesOn ==
    ASSUME Inductive, NEW a \in Actors, InstallSnapshot(a)
    PROVE  Local(a)'
  <1>1. /\ Local(a) /\ op[a].eff \in Effects /\ Writing(a) /\ Write(a)
        /\ op'[a].pc = op[a].next /\ op'[a].eff = op[a].eff /\ op'[a].dec = op[a].dec
        /\ snap'[op[a].eff] = op[a].new /\ decided'[op[a].eff] = decided[op[a].eff] \cup Decision(a)
    BY Installed DEF Inductive
  <1>2. ~Writing(a)'
    BY <1>1 DEF Write, Writing
  <1>3. a \in Effects => Runner(a)'
    BY <1>1, <1>2 DEF Local, Runner, Past
  <1>4. a \in Resolvers => Resolver(a)'
    BY <1>1, <1>2 DEF Local, Resolver, Verdict
  <1>5. a \in Sweepers => Sweeper(a)'
    BY <1>2 DEF Sweeper
  <1>6. a \in Fencers => Fencer(a)'
    BY <1>2 DEF Fencer
  <1>7. a \in Readers => Reader(a)'
    BY <1>1, <1>2 DEF Local, Reader
  <1> QED
    BY <1>3, <1>4, <1>5, <1>6, <1>7 DEF Local

\* a write never leaves more to accept than was approved or proved absent
LEMMA BudgetKept ==
    ASSUME Inductive, NEW a \in Actors, InstallSnapshot(a), OneDesk, NEW e, e = op[a].eff
    PROVE  accepts[e] + Submittable(e)' + Answering(e)' <= 1 + resubmits'[e]
  <1> DEFINE n == op[a].new.state
  <1>1. /\ e \in Effects /\ e \in Actors /\ Writing(a) /\ Write(a) /\ OthersKeep(a) /\ op'[a].pc = op[a].next
        /\ snap'[e] = op[a].new /\ Effect(e) /\ Runner(e) /\ accepts[e] \in Nat /\ resubmits[e] \in Nat
    BY Installed, Cast DEF Inductive, Local, TypeOK
  <1>2. accepts[e] + Submittable(e) + Answering(e) <= 1 + resubmits[e]
    BY <1>1 DEF Effect
  <1>3. resubmits'[e] = IF a \in Readers /\ n = "approved" THEN resubmits[e] + 1 ELSE resubmits[e]
    BY <1>1 DEF InstallSnapshot, Inductive, TypeOK
  <1>4. accepts[e] \in Nat /\ resubmits[e] \in Nat
    BY <1>1
  <1>5. CASE a = e
    <2>1. a \notin Readers /\ resubmits'[e] = resubmits[e] /\ n # "approved"
      BY <1>1, <1>3, <1>5, Cast DEF Runner
    <2>2. ~Writing(e)' /\ op'[e].pc = op[e].next /\ op[e].pc # "accept"
      BY <1>1, <1>5 DEF Write, Writing
    <2>3. op[e].next = "accept" => n = "submitted"
      BY <1>1, <1>5 DEF Runner
    <2>4. Submittable(e)' = 0 /\ Answering(e) = 0
      BY <1>1, <2>1, <2>2 DEF Submittable, Answering
    <2>5. Answering(e)' <= Submittable(e)
      <3>1. CASE op[e].next = "accept"
        <4>1. Writing(e) /\ op[e].new.state = "submitted"
          BY <1>1, <1>5, <2>3, <3>1
        <4> QED
          BY <4>1, SMTT(30) DEF Submittable, Answering
      <3>2. CASE op[e].next # "accept"
        BY <2>2, <3>2, SMTT(30) DEF Submittable, Answering
      <3> QED
        BY <3>1, <3>2
    <2> QED
      BY <1>4, <1>2, <2>1, <2>4, <2>5, SMTT(30) DEF Answering, Submittable
  <1>6. CASE a # e
    <2>1. op'[e] = op[e]
      BY <1>1, <1>6 DEF OthersKeep
    <2>2. Answering(e)' = Answering(e) /\ Answering(e) \in {0, 1} /\ Submittable(e) \in {0, 1} /\ Submittable(e)' \in {0, 1}
      BY <2>1 DEF Answering, Submittable
    <2>3. CASE n # "approved"
      <3>0. resubmits'[e] = resubmits[e]
        BY <1>3, <2>3
      <3>1. Submittable(e)' <= Submittable(e)
        BY <1>1, <2>1, <2>3, SMTT(30) DEF Submittable, Writing
      <3> QED
        BY <1>4, <1>2, <2>2, <3>0, <3>1, SMTT(30)
    <2>4. CASE n = "approved" /\ a \in Readers
      <3>1. resubmits'[e] = resubmits[e] + 1
        BY <1>3, <2>4
      <3> QED
        BY <1>4, <1>2, <2>2, <3>1, SMTT(30)
    <2>5. CASE n = "approved" /\ a \notin Readers
      <3>0. resubmits'[e] = resubmits[e]
        BY <1>3, <2>5
      <3>1. "approve" \notin decided[e]
        BY <1>1, <2>5 DEF Write
      <3>2. accepts[e] = 0
        BY <1>1, <3>1, SMTT(30) DEF Effect
      <3>3. Answering(e) = 0
        BY <1>1, <3>1 DEF Runner, Answering
      <3> QED
        BY <1>4, <2>2, <3>0, <3>2, <3>3, SMTT(30)
    <2> QED
      BY <2>3, <2>4, <2>5
  <1> QED
    BY <1>5, <1>6

LEMMA InstallSafe ==
    ASSUME Inductive, NEW a \in Actors, InstallSnapshot(a)
    PROVE  Inductive'
  <1>0. PICK e \in Effects : e = op[a].eff
    BY Installed
  <1>1. /\ TypeOK /\ e \in Effects /\ Writing(a) /\ Write(a) /\ OthersKeep(a) /\ op[a].new \in Snapshots
        /\ snap'[e] = op[a].new /\ decided'[e] = decided[e] \cup Decision(a) /\ op'[a].pc = op[a].next
        /\ \A x \in Effects \ {e} : snap'[x] = snap[x] /\ decided'[x] = decided[x] /\ resubmits'[x] = resubmits[x]
        /\ UNCHANGED <<log, indexed, item, child, notice, due, guard, accepts, told, crashes, readbacks>>
    BY <1>0, Installed DEF Inductive, TypeOK, Ops
  <1>2. TypeOK'
    <2>1. Decision(a) \subseteq {"approve", "deny", "expire"}
      BY <1>0, <1>1 DEF Write
    <2>2. decided' \in [Effects -> SUBSET {"approve", "deny", "expire"}] /\ snap' \in [Effects -> Snapshots]
      BY <1>1, <2>1 DEF InstallSnapshot, TypeOK
    <2>3. resubmits' \in [Effects -> Nat]
      <3> DEFINE k == IF a \in Readers /\ op[a].new.state = "approved" THEN resubmits[e] + 1 ELSE resubmits[e]
      <3>1. resubmits' = [resubmits EXCEPT ![e] = k]
        BY <1>0 DEF InstallSnapshot
      <3>2. k \in Nat /\ resubmits \in [Effects -> Nat]
        BY <1>1, SMTT(30) DEF TypeOK
      <3> HIDE DEF k
      <3> QED
        BY <3>1, <3>2
    <2> QED
      BY <1>1, <2>2, <2>3 DEF TypeOK, OthersKeep
  <1>3. \A b \in Actors : Local(b)'
    BY OthersBear, WriterGoesOn
  <1>4. Held'
    <2>1. Holding(a)' => Holding(a)
      BY <1>1 DEF Holding, Writing
    <2> QED
      BY <1>1, <2>1, HeldKeeps
  <1>5. ASSUME NEW x \in Effects, x # e PROVE Effect(x)'
    <2>1. x # a
      BY <1>0, <1>5, Cast DEF Inductive, Local, Runner
    <2>2. op'[x] = op[x] /\ snap'[x] = snap[x] /\ decided'[x] = decided[x] /\ resubmits'[x] = resubmits[x]
      BY <1>1, <1>5, <2>1, Cast DEF OthersKeep
    <2>3. Submittable(x)' = Submittable(x) /\ Answering(x)' = Answering(x)
      BY <2>2 DEF Submittable, Answering, Writing
    <2>4. accepts' = accepts /\ notice' = notice /\ told' = told
      BY <1>1
    <2> QED
      BY <2>2, <2>3, <2>4 DEF Inductive, Effect
  <1>6. Effect(e)'
    <2>1. Effect(e)
      BY <1>1 DEF Inductive
    <2>2. snap'[e].ids => snap'[e].state = "denied"
      BY <1>0, <1>1 DEF Write
    <2>3. snap'[e].state \in Past \/ accepts[e] > 0 => "approve" \in decided'[e]
      BY <1>0, <1>1, <2>1 DEF Write, Effect
    <2>4. decided'[e] # {} => snap'[e].state \notin Asked \cup {"approval-required"}
      BY <1>0, <1>1, <2>1 DEF Write, Effect, Asked, States
    <2>5. OneHouse => \A c, d \in decided'[e] : c = d
      BY <1>0, <1>1, <2>1 DEF Write, Effect
    <2>6. Unfenced => /\ accepts[e] > 0 => snap'[e].state \in Past
                      /\ e \in notice \cup told => snap'[e].state = "denied"
      BY <1>0, <1>1, <2>1 DEF Write, Effect
    <2>7. OneDesk => accepts[e] + Submittable(e)' + Answering(e)' <= 1 + resubmits'[e]
      BY <1>0, BudgetKept
    <2>8. accepts' = accepts /\ notice' = notice /\ told' = told
      BY <1>1
    <2> QED
      BY <2>2, <2>3, <2>4, <2>5, <2>6, <2>7, <2>8 DEF Effect
  <1> QED
    BY <1>2, <1>3, <1>4, <1>5, <1>6 DEF Inductive

---------------------------------------------------------------------------
(* The theorems *)

LEMMA Starts == Init => Inductive
  <1> SUFFICES ASSUME Init PROVE Inductive
    OBVIOUS
  <1>1. op \in [Actors -> Ops] /\ \A a \in Actors : op[a] = Resting(a) /\ op[a].pc = "idle"
    BY RestingType DEF Init
  <1>2. TypeOK
    BY <1>1, NoSnapType, BoundsAssumption, SMTT(30) DEF Init, TypeOK
  <1>3. \A a \in Actors : Local(a)
    <2>1. \A a \in Actors : a \in Effects => op[a].eff = a
      BY <1>1, SMTT(30) DEF Resting
    <2> QED
      BY <1>1, <2>1 DEF Local, Runner, Resolver, Sweeper, Fencer, Reader, Writing
  <1>4. Held
    BY <1>1 DEF Held, Holding
  <1>5. ASSUME NEW e \in Effects PROVE Effect(e)
    <2>1. op[e].pc = "idle"
      BY <1>1, Cast
    <2>2. snap[e] = NoSnap /\ decided[e] = {} /\ accepts[e] = 0 /\ resubmits[e] = 0 /\ notice = {} /\ told = {}
      BY DEF Init
    <2>3. snap[e].state = "absent" /\ ~snap[e].ids
      BY <2>2, NoSnapType
    <2>4. Submittable(e) = 0 /\ Answering(e) = 0
      BY <2>1, <2>3 DEF Submittable, Answering, Writing
    <2> QED
      BY <2>2, <2>3, <2>4, SMTT(30) DEF Effect, Past
  <1> QED
    BY <1>2, <1>3, <1>4, <1>5 DEF Inductive

LEMMA Steps == Inductive /\ [Next]_vars => Inductive'
  <1> SUFFICES ASSUME Inductive, [Next]_vars PROVE Inductive'
    OBVIOUS
  <1>1. CASE Writes
    BY <1>1, AppendSafe, InstallSafe DEF Writes
  <1>2. CASE \E e \in Effects : RunnerStep(e) \/ RunContinuation(e) \/ TokenRunsOut(e)
    BY <1>2, RunnerSafe
  <1>3. CASE \E u \in Resolvers : ResolverStep(u)
    BY <1>3, ResolveSafe, AnswerSafe, ContinueSafe DEF ResolverStep
  <1>4. CASE \E u \in Resolvers, e \in Effects, d \in {"approve", "deny"} : StartResolve(u, e, d)
    BY <1>4, StartResolveSafe
  <1>5. CASE \E s \in Sweepers : SweeperStep(s)
    BY <1>5, StartSweepSafe, EndSweepSafe, SweepOneSafe, SettleSafe, SettledSafe DEF SweeperStep
  <1>6. CASE \E f \in Fencers : FencerStep(f)
    BY <1>6, FencerSafe
  <1>7. CASE \E r \in Readers : ReaderStep(r)
    BY <1>7, ReaderSafe
  <1>8. CASE \E p \in Processes : Crash(p)
    BY <1>8, CrashSafe
  <1>9. CASE UNCHANGED vars
    <2>1. UNCHANGED <<op, snap, decided, accepts, resubmits, notice, told, guard>> /\ TypeOK'
      BY <1>9 DEF vars, files, history, Inductive, TypeOK
    <2> QED
      BY <2>1, Still
  <1> QED
    BY <1>1, <1>2, <1>3, <1>4, <1>5, <1>6, <1>7, <1>8, <1>9 DEF Next

LEMMA Invariance == Spec => []Inductive
  BY Starts, Steps, PTL DEF Spec

\* The snapshots, indexes, receipts and calls keep their types.
THEOREM TypeCorrect == Spec => []TypeOK
  <1>1. Inductive => TypeOK
    BY DEF Inductive
  <1> QED
    BY <1>1, Invariance, PTL

\* No connector action is accepted that a user has not approved, however the
\* actors are spread over processes and whatever of theirs is stale, fenced,
\* expired, read back or cut short (begin_external_effect_request,
\* transition_external_effect).
THEOREM AcceptsAreApproved == Spec => []AcceptNeedsApproval
  <1>1. Inductive => AcceptNeedsApproval
    BY DEF Inductive, Effect, AcceptNeedsApproval
  <1> QED
    BY <1>1, Invariance, PTL

\* As long as one process serves the users' decisions, an action is accepted
\* once, and once more for each readback that proved it absent.
THEOREM AcceptsAreSingle ==
    ASSUME OneDesk
    PROVE  Spec => []AcceptedOnce
  <1>1. Inductive => AcceptedOnce
    <2> SUFFICES ASSUME Inductive, NEW e \in Effects PROVE accepts[e] <= 1 + resubmits[e]
      BY DEF AcceptedOnce
    <2>1. accepts[e] \in Nat /\ resubmits[e] \in Nat /\ Submittable(e) \in {0, 1} /\ Answering(e) \in {0, 1}
      BY DEF Inductive, TypeOK, Submittable, Answering
    <2>2. accepts[e] + Submittable(e) + Answering(e) <= 1 + resubmits[e]
      BY DEF Inductive, Effect
    <2> QED
      BY <2>1, <2>2, SMTT(30)
  <1> QED
    BY <1>1, Invariance, PTL

\* As long as decisions and expiry sweeps share one APPROVAL_RESOLUTION_LOCK,
\* one of approve, deny and expire wins, whatever fences and readbacks do.
THEOREM OneDecisionWins ==
    ASSUME OneHouse
    PROVE  Spec => []OneTerminalWinner
  <1>1. Inductive => OneTerminalWinner
    <2> SUFFICES ASSUME Inductive, NEW e \in Effects PROVE Cardinality(decided[e]) <= 1
      BY DEF OneTerminalWinner
    <2>1. \A c, d \in decided[e] : c = d
      BY DEF Inductive, Effect
    <2>2. CASE decided[e] = {}
      BY <2>2, FS_EmptySet, SMTT(30)
    <2>3. CASE decided[e] # {}
      <3>1. PICK d : d \in decided[e]
        BY <2>3
      <3>2. decided[e] = {d}
        BY <2>1, <3>1
      <3>3. Cardinality({d}) = 1
        BY FS_Singleton
      <3> QED
        BY <3>2, <3>3, SMTT(30)
    <2> QED
      BY <2>2, <2>3
  <1> QED
    BY <1>1, Invariance, PTL

\* As long as they share that lock and no lane is fenced, whoever is told that
\* an action was denied is told the truth, readbacks or not.
THEOREM DenialsAreTrue ==
    ASSUME Unfenced
    PROVE  Spec => []DenialIsTrue
  <1>1. Inductive => DenialIsTrue
    <2> SUFFICES ASSUME Inductive, NEW e \in notice \cup told PROVE accepts[e] = 0
      BY DEF DenialIsTrue
    <2>1. e \in Effects /\ accepts[e] \in Nat /\ Effect(e)
      BY DEF Inductive, TypeOK
    <2> QED
      BY <2>1, SMTT(30) DEF Effect, Past
  <1> QED
    BY <1>1, Invariance, PTL

\* As long as, besides, nobody reads back, no snapshot is replaced by one that
\* was computed from an older one.
THEOREM SnapshotsAdvance ==
    ASSUME Alone
    PROVE  Spec => SnapshotMonotonic
  <1>1. Inductive /\ [Next]_vars => [\A e \in Effects : snap'[e] # snap[e] =>
                                        <<snap[e].state, snap'[e].state>> \in ValidTransition]_vars
    <2> SUFFICES ASSUME Inductive, Next, NEW x \in Effects, snap'[x] # snap[x]
                 PROVE  <<snap[x].state, snap'[x].state>> \in ValidTransition
      BY DEF vars, files
    <2>1. PICK a \in Actors : InstallSnapshot(a)
      <3>1. snap' # snap
        OBVIOUS
      <3> QED
        BY <3>1 DEF Next, Writes, AppendTransition, RunnerStep, LeaseItem, BeginRequest, AdvanceRequested,
           EnsureIndexes, Submit, Accept, Confirm, FinishTurn, RunContinuation, TokenRunsOut, ResolverStep, Resolve,
           Answer, EnsureContinuation, SkipSource, StartResolve, SweeperStep, StartSweep, EndSweep, SettleReceipt,
           EndSettle, SweepOne, Settle, FencerStep, StartFence, EndFence, FenceOne, ReaderStep, StartReconcile,
           Reconcile, Crash, files
    <2>2. x = op[a].eff /\ snap'[x] = op[a].new /\ Writing(a)
      BY <2>1, Installed
    <2>3. InTime(a)
      <3>1. Local(a) /\ a \in Effects \cup Resolvers \cup Sweepers
        BY DEF Inductive, Actors, Alone, Unfenced
      <3> QED
        BY <2>2, <3>1 DEF Local, Runner, Resolver, Sweeper, Deciding
    <2> QED
      BY <2>2, <2>3 DEF InTime
  <1> QED
    BY <1>1, Invariance, PTL DEF Spec, SnapshotMonotonic
===========================================================================
