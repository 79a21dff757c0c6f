---------------------- MODULE ChannelIngressSessions ----------------------
(***************************************************************************)
(* The lane's session is proven and an update proposes at most one, for    *)
(* any updates of any kinds and any number of faults.  The sessions of a   *)
(* lane form a chain: the first one, and the target of every recorded      *)
(* /new.  All but the last have a recorded /new of their own, so only the  *)
(* last can get a new one, and whatever session the claim of an update was *)
(* made under has one as soon as the update has its target.                *)
(***************************************************************************)
EXTENDS ChannelIngressProofs

USE ZenonT(60)

USE IngressAssumption DEF Msgs, Sessions, NoSession, Procs, Boundaries, Goto, At

(* The lane's session *)

\* the session is the first one or the target of a closed /new
Proven(s) ==
    s = 0 \/ \E i \in Intents : i.id.command = "new" /\ i.frozen = s /\ BoundaryReady(i)

\* the goal boundary of the transition is closed
Shut(id) == \A i \in Intents : i.id = id => BoundaryReady(i)

Unique == \A i, j \in Intents : i.id = j.id => i = j

\* Whatever a process may still write into the state file is proven, and the
\* transition that it is about to close is closed.
Rotation ==
    /\ Unique /\ ActiveIsProven
    /\ \A p \in Procs : Proven(st[p]) /\ (pc[p] = "close" => Shut(tr[p]))
    /\ pc["gateway"] \in {"ack", "cancel", "stops"} /\ ready => Shut(tr["gateway"])

\* what an append adds to a file of records
LEMMA Appended ==
    ASSUME NEW S, NEW s \in Seq(S), NEW e, NEW t, t = Append(s, e)
    PROVE  {t[k] : k \in 1 .. Len(t)} = {s[k] : k \in 1 .. Len(s)} \cup {e}
  <1>1. Len(s) \in Nat /\ Len(t) = Len(s) + 1 /\ t[Len(s) + 1] = e
    BY SMTT(30)
  <1>2. \A k \in 1 .. Len(s) : t[k] = s[k]
    BY SMTT(30)
  <1>3. \A k : k \in 1 .. Len(t) <=> k \in 1 .. Len(s) \/ k = Len(s) + 1
    BY <1>1, SMTT(30)
  <1>4. ASSUME NEW k \in 1 .. Len(t) PROVE t[k] \in {s[n] : n \in 1 .. Len(s)} \cup {e}
    BY <1>1, <1>2, <1>3
  <1>5. ASSUME NEW k \in 1 .. Len(s) PROVE s[k] \in {t[n] : n \in 1 .. Len(t)}
    BY <1>2, <1>3
  <1>6. e \in {t[n] : n \in 1 .. Len(t)}
    BY <1>1, <1>3
  <1> QED
    BY <1>4, <1>5, <1>6

\* a step appends at most one intent, of an identity that had none
LEMMA OneNewIntent ==
    ASSUME Typed, Next
    PROVE  /\ \A i \in Intents' \ Intents : ~Recorded(i.id)
           /\ \A i, j \in Intents' \ Intents : i = j
  <1>1. CASE ~Prepare
    BY <1>1, IntentsKept DEF Intents
  <1>2. CASE Prepare
    <2> DEFINE id == Id(Kind[msg["gateway"]], st["gateway"])
    <2>1. CASE intents' = intents
      BY <2>1, SMTT(30) DEF Intents
    <2>2. CASE intents' # intents
      <3>1. ~Recorded(id) /\ \E i : i.id = id /\ intents' = Append(intents, i)
        BY <1>2, <2>2 DEF Prepare
      <3>2. PICK i : i.id = id /\ intents' = Append(intents, i)
        BY <3>1
      <3>3. Intents' = Intents \cup {i}
        <4>1. intents \in Seq(Intent)
          BY DEF Typed, TypeOK, FilesType
        <4> QED
          BY <3>2, <4>1, Appended, SMTT(30) DEF Intents
      <3> QED
        BY <3>1, <3>2, <3>3, SMTT(30)
    <2> QED
      BY <2>1, <2>2
  <1> QED
    BY <1>1, <1>2

\* completed closures are never taken back
LEMMA ClosedGrows ==
    ASSUME Next
    PROVE  closed \subseteq closed'
  <1>1. ASSUME NEW p \in Procs, Receive(p) \/ Transition(p) PROVE closed' = closed
    BY <1>1 DEF Receive, Admit, Hold, CreateClaim, RecoverClaim, Duplicate, Enqueue, Link, Complete,
                Transition, Ack, Cancel, SiblingStops, Close, WriteState, Commit, files
  <1>2. CASE Boundary
    BY <1>2 DEF Boundary
  <1>3. CASE Poll \/ StoreOffset \/ ReadState \/ Prepare \/ Scan \/ TakeTransition \/ ScanHeld \/ TakeHeld
             \/ Replan \/ RemoveHeld \/ Rest
    BY <1>3 DEF Poll, StoreOffset, ReadState, Prepare, Scan, TakeTransition, ScanHeld, TakeHeld, Replan,
                RemoveHeld, Rest, files
  <1>4. CASE RetrySettle \/ GatewayFails \/ SettleDeferred \/ LoopFails \/ GatewayCrashes \/ LoopCrashes
    BY <1>4, SMTT(30) DEF RetrySettle, GatewayFails, SettleDeferred, LoopFails, GatewayCrashes, LoopCrashes, files
  <1> QED
    BY <1>1, <1>2, <1>3, <1>4 DEF Next, Gateway, Loop

\* what is proven, closed or unique stays so
LEMMA RotationFacts ==
    ASSUME Typed, Rotation, Next
    PROVE  /\ Unique'
           /\ \A s : Proven(s) => s = 0 \/ \E i \in Intents' : i.id.command = "new" /\ i.frozen = s
                                               /\ (i.boundary = "not-applicable" \/ i.id \in closed')
           /\ \A id : Recorded(id) /\ Shut(id) =>
                 \A i \in Intents' : i.id = id => (i.boundary = "not-applicable" \/ i.id \in closed')
  <1>1. Intents \subseteq Intents' /\ closed \subseteq closed'
    BY IntentsGrow, ClosedGrows
  <1>2. Unique'
    BY OneNewIntent DEF Rotation, Unique, Recorded
  <1>3. \A s : Proven(s) => s = 0 \/ \E i \in Intents' : i.id.command = "new" /\ i.frozen = s
                                         /\ (i.boundary = "not-applicable" \/ i.id \in closed')
    BY <1>1 DEF Proven, BoundaryReady
  <1>4. \A id : Recorded(id) /\ Shut(id) =>
           \A i \in Intents' : i.id = id => (i.boundary = "not-applicable" \/ i.id \in closed')
    BY <1>1, OneNewIntent DEF Shut, BoundaryReady
  <1> QED
    BY <1>2, <1>3, <1>4

Closing == {"ack", "cancel", "stops"}

\* a step that brings in no session and no transition of its own
LEMMA KeepRotation ==
    ASSUME Typed, Rotation, Next,
           active' = active \/ \E p \in Procs : active' = st[p],
           \A p \in Procs : st'[p] \in {0, active, st[p]} \/ Proven(st'[p]),
           \A p \in Procs : pc'[p] = "close" =>
               \/ tr'[p] = tr[p] /\ (pc[p] = "close" \/ (p = "gateway" /\ pc[p] = "stops" /\ ready))
               \/ Shut(tr[p])',
           pc'["gateway"] \in Closing /\ ready' =>
               \/ pc["gateway"] \in Closing /\ ready /\ tr'["gateway"] = tr["gateway"]
               \/ Shut(tr["gateway"])'
    PROVE  Rotation'
  <1>1. InHand
    BY DEF Typed
  <1>2. \A p \in Procs : pc'[p] = "close" =>
           (tr'[p] = tr[p] /\ Recorded(tr[p]) /\ Shut(tr[p])) \/ Shut(tr[p])'
    BY <1>1, SMTT(30) DEF Rotation, InHand
  <1>3. pc'["gateway"] \in Closing /\ ready' =>
           \/ tr'["gateway"] = tr["gateway"] /\ Recorded(tr["gateway"]) /\ Shut(tr["gateway"])
           \/ Shut(tr["gateway"])'
    BY <1>1 DEF Rotation, InHand, Closing
  <1>4. Proven(active) /\ \A p \in Procs : Proven(st[p])
    BY DEF Rotation, ActiveIsProven, Proven
  <1>5. ActiveIsProven'
    BY <1>4, RotationFacts, SMTT(30) DEF ActiveIsProven, BoundaryReady
  <1>6. ASSUME NEW p \in Procs
        PROVE  Proven(st[p])'
    <2>1. Proven(st'[p])
      BY <1>4, SMTT(30) DEF Proven
    <2> QED
      BY <2>1, RotationFacts DEF Proven, BoundaryReady
  <1>7. \A p \in Procs : (pc[p] = "close" => Shut(tr[p]))'
    BY <1>2, RotationFacts, SMTT(30) DEF Shut, BoundaryReady
  <1>8. (pc["gateway"] \in Closing /\ ready => Shut(tr["gateway"]))'
    BY <1>3, RotationFacts, SMTT(30) DEF Shut, BoundaryReady, Closing
  <1> QED
    BY <1>5, <1>6, <1>7, <1>8, RotationFacts, SMTT(30) DEF Rotation, Closing

LEMMA RotationStep ==
    ASSUME Typed, Rotation, Next
    PROVE  Rotation'
  <1> FilesType /\ LocalsType /\ Handling /\ InHand
    BY DEF Typed, TypeOK
  <1>s. Shape
    BY LocalsShape
  <1>1. ASSUME NEW p \in Procs, Receive(p) PROVE Rotation'
    <2>1. active' = active
      BY <1>1 DEF Receive, Admit, Hold, CreateClaim, RecoverClaim, Duplicate, Enqueue, Link, Complete,
                       files
    <2>2. \A q \in Procs : st'[q] \in {0, active, st[q]}
      BY <1>1, <1>s DEF Receive, Admit, Hold, CreateClaim, RecoverClaim, Duplicate, Enqueue, Link, Complete,
                       LocalsType, locals
    <2>3. /\ \A q \in Procs : pc'[q] = "close" => pc[q] = "close" /\ tr'[q] = tr[q]
          /\ pc'["gateway"] \in {"ack", "cancel", "stops"} =>
                pc'["gateway"] = pc["gateway"] /\ tr'["gateway"] = tr["gateway"] /\ (ready' => ready)
      BY <1>1, <1>s, SMTT(30) DEF Receive, Admit, Hold, CreateClaim, RecoverClaim, Duplicate, Enqueue, Link, Complete,
                       Returned, Errored, Shape, locals
    <2> QED
      BY <2>1, <2>2, <2>3, KeepRotation, SMTT(30) DEF Closing
  <1>2. ASSUME Poll \/ StoreOffset \/ ReadState \/ Scan \/ TakeTransition
        PROVE  Rotation'
    <2>1. active' = active
      BY <1>2 DEF Poll, StoreOffset, ReadState, Scan, TakeTransition, files
    <2>2. \A q \in Procs : st'[q] \in {0, active, st[q]}
      BY <1>2, <1>s DEF Poll, StoreOffset, ReadState, Scan, TakeTransition, Plan, Forget, LocalsType, locals
    <2>3. /\ \A q \in Procs : pc'[q] = "close" => pc[q] = "close" /\ tr'[q] = tr[q]
          /\ pc'["gateway"] \in {"ack", "cancel", "stops"} =>
                pc'["gateway"] = pc["gateway"] /\ tr'["gateway"] = tr["gateway"] /\ (ready' => ready)
      BY <1>2, <1>s, SMTT(30) DEF Poll, StoreOffset, ReadState, Scan, TakeTransition, Plan, Forget, Shape, locals
    <2> QED
      BY <2>1, <2>2, <2>3, KeepRotation, SMTT(30) DEF Closing
  <1>3. ASSUME ScanHeld \/ TakeHeld \/ Replan \/ RemoveHeld \/ Rest
        PROVE  Rotation'
    <2>1. active' = active
      BY <1>3 DEF ScanHeld, TakeHeld, Replan, RemoveHeld, Rest, files
    <2>2. \A q \in Procs : st'[q] \in {0, active, st[q]}
      BY <1>3, <1>s DEF ScanHeld, TakeHeld, Replan, RemoveHeld, Rest, Plan, Forget, LocalsType, locals
    <2>3. /\ \A q \in Procs : pc'[q] = "close" => pc[q] = "close" /\ tr'[q] = tr[q]
          /\ pc'["gateway"] \in {"ack", "cancel", "stops"} =>
                pc'["gateway"] = pc["gateway"] /\ tr'["gateway"] = tr["gateway"] /\ (ready' => ready)
      BY <1>3, <1>s, SMTT(30) DEF ScanHeld, TakeHeld, Replan, RemoveHeld, Rest, Plan, Forget, Shape, LocalsType, locals
    <2> QED
      BY <2>1, <2>2, <2>3, KeepRotation, SMTT(30) DEF Closing
  <1>4. ASSUME RetrySettle \/ GatewayFails \/ SettleDeferred \/ LoopFails \/ GatewayCrashes \/ LoopCrashes
        PROVE  Rotation'
    <2>1. active' = active
      BY <1>4 DEF RetrySettle, GatewayFails, SettleDeferred, LoopFails, GatewayCrashes, LoopCrashes, files
    <2>2. \A q \in Procs : st'[q] \in {0, active, st[q]}
      BY <1>4, <1>s DEF RetrySettle, GatewayFails, SettleDeferred, LoopFails, GatewayCrashes, LoopCrashes,
                       Forget, LocalsType, locals
    <2>3. /\ \A q \in Procs : pc'[q] = "close" => pc[q] = "close" /\ tr'[q] = tr[q]
          /\ pc'["gateway"] \in {"ack", "cancel", "stops"} =>
                pc'["gateway"] = pc["gateway"] /\ tr'["gateway"] = tr["gateway"] /\ (ready' => ready)
      BY <1>4, <1>s, SMTT(30) DEF RetrySettle, GatewayFails, SettleDeferred, LoopFails, GatewayCrashes, LoopCrashes,
                       Forget, Shape, LocalsType, locals
    <2> QED
      BY <2>1, <2>2, <2>3, KeepRotation, SMTT(30) DEF Closing
  <1>5. CASE Prepare
    <2> DEFINE id == Id(Kind[msg["gateway"]], st["gateway"])
    <2>1. active' = active /\ st' = st /\ closed' = closed
      BY <1>5 DEF Prepare
    <2>2. tr'["gateway"] = id /\ tr'["loop"] = tr["loop"] /\ pc'["loop"] = pc["loop"] /\ pc'["gateway"] # "close"
      BY <1>5 DEF Prepare, LocalsType
    <2>3. ready' => Shut(tr["gateway"])'
      <3>1. CASE Recorded(id)
        <4>1. intents' = intents /\ ready' = BoundaryReady(IntentOf(id))
          BY <1>5, <3>1 DEF Prepare
        <4>2. IntentOf(id) \in Intents /\ IntentOf(id).id = id
          BY <3>1, IntentOfRecorded
        <4>3. BoundaryReady(IntentOf(id)) => Shut(id)
          <5> HIDE DEF id
          <5> QED
            BY <4>2 DEF Rotation, Unique, Shut
        <4>4. Intents' = Intents
          BY <4>1 DEF Intents
        <4>5. Shut(id) => Shut(tr["gateway"])'
          BY <2>1, <2>2, <4>4, SMTT(30) DEF Shut, BoundaryReady
        <4> QED
          BY <4>1, <4>3, <4>5
      <3>2. CASE ~Recorded(id)
        <4>1. \E i : i.id = id /\ intents' = Append(intents, i) /\ ready' = (i.boundary = "not-applicable")
          <5>1. PICK b \in Assessments :
                   /\ intents' = Append(intents, [id |-> id, boundary |-> b,
                        frozen |-> IF Kind[msg["gateway"]] = "new" THEN msg["gateway"] ELSE NoSession])
                   /\ ready' = (b = "not-applicable")
            BY <1>5, <3>2 DEF Prepare
          <5> DEFINE i == [id |-> id, boundary |-> b,
                           frozen |-> IF Kind[msg["gateway"]] = "new" THEN msg["gateway"] ELSE NoSession]
          <5>2. i.id = id /\ i.boundary = b
            OBVIOUS
          <5> HIDE DEF i, id
          <5> QED
            BY <5>1, <5>2 DEF i
        <4>2. PICK i : i.id = id /\ intents' = Append(intents, i) /\ ready' = (i.boundary = "not-applicable")
          BY <4>1
        <4>3. Intents' = Intents \cup {i}
          <5>1. intents \in Seq(Intent)
            BY DEF FilesType
          <5> QED
            BY <4>2, <5>1, SMTT(30) DEF Intents
        <4> QED
          BY <2>2, <3>2, <4>2, <4>3 DEF Shut, BoundaryReady, Recorded
      <3> QED
        BY <3>1, <3>2
    <2> QED
      BY <2>1, <2>2, <2>3, KeepRotation, SMTT(30)
  <1>6. ASSUME NEW p \in Procs, Ack(p) PROVE Rotation'
    BY <1>6, KeepRotation, SMTT(30) DEF Ack, LocalsType, Handling, Failing, Closing, files, locals
  <1>7. ASSUME NEW p \in Procs, Cancel(p) PROVE Rotation'
    BY <1>7, KeepRotation DEF Cancel, LocalsType, Handling, Failing, Closing, files, locals
  <1>8. ASSUME NEW p \in Procs, SiblingStops(p) PROVE Rotation'
    BY <1>8, KeepRotation, SMTT(30) DEF SiblingStops, LocalsType, Handling, Failing, Closing, files, locals
  <1>9. ASSUME NEW p \in Procs, Close(p) PROVE Rotation'
    <2>1. tr[p].command = "new" /\ Recorded(tr[p]) /\ Shut(tr[p])
      BY <1>9, SMTT(30) DEF Close, InHand, Rotation
    <2>2. Proven(IntentOf(tr[p]).frozen)
      BY <2>1, IntentOfRecorded, SMTT(30) DEF Proven, Shut
    <2>3. \A q \in Procs : st'[q] = st[q] \/ Proven(st'[q])
      BY <1>9, <2>2 DEF Close, LocalsType
    <2>4. active' = active /\ tr' = tr /\ ready' = ready
      BY <1>9 DEF Close, files
    <2>5. \A q \in Procs : pc'[q] \in {pc[q], "write"}
      BY <1>9 DEF Close, LocalsType
    <2> QED
      BY <2>3, <2>4, <2>5, KeepRotation DEF Closing
  <1>10. ASSUME NEW p \in Procs, WriteState(p) PROVE Rotation'
    BY <1>10, KeepRotation, SMTT(30) DEF WriteState, LocalsType, Handling, Failing, Closing, files, locals
  <1>11. ASSUME NEW p \in Procs, Commit(p) PROVE Rotation'
    BY <1>11, KeepRotation, SMTT(30) DEF Commit, LocalsType, Handling, Failing, Closing, files, locals
  <1>12. CASE Boundary
    <2>1. Recorded(tr["loop"])
      BY <1>12, SMTT(30) DEF Boundary, InHand
    <2>2. PICK i : i = IntentOf(tr["loop"])
      OBVIOUS
    <2>3. i \in Intents /\ i.id = tr["loop"]
      BY <2>1, <2>2, IntentOfRecorded
    <2>4. active' = active /\ tr' = tr /\ ready' = ready /\ st' = st /\ intents' = intents
      BY <1>12, SMTT(30) DEF Boundary
    <2>5. pc'["gateway"] = pc["gateway"]
      BY <1>12, SMTT(30) DEF Boundary, LocalsType
    <2>6. pc'["loop"] = "close" => BoundaryReady(i)'
      BY <1>12, <2>2, <2>3, SMTT(30) DEF Boundary, BoundaryReady, LocalsType
    <2>7. pc'["loop"] = "close" => Shut(tr["loop"])'
      BY <2>3, <2>4, <2>6, SMTT(30) DEF Rotation, Unique, Shut, Intents, BoundaryReady
    <2> QED
      BY <2>4, <2>5, <2>7, KeepRotation DEF Closing
  <1> QED
    BY <1>1, <1>2, <1>3, <1>4, <1>5, <1>6, <1>7, <1>8, <1>9, <1>10, <1>11, <1>12
       DEF Next, Gateway, Loop, Transition

LEMMA RotationHolds == Spec => []Rotation
  <1>1. Init => Rotation
    <2> SUFFICES ASSUME Init PROVE Rotation
      OBVIOUS
    <2>1. Intents = {}
      BY SMTT(30) DEF Init, Intents
    <2> QED
      BY <2>1 DEF Init, Rotation, Unique, ActiveIsProven, Proven, Shut
  <1>2. Inductive /\ Rotation /\ [Next]_vars => Rotation'
    <2> SUFFICES ASSUME Inductive, Rotation, [Next]_vars PROVE Rotation'
      OBVIOUS
    <2>1. CASE Next
      BY <2>1, RotationStep DEF Inductive
    <2>2. CASE UNCHANGED vars
      <3>1. Intents' = Intents /\ closed' = closed /\ active' = active
        BY <2>2 DEF Intents, vars, files
      <3>2. pc' = pc /\ st' = st /\ tr' = tr /\ ready' = ready
        BY <2>2 DEF vars, locals
      <3> QED
        BY <3>1, <3>2 DEF Rotation, Unique, ActiveIsProven, Proven, Shut, BoundaryReady
    <2> QED
      BY <2>1, <2>2
  <1> QED
    BY <1>1, <1>2, InductiveHolds, PTL DEF Spec

\* The session in the lane's state.json is always the first one or the frozen
\* target of a /new whose goal boundary is closed.
THEOREM RotationIsProven == Spec => []ActiveIsProven
  <1>1. Rotation => ActiveIsProven
    BY DEF Rotation
  <1> QED
    BY <1>1, RotationHolds, PTL

-----------------------------------------------------------------------------
(* The chain of sessions *)

News == {i \in Intents : i.id.command = "new"}

Reach == {0} \cup {i.frozen : i \in News}

\* the recorded intents: what they freeze, for whom, and from which session
Chain ==
    /\ \A i \in News : /\ i.frozen \in Msgs /\ claim[i.frozen] # "none"
                       /\ DurableNew(claimSession[i.frozen])
    /\ \A i \in Intents : i.id.command = "stop" => i.frozen = NoSession
    /\ \A s, t \in Reach : ~DurableNew(s) /\ ~DurableNew(t) => s = t

\* the sessions that a process or a claim has read
Read ==
    /\ \A p \in Procs : plan[p] \in Reach
    /\ \A m \in Msgs : claimSession[m] \in Reach

\* an update that is about to be proposed a target for has none
Fresh ==
    pc["gateway"] \in {"apply", "prepare"} =>
        /\ claim[msg["gateway"]] # "none"
        /\ Kind[msg["gateway"]] = "new" => msg["gateway"] \notin Reach

TargetInv == Chain /\ Read /\ Fresh /\ OneTargetPerUpdate

\* what the lane and its handlers take for its session is of the chain
LEMMA SessionsReached ==
    ASSUME Rotation
    PROVE  active \in Reach /\ \A p \in Procs : st[p] \in Reach
  BY DEF Rotation, ActiveIsProven, Proven, Reach, News

\* a step that records no intent, removes no claim file and plans and claims in
\* sessions of the chain
LEMMA KeepTargetInv ==
    ASSUME Typed, TargetInv, Rotation, intents' = intents,
           \A m \in Msgs : claim[m] # "none" => claim'[m] # "none" /\ claimSession'[m] = claimSession[m],
           \A m \in Msgs : claimSession'[m] = claimSession[m] \/ \E p \in Procs : claimSession'[m] = plan[p],
           \A p \in Procs : plan'[p] \in {0, active, plan[p]},
           pc'["gateway"] \in {"apply", "prepare"} =>
               /\ msg'["gateway"] = msg["gateway"]
               /\ \/ pc["gateway"] \in {"apply", "prepare"}
                  \/ claim'[msg["gateway"]] # "none" /\ msg["gateway"] \notin Reach
    PROVE  TargetInv'
  <1> LocalsType /\ Handling
    BY DEF Typed, TypeOK
  <1>1. Intents' = Intents
    BY SMTT(30) DEF Intents
  <1>2. News' = News
    BY <1>1 DEF News
  <1>3. Reach' = Reach
    BY <1>2 DEF Reach
  <1>4. \A s : DurableNew(s) <=> \E i \in Intents' : i.id = Id("new", s)
    BY <1>1 DEF DurableNew, Recorded
  <1>5. Chain'
    <2>1. \A i \in News : i.frozen \in Msgs /\ claim'[i.frozen] # "none" /\ DurableNew(claimSession'[i.frozen])
      BY DEF TargetInv, Chain
    <2>2. \A i \in News' : (i.frozen \in Msgs /\ claim[i.frozen] # "none" /\ DurableNew(claimSession[i.frozen]))'
      BY <1>2, <1>4, <2>1 DEF DurableNew, Recorded
    <2>3. \A i \in Intents' : i.id.command = "stop" => i.frozen = NoSession
      BY <1>1 DEF TargetInv, Chain
    <2>4. (\A s, t \in Reach : ~DurableNew(s) /\ ~DurableNew(t) => s = t)'
      BY <1>1, <1>3 DEF TargetInv, Chain, DurableNew, Recorded
    <2> QED
      BY <2>2, <2>3, <2>4 DEF Chain
  <1>6. Read'
    BY <1>3, SessionsReached DEF TargetInv, Read, Reach
  <1>7. Fresh'
    BY <1>3 DEF TargetInv, Fresh, LocalsType, Handling, Failing
  <1>8. OneTargetPerUpdate'
    BY DEF TargetInv, OneTargetPerUpdate
  <1> QED
    BY <1>5, <1>6, <1>7, <1>8 DEF TargetInv

\* a new intent is of the last session of the chain
LEMMA ProposeStep ==
    ASSUME Typed, Rotation, TargetInv, Prepare, intents' # intents
    PROVE  TargetInv'
  <1> FilesType /\ ClaimsType /\ LocalsType /\ Handling /\ InHand
    BY DEF Typed, TypeOK
  <1> DEFINE m == msg["gateway"]
             s == st["gateway"]
  <1>1. m \in Msgs /\ Kind[m] \in {"new", "stop"} /\ claim[m] # "none" /\ (Kind[m] = "new" => m \notin Reach)
    BY SMTT(30) DEF Prepare, Handling, InHand, TargetInv, Fresh
  <1>2. s \in Reach
    BY SessionsReached
  <1>3. PICK i : /\ i.id = Id(Kind[m], s) /\ intents' = Append(intents, i)
                 /\ i.frozen = IF Kind[m] = "new" THEN m ELSE NoSession
    <2>1. PICK b \in Assessments :
             intents' = Append(intents, [id |-> Id(Kind[m], s), boundary |-> b,
                                         frozen |-> IF Kind[m] = "new" THEN m ELSE NoSession])
      BY DEF Prepare
    <2> QED
      BY <2>1, SMTT(30)
  <1>4. ~Recorded(Id(Kind[m], s))
    BY DEF Prepare
  <1>5. i.id.command = Kind[m] /\ i.id.old = s
    BY <1>3, SMTT(30) DEF Id
  <1>6. Intents' = Intents \cup {i}
    <2>1. intents \in Seq(Intent)
      BY DEF FilesType
    <2> QED
      BY <1>3, <2>1, SMTT(30) DEF Intents
  <1>7. claim' = claim /\ claimSession' = claimSession /\ plan' = plan
    BY DEF Prepare, claims
  <1>8. pc'["gateway"] \notin {"apply", "prepare"}
    BY DEF Prepare, LocalsType
  <1>9. \A j \in Intents : j.frozen # m \/ Kind[m] = "stop"
    <2>1. \A j \in Intents : j.id.command \in {"new", "stop"}
      <3>1. \A j \in Intents : j \in Intent
        BY SMTT(30) DEF FilesType, Intents
      <3>2. \A j \in Intent : j.id.command \in {"new", "stop"}
        BY DEF Intent, Ids
      <3> QED
        BY <3>1, <3>2
    <2> QED
      BY <1>1, <2>1, SMTT(30) DEF TargetInv, Chain, Reach, News
  <1>10. OneTargetPerUpdate'
    <2>1. Len(intents') = Len(intents) + 1 /\ Len(intents) \in Nat
      BY <1>3, SMTT(30) DEF FilesType
    <2>2. \A n \in 1 .. Len(intents) : intents'[n] = intents[n] /\ intents[n] \in Intents
      BY <1>3, SMTT(30) DEF FilesType, Intents
    <2>3. intents'[Len(intents) + 1] = i
      BY <1>3, SMTT(30) DEF FilesType
    <2>4. \A n \in 1 .. Len(intents') : n \in 1 .. Len(intents) \/ n = Len(intents) + 1
      BY <2>1, SMTT(30)
    <2>5. \A n \in 1 .. Len(intents) : intents[n].frozen # i.frozen \/ i.frozen = NoSession
      BY <1>1, <1>3, <1>9, <2>2
    <2> QED
      BY <2>2, <2>3, <2>4, <2>5, SMTT(30) DEF TargetInv, OneTargetPerUpdate
  <1>11. \A t : DurableNew(t)' <=> DurableNew(t) \/ (Kind[m] = "new" /\ t = s)
    BY <1>3, <1>5, <1>6, SMTT(30) DEF DurableNew, Recorded, Id
  <1>12. CASE Kind[m] = "stop"
    <2>1. News' = News
      BY <1>5, <1>6, <1>12 DEF News
    <2>2. Reach' = Reach
      BY <2>1 DEF Reach
    <2>3. Chain'
      BY <1>3, <1>6, <1>7, <1>11, <1>12, <2>1, <2>2 DEF TargetInv, Chain
    <2> QED
      BY <1>7, <1>8, <1>10, <2>2, <2>3 DEF TargetInv, Read, Fresh
  <1>13. CASE Kind[m] = "new"
    <2>1. News' = News \cup {i}
      BY <1>5, <1>6, <1>13 DEF News
    <2>2. Reach' = Reach \cup {m}
      BY <1>3, <1>13, <2>1 DEF Reach
    <2>3. ~DurableNew(s)
      BY <1>4, <1>13 DEF DurableNew
    <2>4. \A t \in Reach : DurableNew(t)'
      BY <1>2, <1>11, <1>13, <2>3 DEF TargetInv, Chain
    <2>5. claimSession[m] \in Reach
      BY <1>1 DEF TargetInv, Read
    <2>6. \A j \in News' : (j.frozen \in Msgs /\ claim[j.frozen] # "none" /\ DurableNew(claimSession[j.frozen]))'
      BY <1>1, <1>3, <1>7, <1>11, <1>13, <2>1, <2>4, <2>5 DEF TargetInv, Chain
    <2>7. \A j \in Intents' : j.id.command = "stop" => j.frozen = NoSession
      BY <1>5, <1>6, <1>13 DEF TargetInv, Chain
    <2>8. Chain'
      BY <2>2, <2>4, <2>6, <2>7 DEF Chain
    <2> QED
      BY <1>7, <1>8, <1>10, <2>2, <2>8 DEF TargetInv, Read, Fresh
  <1> QED
    BY <1>1, <1>12, <1>13

LEMMA TargetStep ==
    ASSUME Typed, Rotation, TargetInv, Next
    PROVE  TargetInv'
  <1> FilesType /\ ClaimsType /\ LocalsType /\ Handling /\ InHand
    BY DEF Typed, TypeOK
  <1>s. Shape
    BY LocalsShape
  <1>1. ASSUME Poll \/ StoreOffset \/ ReadState \/ Scan \/ TakeTransition
        PROVE  TargetInv'
    <2>1. intents' = intents /\ claim' = claim /\ claimSession' = claimSession
      BY <1>1 DEF Poll, StoreOffset, ReadState, Scan, TakeTransition, files, claims
    <2>2. \A q \in Procs : plan'[q] \in {0, active, plan[q]}
      BY <1>1, <1>s DEF Poll, StoreOffset, ReadState, Scan, TakeTransition, Plan, Forget, LocalsType, locals
    <2>3. pc'["gateway"] \in {"apply", "prepare"} =>
             pc["gateway"] \in {"apply", "prepare"} /\ msg'["gateway"] = msg["gateway"]
      BY <1>1, <1>s DEF Poll, StoreOffset, ReadState, Scan, TakeTransition, Plan, Forget, Shape, locals
    <2> QED
      BY <2>1, <2>2, <2>3, KeepTargetInv
  <1>2. ASSUME ScanHeld \/ Replan \/ RemoveHeld \/ Rest \/ LoopFails \/ LoopCrashes \/ GatewayCrashes
        PROVE  TargetInv'
    <2>1. intents' = intents /\ claim' = claim /\ claimSession' = claimSession
      BY <1>2 DEF ScanHeld, Replan, RemoveHeld, Rest, LoopFails, LoopCrashes, GatewayCrashes, files,
                       claims
    <2>2. \A q \in Procs : plan'[q] \in {0, active, plan[q]}
      BY <1>2, <1>s DEF ScanHeld, Replan, RemoveHeld, Rest, LoopFails, LoopCrashes, GatewayCrashes, Plan, Forget,
                       LocalsType, locals
    <2>3. pc'["gateway"] \in {"apply", "prepare"} =>
             pc["gateway"] \in {"apply", "prepare"} /\ msg'["gateway"] = msg["gateway"]
      BY <1>2, <1>s DEF ScanHeld, Replan, RemoveHeld, Rest, LoopFails, LoopCrashes, GatewayCrashes, Plan, Forget,
                       Shape, locals
    <2> QED
      BY <2>1, <2>2, <2>3, KeepTargetInv
  <1>3. ASSUME NEW p \in Procs, Transition(p) PROVE TargetInv'
    <2>1. intents' = intents /\ claim' = claim /\ claimSession' = claimSession
      BY <1>3 DEF Transition, Ack, Cancel, SiblingStops, Close, WriteState, Commit, files, claims
    <2>2. \A q \in Procs : plan'[q] \in {0, active, plan[q]}
      BY <1>3, <1>s DEF Transition, Ack, Cancel, SiblingStops, Close, WriteState, Commit, LocalsType, locals
    <2>3. pc'["gateway"] \in {"apply", "prepare"} =>
             pc["gateway"] \in {"apply", "prepare"} /\ msg'["gateway"] = msg["gateway"]
      BY <1>3, <1>s DEF Transition, Ack, Cancel, SiblingStops, Close, WriteState, Commit, Shape, locals
    <2> QED
      BY <2>1, <2>2, <2>3, KeepTargetInv
  <1>4. ASSUME NEW p \in Procs, Admit(p) \/ Hold(p) PROVE TargetInv'
    <2>1. intents' = intents /\ claim' = claim /\ claimSession' = claimSession
      BY <1>4 DEF Admit, Hold, files, claims
    <2>2. \A q \in Procs : plan'[q] \in {0, active, plan[q]}
      BY <1>4, <1>s DEF Admit, Hold, LocalsType, locals
    <2>3. pc'["gateway"] \in {"apply", "prepare"} =>
             pc["gateway"] \in {"apply", "prepare"} /\ msg'["gateway"] = msg["gateway"]
      BY <1>4, <1>s DEF Admit, Hold, Errored, Shape, locals
    <2> QED
      BY <2>1, <2>2, <2>3, KeepTargetInv
  <1>5. ASSUME NEW p \in Procs, CreateClaim(p) PROVE TargetInv'
    <2>1. intents' = intents /\ msg' = msg /\ plan' = plan /\ claim[msg[p]] = "none"
      BY <1>5 DEF CreateClaim, files
    <2>2. msg[p] \in Msgs
      BY <1>5 DEF CreateClaim, LocalsType, Handling
    <2>3. \A m \in Msgs : /\ claim'[m] = IF m = msg[p] THEN "open" ELSE claim[m]
                          /\ claimSession'[m] = IF m = msg[p] THEN plan[p] ELSE claimSession[m]
      BY <1>5, <2>2 DEF CreateClaim, ClaimsType
    <2>4. pc'["gateway"] \in {"apply", "prepare"} => p = "gateway" \/ pc["gateway"] \in {"apply", "prepare"}
      BY <1>5 DEF CreateClaim, LocalsType
    <2>5. msg[p] \notin Reach
      BY <2>1, <2>2, SMTT(30) DEF TargetInv, Chain, Reach
    <2> QED
      BY <2>1, <2>2, <2>3, <2>4, <2>5, KeepTargetInv
  <1>6. ASSUME NEW p \in Procs, RecoverClaim(p) PROVE TargetInv'
    <2>1. intents' = intents /\ msg' = msg /\ plan' = plan /\ claimSession' = claimSession
      BY <1>6 DEF RecoverClaim, files
    <2>2. msg[p] \in Msgs
      BY <1>6 DEF RecoverClaim, LocalsType, Handling
    <2>3. \A m \in Msgs : claim'[m] = IF m = msg[p] THEN "open" ELSE claim[m]
      BY <1>6, <2>2 DEF RecoverClaim, ClaimsType
    <2>4. pc'["gateway"] \in {"apply", "prepare"} => p = "gateway" \/ pc["gateway"] \in {"apply", "prepare"}
      BY <1>6 DEF RecoverClaim, LocalsType
    <2>5. claimSession[msg[p]] = plan[p] /\ ~DurableNew(plan[p])
      BY <1>6, SMTT(30) DEF RecoverClaim, Recoverable
    <2>6. msg[p] \notin Reach
      <3>1. ~DurableNew(claimSession[msg[p]])
        BY <2>5
      <3>2. \A i \in News : DurableNew(claimSession[i.frozen])
        BY DEF TargetInv, Chain
      <3> QED
        BY <2>2, <3>1, <3>2, SMTT(30) DEF Reach
    <2> QED
      BY <2>1, <2>2, <2>3, <2>4, <2>6, KeepTargetInv
  <1>7. ASSUME NEW p \in Procs, Duplicate(p) PROVE TargetInv'
    BY <1>7, KeepTargetInv DEF Duplicate, Returned, Errored, ClaimsType, LocalsType, Handling, Failing, files, claims, locals
  <1>8. ASSUME NEW p \in Procs, Enqueue(p) PROVE TargetInv'
    BY <1>8, KeepTargetInv, SMTT(30) DEF Enqueue, ClaimsType, LocalsType, Handling, Failing, files, claims, locals
  <1>9. ASSUME NEW p \in Procs, Link(p) PROVE TargetInv'
    BY <1>9, KeepTargetInv, SMTT(30) DEF Link, ClaimsType, LocalsType, Handling, Failing, files, claims, locals
  <1>10. ASSUME NEW p \in Procs, Complete(p) PROVE TargetInv'
    BY <1>10, KeepTargetInv, SMTT(30) DEF Complete, Returned, ClaimsType, LocalsType, Handling, Failing, files, claims, locals
  <1>11. CASE Prepare
    <2>1. CASE intents' = intents
      <3>1. claim' = claim /\ claimSession' = claimSession /\ plan' = plan /\ msg' = msg
        BY <1>11 DEF Prepare, claims
      <3>2. pc'["gateway"] \notin {"apply", "prepare"}
        BY <1>11, SMTT(30) DEF Prepare, LocalsType
      <3> QED
        BY <2>1, <3>1, <3>2, KeepTargetInv
    <2>2. CASE intents' # intents
      BY <1>11, <2>2, ProposeStep
    <2> QED
      BY <2>1, <2>2
  <1>12. CASE Boundary
    BY <1>12, KeepTargetInv, SMTT(30) DEF Boundary, ClaimsType, LocalsType, Handling, Failing, files, claims, locals
  <1>13. CASE TakeHeld
    BY <1>13, KeepTargetInv, SMTT(30) DEF TakeHeld, ClaimsType, LocalsType, Handling, Failing, files, claims, locals
  <1>14. CASE GatewayFails
    BY <1>14, KeepTargetInv DEF GatewayFails, Forget, SettleClaim, ClaimsType, LocalsType, Handling, Failing, files, claims, locals
  <1>15. CASE SettleDeferred
    BY <1>15, KeepTargetInv, SMTT(30) DEF SettleDeferred, Forget, ClaimsType, LocalsType, Handling, Failing, files, claims, locals
  <1>16. CASE RetrySettle
    BY <1>16, KeepTargetInv, SMTT(30) DEF RetrySettle, SettleClaim, ClaimsType, LocalsType, Handling, Failing, files, claims, locals
  <1> QED
    BY <1>1, <1>2, <1>3, <1>4, <1>5, <1>6, <1>7, <1>8, <1>9, <1>10, <1>11, <1>12, <1>13, <1>14, <1>15, <1>16
       DEF Next, Gateway, Loop, Receive

\* Retried, redelivered or taken over, an update freezes one target session at
\* most: prepare_channel_session_transition finds the intent that is there.
THEOREM NoSecondTarget == Spec => []OneTargetPerUpdate
  <1>1. Init => TargetInv
    BY SMTT(30) DEF Init, TargetInv, Chain, Read, Fresh, OneTargetPerUpdate, Reach, News, Intents
  <1>2. Inductive /\ Rotation /\ TargetInv /\ [Next]_vars => TargetInv'
    <2> SUFFICES ASSUME Inductive, Rotation, TargetInv, [Next]_vars PROVE TargetInv'
      OBVIOUS
    <2>1. CASE Next
      BY <2>1, TargetStep DEF Inductive
    <2>2. CASE UNCHANGED vars
      BY <2>2, KeepTargetInv, SMTT(30) DEF Inductive, vars, files, claims, locals
    <2> QED
      BY <2>1, <2>2
  <1>3. TargetInv => OneTargetPerUpdate
    BY DEF TargetInv
  <1> QED
    BY <1>1, <1>2, <1>3, InductiveHolds, RotationHolds, PTL DEF Spec
=============================================================================
