------------------------ MODULE ChannelIngressTypes ------------------------
(***************************************************************************)
(* What a step of ChannelIngress keeps: the types of its variables, what   *)
(* the program points promise of the update in hand, and the intents.      *)
(***************************************************************************)
EXTENDS ChannelIngress, TLAPS

USE ZenonT(60)

\* what the program points promise: the gateway has an update in hand unless it
\* is idle, a replay has an ordinary message in hand, and a transition in hand
\* is recorded
Handling ==
    /\ pc["gateway"] \in Failing \cup {"idle", "admit", "hold", "claim", "offset"}
    /\ pc["gateway"] # "idle" => msg["gateway"] \in Msgs
    /\ pc["loop"] \in {"replan", "admit", "hold", "claim", "enqueue", "link", "complete", "remove"} =>
          msg["loop"] \in Msgs /\ Kind[msg["loop"]] = "text"
    /\ pc["loop"] \notin {"apply", "prepare", "offset"}

OnlyTexts ==
    /\ \A m \in Msgs : held[m] # NoSession => Kind[m] = "text"
    /\ \A m \in replay : Kind[m] = "text"
    /\ \A p \in Procs : pc[p] \in {"admit", "hold", "enqueue"} => Kind[msg[p]] = "text"

Targets == \A i \in Intents : i.id.command = "new" => i.frozen \in Sessions

InHand ==
    /\ \A p \in Procs :
          /\ pc[p] \in {"ack", "cancel", "stops", "close", "commit", "boundary"} => Recorded(tr[p])
          /\ pc[p] = "close" => tr[p].command = "new"
    /\ pc["loop"] = "write" => Recorded(tr["loop"])
    /\ pc["gateway"] = "write" /\ Kind[msg["gateway"]] # "note" => Recorded(tr["gateway"])
    /\ pc["gateway"] = "apply" => Kind[msg["gateway"]] # "text"
    /\ pc["gateway"] = "prepare" => Kind[msg["gateway"]] \in {"new", "stop"}

Typed == TypeOK /\ Handling /\ OnlyTexts /\ Targets /\ InHand

USE IngressAssumption DEF Msgs, Sessions, NoSession, Procs, Boundaries, Goto, At

\* a recorded transition has its intent
LEMMA IntentOfRecorded ==
    ASSUME NEW id, Recorded(id)
    PROVE  IntentOf(id) \in Intents /\ IntentOf(id).id = id
  BY DEF Recorded, IntentOf

LEMMA RecordedTyped ==
    ASSUME FilesType, NEW id, Recorded(id)
    PROVE  id \in Ids /\ id.old \in Sessions /\ IntentOf(id) \in Intent
  <1>1. \A i \in Intents : i \in Intent
    BY SMTT(30) DEF FilesType, Intents
  <1>2. IntentOf(id) \in Intent /\ IntentOf(id).id = id
    BY <1>1, IntentOfRecorded
  <1> QED
    BY <1>2 DEF Intent, Ids

LEMMA KeepFilesType == ASSUME FilesType, UNCHANGED <<files, held>> PROVE FilesType'
  BY DEF FilesType, files

LEMMA KeepClaimsType == ASSUME ClaimsType, UNCHANGED <<claims, process>> PROVE ClaimsType'
  BY SMTT(30) DEF ClaimsType, claims, process

LEMMA CountFault ==
    ASSUME ClaimsType, faults < MaxFaults, faults' = faults + 1
    PROVE  faults' \in 0 .. MaxFaults
  BY SMTT(30) DEF ClaimsType

\* a call ends, and its process has nothing in hand
LEMMA ForgetType ==
    ASSUME LocalsType, NEW p \in Procs, Goto(p, "idle"), Forget(p), intents' = intents,
           todo' \in {todo, {}}, replay' \in {replay, {}}
    PROVE  LocalsType'
  <1>1. pc' \in [Procs -> Failing \cup {"idle", "admit", "hold", "claim", "offset", "transitions",
                                      "boundary", "held", "replan", "remove"}]
    BY DEF LocalsType
  <1>2. msg' \in [Procs -> Msgs \cup {0}] /\ plan' \in [Procs -> Sessions] /\ st' \in [Procs -> Sessions]
    BY SMTT(30) DEF LocalsType, Forget
  <1>3. tr' \in [Procs -> Ids \cup {NoTransition}] /\ ready' \in BOOLEAN
    BY DEF LocalsType, Forget
  <1> QED
    BY <1>1, <1>2, <1>3 DEF LocalsType

\* the transition that a command prepares
LEMMA PrepareTyped ==
    ASSUME LocalsType, Handling, InHand, Prepare
    PROVE  Id(Kind[msg["gateway"]], st["gateway"]) \in Ids
  BY DEF LocalsType, Handling, InHand, Prepare, Ids, Id

LEMMA PrepareAppends ==
    ASSUME FilesType, LocalsType, Handling, InHand, Prepare
    PROVE  intents' = intents \/ \E i \in Intent : intents' = Append(intents, i)
  <1> DEFINE id == Id(Kind[msg["gateway"]], st["gateway"])
  <1>1. id \in Ids
    BY PrepareTyped
  <1>2. ASSUME NEW b \in Assessments
        PROVE  [id |-> id, frozen |-> IF Kind[msg["gateway"]] = "new" THEN msg["gateway"] ELSE NoSession,
                boundary |-> b] \in Intent
    BY <1>1, SMTT(30) DEF Intent, Handling, LocalsType, Prepare
  <1> QED
    BY <1>2 DEF Prepare

LEMMA TypeStep ==
    ASSUME Typed, Next
    PROVE  TypeOK'
  <1> FilesType /\ ClaimsType /\ LocalsType /\ Handling /\ InHand /\ Targets
    BY DEF Typed, TypeOK
  <1>1. CASE Poll
    <2>1. FilesType'
      BY <1>1, KeepFilesType DEF Poll, Plan, Handling, FilesType, files
    <2>2. ClaimsType'
      BY <1>1, KeepClaimsType, SMTT(30) DEF Poll, Plan, Handling, ClaimsType, claims, process
    <2>3. LocalsType'
      BY <1>1, SMTT(30) DEF Poll, Plan, FilesType, LocalsType, Failing, files
    <2> QED
      BY <2>1, <2>2, <2>3 DEF TypeOK
  <1>2. ASSUME NEW p \in Procs, Admit(p) PROVE TypeOK'
    BY <1>2 DEF Admit, Handling, TypeOK, FilesType, ClaimsType, LocalsType, Failing, files, claims, locals, process
  <1>3. ASSUME NEW p \in Procs, Hold(p) PROVE TypeOK'
    BY <1>3 DEF Hold, Errored, Handling, TypeOK, FilesType, ClaimsType, LocalsType, Failing, files, claims, locals, process
  <1>4. ASSUME NEW p \in Procs, CreateClaim(p) PROVE TypeOK'
    BY <1>4 DEF CreateClaim, Handling, TypeOK, FilesType, ClaimsType, LocalsType, Failing, files, claims, locals, process
  <1>5. ASSUME NEW p \in Procs, RecoverClaim(p) PROVE TypeOK'
    <2>1. FilesType'
      BY <1>5, KeepFilesType, SMTT(30) DEF RecoverClaim, Handling, FilesType, files
    <2>2. ClaimsType'
      <3>1. msg[p] \in Msgs
        BY <1>5 DEF RecoverClaim, Handling
      <3>2. claimOwner' \in [Msgs -> Nat]
        BY <1>5, <3>1 DEF RecoverClaim, ClaimsType
      <3>4. recoveries' \in [Msgs -> Nat]
        <4>1. recoveries[msg[p]] + 1 \in Nat
          BY <3>1, SMTT(30) DEF ClaimsType
        <4>2. recoveries' = [recoveries EXCEPT ![msg[p]] = recoveries[msg[p]] + 1]
          BY <1>5 DEF RecoverClaim
        <4> QED
          BY <4>1, <4>2 DEF ClaimsType
      <3>3. claim' \in [Msgs -> {"none", "open", "linked", "retryable", "done"}]
        BY <1>5, <3>1 DEF RecoverClaim, ClaimsType
      <3> QED
        BY <1>5, <3>2, <3>3, <3>4 DEF RecoverClaim, ClaimsType, process
    <2>3. LocalsType'
      BY <1>5 DEF RecoverClaim, Handling, LocalsType, Failing, files, locals
    <2> QED
      BY <2>1, <2>2, <2>3 DEF TypeOK
  <1>6. ASSUME NEW p \in Procs, Duplicate(p) PROVE TypeOK'
    BY <1>6 DEF Duplicate, Returned, Errored, Handling, TypeOK, FilesType, ClaimsType, LocalsType, Failing, files, claims, locals, process
  <1>7. ASSUME NEW p \in Procs, Enqueue(p) PROVE TypeOK'
    <2>1. FilesType'
      <3> DEFINE row == [msg |-> msg[p], session |-> plan[p]]
      <3>1. row \in [msg : Msgs, session : Sessions]
        BY <1>7 DEF Enqueue, Handling, LocalsType
      <3>2. queue' = Append(queue, row)
        BY <1>7 DEF Enqueue
      <3> HIDE DEF row
      <3>3. queue' \in Seq([msg : Msgs, session : Sessions]) /\ Len(queue') = Len(queue) + 1
        BY <3>1, <3>2, SMTT(30) DEF FilesType
      <3>4. stopped' \subseteq 1 .. Len(queue')
        BY <1>7, <3>3, SMTT(30) DEF Enqueue, FilesType
      <3> QED
        BY <1>7, <3>3, <3>4 DEF Enqueue, FilesType
    <2>2. ClaimsType'
      BY <1>7, KeepClaimsType DEF Enqueue, Handling, ClaimsType, claims, process
    <2>3. LocalsType'
      BY <1>7 DEF Enqueue, Handling, LocalsType, Failing, files, locals
    <2> QED
      BY <2>1, <2>2, <2>3 DEF TypeOK
  <1>8. ASSUME NEW p \in Procs, Link(p) PROVE TypeOK'
    BY <1>8 DEF Link, Handling, TypeOK, FilesType, ClaimsType, LocalsType, Failing, files, claims, locals, process
  <1>9. ASSUME NEW p \in Procs, Complete(p) PROVE TypeOK'
    BY <1>9 DEF Complete, Returned, Handling, TypeOK, FilesType, ClaimsType, LocalsType, Failing, files, claims, locals, process
  <1>10. CASE StoreOffset
    <2>1. FilesType'
      BY <1>10, KeepFilesType, SMTT(30) DEF StoreOffset, Handling, FilesType, files
    <2>2. ClaimsType'
      BY <1>10, KeepClaimsType DEF StoreOffset, Handling, ClaimsType, claims, process
    <2>3. LocalsType'
      BY <1>10, ForgetType DEF StoreOffset, files
    <2> QED
      BY <2>1, <2>2, <2>3 DEF TypeOK
  <1>11. CASE ReadState
    BY <1>11 DEF ReadState, Handling, TypeOK, FilesType, ClaimsType, LocalsType, Failing, files, claims, locals, process
  <1>12. CASE Prepare
    <2>1. FilesType'
      <3>1. CASE intents' = intents
        BY <1>12, <3>1, SMTT(30) DEF Prepare, FilesType
      <3>2. CASE \E i \in Intent : intents' = Append(intents, i)
        BY <1>12, <3>2, SMTT(30) DEF Prepare, FilesType
      <3> QED
        BY <1>12, <3>1, <3>2, PrepareAppends
    <2>2. ClaimsType'
      BY <1>12, KeepClaimsType DEF Prepare, Handling, ClaimsType, claims, process
    <2>3. LocalsType'
      <3>1. todo' \subseteq 1 .. Len(intents')
        <4>1. todo' = todo
          BY <1>12 DEF Prepare
        <4>2. Len(intents) \in Nat /\ (Len(intents') = Len(intents) \/ Len(intents') = Len(intents) + 1)
          BY <1>12, PrepareAppends, SMTT(30) DEF FilesType
        <4> QED
          BY <4>1, <4>2, SMTT(30) DEF LocalsType
      <3>2. tr' \in [Procs -> Ids \cup {NoTransition}]
        BY <1>12, PrepareTyped, SMTT(30) DEF Prepare, LocalsType
      <3>3. ready' \in BOOLEAN
        BY <1>12 DEF Prepare, BoundaryReady
      <3> QED
        BY <1>12, <3>1, <3>2, <3>3 DEF Prepare, LocalsType, Failing
    <2> QED
      BY <2>1, <2>2, <2>3 DEF TypeOK
  <1>13. ASSUME NEW p \in Procs, Ack(p) PROVE TypeOK'
    <2>1. FilesType'
      BY <1>13, RecordedTyped DEF Ack, InHand, FilesType
    <2>2. ClaimsType'
      BY <1>13, KeepClaimsType DEF Ack, Handling, ClaimsType, claims, process
    <2>3. LocalsType'
      BY <1>13 DEF Ack, Handling, LocalsType, Failing, files, locals
    <2> QED
      BY <2>1, <2>2, <2>3 DEF TypeOK
  <1>14. ASSUME NEW p \in Procs, Cancel(p) PROVE TypeOK'
    <2>1. FilesType'
      <3>0. st[p] \in Sessions
        BY DEF LocalsType
      <3>1. cancels' \subseteq Sessions
        BY <1>14, <3>0 DEF Cancel, FilesType
      <3> QED
        BY <1>14, <3>1 DEF Cancel, FilesType
    <2>2. ClaimsType'
      BY <1>14, KeepClaimsType DEF Cancel, Handling, ClaimsType, claims, process
    <2>3. LocalsType'
      BY <1>14 DEF Cancel, Handling, LocalsType, Failing, files, locals
    <2> QED
      BY <2>1, <2>2, <2>3 DEF TypeOK
  <1>15. ASSUME NEW p \in Procs, SiblingStops(p) PROVE TypeOK'
    BY <1>15 DEF SiblingStops, Handling, TypeOK, FilesType, ClaimsType, LocalsType, Failing, files, claims, locals, process
  <1>16. ASSUME NEW p \in Procs, Close(p) PROVE TypeOK'
    <2>1. FilesType'
      BY <1>16, KeepFilesType, SMTT(30) DEF Close, Handling, FilesType, files
    <2>2. ClaimsType'
      BY <1>16, KeepClaimsType DEF Close, Handling, ClaimsType, claims, process
    <2>3. LocalsType'
      <3>1. IntentOf(tr[p]).frozen \in Sessions
        BY <1>16, IntentOfRecorded, SMTT(30) DEF Close, InHand, Targets
      <3> QED
        BY <1>16, <3>1 DEF Close, LocalsType, Failing, files
    <2> QED
      BY <2>1, <2>2, <2>3 DEF TypeOK
  <1>17. ASSUME NEW p \in Procs, WriteState(p) PROVE TypeOK'
    BY <1>17 DEF WriteState, Handling, TypeOK, FilesType, ClaimsType, LocalsType, Failing, files, claims, locals, process
  <1>18. ASSUME NEW p \in Procs, Commit(p) PROVE TypeOK'
    <2>1. FilesType'
      BY <1>18, RecordedTyped, SMTT(30) DEF Commit, InHand, FilesType
    <2>2. ClaimsType'
      BY <1>18, KeepClaimsType DEF Commit, Handling, ClaimsType, claims, process
    <2>3. LocalsType'
      BY <1>18 DEF Commit, Handling, LocalsType, Failing, files, locals
    <2> QED
      BY <2>1, <2>2, <2>3 DEF TypeOK
  <1>19. CASE Scan
    BY <1>19 DEF Scan, PendingIntents, Handling, TypeOK, FilesType, ClaimsType, LocalsType, Failing, files, claims, locals, process
  <1>20. CASE TakeTransition
    <2>1. FilesType'
      BY <1>20, KeepFilesType, SMTT(30) DEF TakeTransition, Handling, FilesType, files
    <2>2. ClaimsType'
      BY <1>20, KeepClaimsType, SMTT(30) DEF TakeTransition, Handling, ClaimsType, claims, process
    <2>3. LocalsType'
      <3>1. PICK n \in todo : TakeTransition!(n)
        BY <1>20 DEF TakeTransition
      <3>2. intents[n] \in Intent
        BY SMTT(30) DEF LocalsType, FilesType
      <3>3. tr' \in [Procs -> Ids \cup {NoTransition}]
        BY <3>1, <3>2 DEF LocalsType, Intent
      <3> QED
        BY <3>1, <3>3, SMTT(30) DEF FilesType, LocalsType, Failing, files
    <2> QED
      BY <2>1, <2>2, <2>3 DEF TypeOK
  <1>21. CASE Boundary
    <2>1. FilesType'
      <3>1. IntentOf(tr["loop"]).id \in Ids
        BY <1>21, IntentOfRecorded, RecordedTyped DEF Boundary, InHand
      <3>2. closed' \subseteq Ids
        BY <1>21, <3>1 DEF Boundary, FilesType
      <3> QED
        BY <1>21, <3>2, SMTT(30) DEF Boundary, FilesType
    <2>2. ClaimsType'
      BY <1>21, KeepClaimsType DEF Boundary, Handling, ClaimsType, claims, process
    <2>3. LocalsType'
      BY <1>21, SMTT(30) DEF Boundary, Handling, LocalsType, Failing, files, locals
    <2> QED
      BY <2>1, <2>2, <2>3 DEF TypeOK
  <1>22. CASE ScanHeld
    BY <1>22 DEF ScanHeld, HeldRecords, Handling, TypeOK, FilesType, ClaimsType, LocalsType, Failing, files, claims, locals, process
  <1>23. CASE TakeHeld
    <2>1. FilesType'
      BY <1>23, KeepFilesType, SMTT(30) DEF TakeHeld, Handling, FilesType, files
    <2>2. ClaimsType'
      BY <1>23, KeepClaimsType DEF TakeHeld, Handling, ClaimsType, claims, process
    <2>3. LocalsType'
      BY <1>23, SMTT(30) DEF TakeHeld, Handling, LocalsType, Failing, files, locals
    <2> QED
      BY <2>1, <2>2, <2>3 DEF TypeOK
  <1>24. CASE Replan
    BY <1>24 DEF Replan, Plan, Handling, TypeOK, FilesType, ClaimsType, LocalsType, Failing, files, claims, locals, process
  <1>25. CASE RemoveHeld
    BY <1>25 DEF RemoveHeld, Handling, TypeOK, FilesType, ClaimsType, LocalsType, Failing, files, claims, locals, process
  <1>26. CASE Rest
    <2>1. FilesType'
      BY <1>26, KeepFilesType, SMTT(30) DEF Rest, Handling, FilesType, files
    <2>2. ClaimsType'
      BY <1>26, KeepClaimsType DEF Rest, Handling, ClaimsType, claims, process
    <2>3. LocalsType'
      BY <1>26, ForgetType DEF Rest, files
    <2> QED
      BY <2>1, <2>2, <2>3 DEF TypeOK
  <1>27. CASE GatewayFails
    <2>1. FilesType'
      BY <1>27, KeepFilesType, SMTT(30) DEF GatewayFails, SettleClaim, Handling, FilesType, files
    <2>2. ClaimsType'
      <3>1. claim' \in [Msgs -> {"none", "open", "linked", "retryable", "done"}]
        BY <1>27 DEF GatewayFails, SettleClaim, ClaimsType
      <3> QED
        BY <1>27, <3>1, CountFault DEF GatewayFails, ClaimsType
    <2>3. LocalsType'
      BY <1>27, ForgetType DEF GatewayFails, files
    <2> QED
      BY <2>1, <2>2, <2>3 DEF TypeOK
  <1>28. CASE SettleDeferred
    <2>1. FilesType'
      BY <1>28, KeepFilesType, SMTT(30) DEF SettleDeferred, Handling, FilesType, files
    <2>2. ClaimsType'
      <3>1. msg["gateway"] \in Msgs
        BY <1>28 DEF SettleDeferred, Handling, Failing
      <3>2. settles' \subseteq [msg : Msgs, recovery : Nat]
        BY <1>28, <3>1, SMTT(30) DEF SettleDeferred, ClaimsType
      <3> QED
        BY <1>28, <3>2, CountFault DEF SettleDeferred, ClaimsType, claims
    <2>3. LocalsType'
      BY <1>28, ForgetType DEF SettleDeferred, files
    <2> QED
      BY <2>1, <2>2, <2>3 DEF TypeOK
  <1>29. CASE RetrySettle
    <2>1. FilesType'
      BY <1>29, KeepFilesType, SMTT(30) DEF RetrySettle, SettleClaim, Handling, FilesType, files
    <2>2. ClaimsType'
      BY <1>29, KeepClaimsType DEF RetrySettle, SettleClaim, Handling, ClaimsType, claims, process
    <2>3. LocalsType'
      BY <1>29 DEF RetrySettle, SettleClaim, Handling, LocalsType, Failing, files, locals
    <2> QED
      BY <2>1, <2>2, <2>3 DEF TypeOK
  <1>30. CASE LoopFails
    <2>1. FilesType'
      BY <1>30, KeepFilesType, SMTT(30) DEF LoopFails, Handling, FilesType, files
    <2>2. ClaimsType'
      BY <1>30, KeepClaimsType, SMTT(30) DEF LoopFails, Handling, ClaimsType, claims, process
    <2>3. LocalsType'
      BY <1>30 DEF LoopFails, Handling, LocalsType, Failing, files, locals
    <2> QED
      BY <2>1, <2>2, <2>3 DEF TypeOK
  <1>31. CASE GatewayCrashes
    <2>1. FilesType'
      BY <1>31, KeepFilesType, SMTT(30) DEF GatewayCrashes, Handling, FilesType, files
    <2>2. ClaimsType'
      BY <1>31, KeepClaimsType, SMTT(30) DEF GatewayCrashes, Handling, ClaimsType, claims, process
    <2>3. LocalsType'
      BY <1>31, ForgetType DEF GatewayCrashes, files
    <2> QED
      BY <2>1, <2>2, <2>3 DEF TypeOK
  <1>32. CASE LoopCrashes
    <2>1. FilesType'
      BY <1>32, KeepFilesType, SMTT(30) DEF LoopCrashes, Handling, FilesType, files
    <2>2. ClaimsType'
      BY <1>32, CountFault, SMTT(30) DEF LoopCrashes, ClaimsType, claims
    <2>3. LocalsType'
      BY <1>32, ForgetType DEF LoopCrashes, files
    <2> QED
      BY <2>1, <2>2, <2>3 DEF TypeOK
  <1> QED
    BY <1>1, <1>2, <1>3, <1>4, <1>5, <1>6, <1>7, <1>8, <1>9, <1>10, <1>11, <1>12, <1>13, <1>14, <1>15, <1>16, <1>17, <1>18, <1>19, <1>20, <1>21, <1>22, <1>23, <1>24, <1>25, <1>26, <1>27, <1>28, <1>29, <1>30, <1>31, <1>32 DEF Next, Gateway, Loop, Receive, Transition

LEMMA HandlingStep ==
    ASSUME Typed, Next
    PROVE  Handling' /\ OnlyTexts'
  <1> FilesType /\ LocalsType /\ Handling /\ OnlyTexts /\ InHand
    BY DEF Typed, TypeOK
  <1>1. CASE Poll
    BY <1>1, SMTT(30) DEF Poll, Plan, FilesType, LocalsType, Failing, Handling, OnlyTexts, files, locals
  <1>2. ASSUME NEW p \in Procs, Admit(p) PROVE Handling' /\ OnlyTexts'
    BY <1>2, SMTT(30) DEF Admit, FilesType, LocalsType, Failing, Handling, OnlyTexts, files, locals
  <1>3. ASSUME NEW p \in Procs, Hold(p) PROVE Handling' /\ OnlyTexts'
    BY <1>3, SMTT(30) DEF Hold, Errored, FilesType, LocalsType, Failing, Handling, OnlyTexts, files, locals
  <1>4. ASSUME NEW p \in Procs, CreateClaim(p) PROVE Handling' /\ OnlyTexts'
    BY <1>4, SMTT(30) DEF CreateClaim, FilesType, LocalsType, Failing, Handling, OnlyTexts, files, locals
  <1>5. ASSUME NEW p \in Procs, RecoverClaim(p) PROVE Handling' /\ OnlyTexts'
    BY <1>5, SMTT(30) DEF RecoverClaim, FilesType, LocalsType, Failing, Handling, OnlyTexts, files, locals
  <1>6. ASSUME NEW p \in Procs, Duplicate(p) PROVE Handling' /\ OnlyTexts'
    BY <1>6, SMTT(30) DEF Duplicate, Returned, Errored, FilesType, LocalsType, Failing, Handling, OnlyTexts, files, locals
  <1>7. ASSUME NEW p \in Procs, Enqueue(p) PROVE Handling' /\ OnlyTexts'
    BY <1>7, SMTT(30) DEF Enqueue, FilesType, LocalsType, Failing, Handling, OnlyTexts, files, locals
  <1>8. ASSUME NEW p \in Procs, Link(p) PROVE Handling' /\ OnlyTexts'
    BY <1>8, SMTT(30) DEF Link, FilesType, LocalsType, Failing, Handling, OnlyTexts, files, locals
  <1>9. ASSUME NEW p \in Procs, Complete(p) PROVE Handling' /\ OnlyTexts'
    BY <1>9, SMTT(30) DEF Complete, Returned, FilesType, LocalsType, Failing, Handling, OnlyTexts, files, locals
  <1>10. CASE StoreOffset
    BY <1>10 DEF StoreOffset, Forget, FilesType, LocalsType, Failing, Handling, OnlyTexts, files, locals
  <1>11. CASE ReadState
    BY <1>11 DEF ReadState, FilesType, LocalsType, Failing, Handling, OnlyTexts, files, locals
  <1>12. CASE Prepare
    BY <1>12, SMTT(30) DEF Prepare, FilesType, LocalsType, Failing, Handling, OnlyTexts, files, locals
  <1>13. ASSUME NEW p \in Procs, Ack(p) PROVE Handling' /\ OnlyTexts'
    BY <1>13, SMTT(30) DEF Ack, FilesType, LocalsType, Failing, Handling, OnlyTexts, files, locals
  <1>14. ASSUME NEW p \in Procs, Cancel(p) PROVE Handling' /\ OnlyTexts'
    BY <1>14, SMTT(30) DEF Cancel, FilesType, LocalsType, Failing, Handling, OnlyTexts, files, locals
  <1>15. ASSUME NEW p \in Procs, SiblingStops(p) PROVE Handling' /\ OnlyTexts'
    BY <1>15, SMTT(30) DEF SiblingStops, FilesType, LocalsType, Failing, Handling, OnlyTexts, files, locals
  <1>16. ASSUME NEW p \in Procs, Close(p) PROVE Handling' /\ OnlyTexts'
    BY <1>16, SMTT(30) DEF Close, FilesType, LocalsType, Failing, Handling, OnlyTexts, files, locals
  <1>17. ASSUME NEW p \in Procs, WriteState(p) PROVE Handling' /\ OnlyTexts'
    BY <1>17, SMTT(30) DEF WriteState, FilesType, LocalsType, Failing, Handling, OnlyTexts, files, locals
  <1>18. ASSUME NEW p \in Procs, Commit(p) PROVE Handling' /\ OnlyTexts'
    BY <1>18, SMTT(30) DEF Commit, FilesType, LocalsType, Failing, Handling, OnlyTexts, files, locals
  <1>19. CASE Scan
    BY <1>19 DEF Scan, FilesType, LocalsType, Failing, Handling, OnlyTexts, files, locals
  <1>20. CASE TakeTransition
    BY <1>20, SMTT(30) DEF TakeTransition, FilesType, LocalsType, Failing, Handling, OnlyTexts, files, locals
  <1>21. CASE Boundary
    BY <1>21, SMTT(30) DEF Boundary, FilesType, LocalsType, Failing, Handling, OnlyTexts, files, locals
  <1>22. CASE ScanHeld
    BY <1>22 DEF ScanHeld, HeldRecords, FilesType, LocalsType, Failing, Handling, OnlyTexts, files, locals
  <1>23. CASE TakeHeld
    BY <1>23, SMTT(30) DEF TakeHeld, FilesType, LocalsType, Failing, Handling, OnlyTexts, files, locals
  <1>24. CASE Replan
    BY <1>24 DEF Replan, Plan, FilesType, LocalsType, Failing, Handling, OnlyTexts, files, locals
  <1>25. CASE RemoveHeld
    BY <1>25 DEF RemoveHeld, FilesType, LocalsType, Failing, Handling, OnlyTexts, files, locals
  <1>26. CASE Rest
    BY <1>26 DEF Rest, Forget, FilesType, LocalsType, Failing, Handling, OnlyTexts, files, locals
  <1>27. CASE GatewayFails
    BY <1>27, SMTT(30) DEF GatewayFails, Forget, FilesType, LocalsType, Failing, Handling, OnlyTexts, files, locals
  <1>28. CASE SettleDeferred
    BY <1>28, SMTT(30) DEF SettleDeferred, Forget, FilesType, LocalsType, Failing, Handling, OnlyTexts, files, locals
  <1>29. CASE RetrySettle
    BY <1>29 DEF RetrySettle, FilesType, LocalsType, Failing, Handling, OnlyTexts, files, locals
  <1>30. CASE LoopFails
    BY <1>30, SMTT(30) DEF LoopFails, FilesType, LocalsType, Failing, Handling, OnlyTexts, files, locals
  <1>31. CASE GatewayCrashes
    BY <1>31, SMTT(30) DEF GatewayCrashes, Forget, FilesType, LocalsType, Failing, Handling, OnlyTexts, files, locals
  <1>32. CASE LoopCrashes
    BY <1>32, SMTT(30) DEF LoopCrashes, Forget, FilesType, LocalsType, Failing, Handling, OnlyTexts, files, locals
  <1> QED
    BY <1>1, <1>2, <1>3, <1>4, <1>5, <1>6, <1>7, <1>8, <1>9, <1>10, <1>11, <1>12, <1>13, <1>14, <1>15, <1>16, <1>17, <1>18, <1>19, <1>20, <1>21, <1>22, <1>23, <1>24, <1>25, <1>26, <1>27, <1>28, <1>29, <1>30, <1>31, <1>32, SMTT(30) DEF Next, Gateway, Loop, Receive, Transition

\* only a command that prepares a transition writes an intent
LEMMA IntentsKept ==
    ASSUME Next, ~Prepare
    PROVE  intents' = intents
  <1>1. ASSUME NEW p \in Procs, Receive(p) \/ Transition(p) PROVE intents' = intents
    BY <1>1 DEF Receive, Admit, Hold, CreateClaim, RecoverClaim, Duplicate, Enqueue, Link, Complete,
                Transition, Ack, Cancel, SiblingStops, Close, WriteState, Commit, files
  <1>2. CASE Poll \/ StoreOffset \/ ReadState
    BY <1>2 DEF Poll, StoreOffset, ReadState, files
  <1>3. CASE Scan \/ TakeTransition \/ Boundary \/ ScanHeld \/ TakeHeld \/ Replan \/ RemoveHeld \/ Rest
    BY <1>3 DEF Scan, TakeTransition, Boundary, ScanHeld, TakeHeld, Replan, RemoveHeld, Rest, files
  <1>4. CASE RetrySettle \/ GatewayFails \/ SettleDeferred \/ LoopFails \/ GatewayCrashes \/ LoopCrashes
    BY <1>4, SMTT(30) DEF RetrySettle, GatewayFails, SettleDeferred, LoopFails, GatewayCrashes, LoopCrashes, files
  <1> QED
    BY <1>1, <1>2, <1>3, <1>4 DEF Next, Gateway, Loop

\* an intent is never lost, and the one that is added is of the prepared transition
LEMMA IntentsGrow ==
    ASSUME Typed, Next
    PROVE  /\ Intents \subseteq Intents'
           /\ \A i \in Intents' \ Intents :
                 i.id.command = "new" => i.frozen = msg["gateway"] /\ msg["gateway"] \in Msgs
  <1> FilesType /\ LocalsType /\ Handling /\ InHand
    BY DEF Typed, TypeOK
  <1>1. CASE Prepare
    <2>1. CASE intents' = intents
      BY <2>1, SMTT(30) DEF Intents
    <2>2. CASE \E b \in Assessments :
                 intents' = Append(intents, [id |-> Id(Kind[msg["gateway"]], st["gateway"]),
                                             frozen |-> IF Kind[msg["gateway"]] = "new" THEN msg["gateway"] ELSE NoSession,
                                             boundary |-> b])
      <3> PICK b \in Assessments :
                 intents' = Append(intents, [id |-> Id(Kind[msg["gateway"]], st["gateway"]),
                                             frozen |-> IF Kind[msg["gateway"]] = "new" THEN msg["gateway"] ELSE NoSession,
                                             boundary |-> b])
        BY <2>2
      <3> DEFINE new == [id |-> Id(Kind[msg["gateway"]], st["gateway"]),
                         frozen |-> IF Kind[msg["gateway"]] = "new" THEN msg["gateway"] ELSE NoSession,
                         boundary |-> b]
      <3>1. new.id.command = "new" => new.frozen = msg["gateway"] /\ msg["gateway"] \in Msgs
        BY <1>1, SMTT(30) DEF Id, Prepare, Handling
      <3>2. intents' = Append(intents, new)
        OBVIOUS
      <3> HIDE DEF new
      <3>3. Intents' = Intents \cup {new}
        <4>1. Len(intents') = Len(intents) + 1 /\ intents'[Len(intents) + 1] = new
          BY <3>2, SMTT(30) DEF FilesType
        <4>2. \A n \in 1 .. Len(intents) : intents'[n] = intents[n]
          BY <3>2, SMTT(30) DEF FilesType
        <4>3. Len(intents) \in Nat
          BY SMTT(30) DEF FilesType
        <4> QED
          BY <4>1, <4>2, <4>3, SMTT(30) DEF Intents
      <3> QED
        BY <3>1, <3>3
    <2> QED
      BY <1>1, <2>1, <2>2 DEF Prepare
  <1>2. CASE ~Prepare
    BY <1>2, IntentsKept DEF Intents
  <1> QED
    BY <1>1, <1>2, SMTT(30)

LEMMA TargetsStep ==
    ASSUME Typed, Next
    PROVE  Targets'
  BY IntentsGrow, SMTT(30) DEF Typed, Targets
=============================================================================
