----------------------- MODULE ChannelIngressProofs -----------------------
(***************************************************************************)
(* Type correctness of ChannelIngress, at most one turn per update, and no *)
(* commit without its acknowledgement, for any updates of any kinds, any   *)
(* limits of a reconciliation and any number of faults.                    *)
(***************************************************************************)
EXTENDS ChannelIngressTypes

USE ZenonT(60)

USE IngressAssumption DEF Msgs, Sessions, NoSession, Procs, Boundaries, Goto, At

\* the program points outside a transition
Elsewhere == {"idle", "admit", "hold", "claim", "enqueue", "link", "complete", "offset", "transitions",
              "held", "replan", "remove"}

\* what a step of p leaves alone
OthersKept(p) ==
    \A q \in Procs \ {p} : pc'[q] = pc[q] /\ tr'[q] = tr[q] /\ msg'[q] = msg[q]

LEMMA LeaveHand ==
    ASSUME InHand, Intents \subseteq Intents', NEW p \in Procs, OthersKept(p), pc'[p] \in Elsewhere
    PROVE  InHand'
  <1>1. \A id : Recorded(id) => \E i \in Intents' : i.id = id
    BY DEF Recorded
  <1>2. CASE p = "gateway"
    BY <1>1, <1>2, SMTT(30) DEF InHand, Recorded, OthersKept, Elsewhere
  <1>3. CASE p = "loop"
    BY <1>1, <1>3, SMTT(30) DEF InHand, Recorded, OthersKept, Elsewhere
  <1> QED
    BY <1>2, <1>3

\* ... and a step that goes on with the recorded transition of p
LEMMA StayInHand ==
    ASSUME InHand, Intents \subseteq Intents', NEW p \in Procs, OthersKept(p), tr'[p] = tr[p],
           Recorded(tr[p]), pc'[p] \notin {"apply", "prepare"}, pc'[p] = "close" => tr[p].command = "new"
    PROVE  InHand'
  <1>1. \A id : Recorded(id) => \E i \in Intents' : i.id = id
    BY DEF Recorded
  <1>2. CASE p = "gateway"
    BY <1>1, <1>2, SMTT(30) DEF InHand, Recorded, OthersKept
  <1>3. CASE p = "loop"
    BY <1>1, <1>3, SMTT(30) DEF InHand, Recorded, OthersKept
  <1> QED
    BY <1>2, <1>3

LEMMA InHandStep ==
    ASSUME Typed, Next
    PROVE  InHand'
  <1> LocalsType /\ FilesType /\ Handling /\ OnlyTexts /\ InHand /\ Targets
    BY DEF Typed, TypeOK
  <1>r. Intents \subseteq Intents'
    BY IntentsGrow
  <1>1. CASE Poll
    <2>1. OthersKept("gateway")
      BY <1>1 DEF Poll, Plan, LocalsType, OthersKept
    <2>2. pc'["gateway"] \in Elsewhere
      BY <1>1 DEF Poll, Plan, LocalsType, Handling, Elsewhere
    <2> QED
      BY <1>r, <2>1, <2>2, LeaveHand
  <1>2. ASSUME NEW p \in Procs, Admit(p) PROVE InHand'
    <2>1. OthersKept(p)
      BY <1>2 DEF Admit, LocalsType, OthersKept
    <2>2. pc'[p] \in Elsewhere
      BY <1>2 DEF Admit, LocalsType, Handling, Elsewhere
    <2> QED
      BY <1>r, <2>1, <2>2, LeaveHand
  <1>3. ASSUME NEW p \in Procs, Hold(p) PROVE InHand'
    <2>1. OthersKept(p)
      BY <1>3 DEF Hold, Errored, LocalsType, OthersKept
    <2>2. pc'[p] \in Elsewhere
      BY <1>3 DEF Hold, Errored, LocalsType, Handling, Elsewhere
    <2> QED
      BY <1>r, <2>1, <2>2, LeaveHand
  <1>4. ASSUME NEW p \in Procs, CreateClaim(p) PROVE InHand'
    <2>1. tr' = tr /\ msg' = msg
      BY <1>4 DEF CreateClaim
    <2>2. /\ pc'[p] \in {"enqueue", "apply"} /\ (pc'[p] = "apply" => Kind[msg[p]] # "text")
          /\ \A q \in Procs \ {p} : pc'[q] = pc[q]
      BY <1>4 DEF CreateClaim, LocalsType
    <2>3. \A id : Recorded(id) => \E i \in Intents' : i.id = id
      BY <1>r DEF Recorded
    <2> QED
      BY <2>1, <2>2, <2>3, SMTT(30) DEF InHand, Recorded
  <1>5. ASSUME NEW p \in Procs, RecoverClaim(p) PROVE InHand'
    <2>1. tr' = tr /\ msg' = msg
      BY <1>5 DEF RecoverClaim
    <2>2. /\ pc'[p] \in {"enqueue", "apply"} /\ (pc'[p] = "apply" => Kind[msg[p]] # "text")
          /\ \A q \in Procs \ {p} : pc'[q] = pc[q]
      BY <1>5 DEF RecoverClaim, LocalsType
    <2>3. \A id : Recorded(id) => \E i \in Intents' : i.id = id
      BY <1>r DEF Recorded
    <2> QED
      BY <2>1, <2>2, <2>3, SMTT(30) DEF InHand, Recorded
  <1>6. ASSUME NEW p \in Procs, Duplicate(p) PROVE InHand'
    <2>1. OthersKept(p)
      BY <1>6 DEF Duplicate, Returned, Errored, LocalsType, OthersKept
    <2>2. pc'[p] \in Elsewhere
      BY <1>6 DEF Duplicate, Returned, Errored, LocalsType, Handling, Elsewhere
    <2> QED
      BY <1>r, <2>1, <2>2, LeaveHand
  <1>7. ASSUME NEW p \in Procs, Enqueue(p) PROVE InHand'
    <2>1. OthersKept(p)
      BY <1>7 DEF Enqueue, LocalsType, OthersKept
    <2>2. pc'[p] \in Elsewhere
      BY <1>7 DEF Enqueue, LocalsType, Handling, Elsewhere
    <2> QED
      BY <1>r, <2>1, <2>2, LeaveHand
  <1>8. ASSUME NEW p \in Procs, Link(p) PROVE InHand'
    <2>1. OthersKept(p)
      BY <1>8 DEF Link, LocalsType, OthersKept
    <2>2. pc'[p] \in Elsewhere
      BY <1>8 DEF Link, LocalsType, Handling, Elsewhere
    <2> QED
      BY <1>r, <2>1, <2>2, LeaveHand
  <1>9. ASSUME NEW p \in Procs, Complete(p) PROVE InHand'
    <2>1. OthersKept(p)
      BY <1>9 DEF Complete, Returned, LocalsType, OthersKept
    <2>2. pc'[p] \in Elsewhere
      BY <1>9 DEF Complete, Returned, LocalsType, Handling, Elsewhere
    <2> QED
      BY <1>r, <2>1, <2>2, LeaveHand
  <1>10. CASE StoreOffset
    <2>1. OthersKept("gateway")
      BY <1>10 DEF StoreOffset, Forget, LocalsType, OthersKept
    <2>2. pc'["gateway"] \in Elsewhere
      BY <1>10 DEF StoreOffset, Forget, LocalsType, Handling, Elsewhere
    <2> QED
      BY <1>r, <2>1, <2>2, LeaveHand
  <1>11. CASE ReadState
    <2>1. OthersKept("gateway") /\ tr' = tr /\ msg' = msg
      BY <1>11 DEF ReadState, LocalsType, OthersKept
    <2>2. /\ pc["gateway"] = "apply" /\ Kind[msg["gateway"]] # "text"
          /\ pc'["gateway"] = IF Kind[msg["gateway"]] = "note" THEN "write" ELSE "prepare"
      BY <1>11 DEF ReadState, LocalsType, InHand
    <2>3. Kind[msg["gateway"]] \in {"new", "stop", "note"}
      BY <2>2 DEF Handling, LocalsType
    <2>4. Recorded(tr["loop"]) => Recorded(tr["loop"])'
      BY <1>r, <2>1 DEF Recorded
    <2> QED
      BY <2>1, <2>2, <2>3, <2>4 DEF InHand, OthersKept
  <1>12. CASE Prepare
    <2>1. tr' = [tr EXCEPT !["gateway"] = Id(Kind[msg["gateway"]], st["gateway"])]
      BY <1>12 DEF Prepare
    <2>2. \E i \in Intents' : i.id = Id(Kind[msg["gateway"]], st["gateway"])
      <3>1. CASE Recorded(Id(Kind[msg["gateway"]], st["gateway"]))
        BY <1>r, <3>1 DEF Recorded
      <3>2. CASE ~Recorded(Id(Kind[msg["gateway"]], st["gateway"]))
        <4>1. PICK b \in Assessments :
                intents' = Append(intents, [id |-> Id(Kind[msg["gateway"]], st["gateway"]),
                                            frozen |-> IF Kind[msg["gateway"]] = "new" THEN msg["gateway"] ELSE NoSession,
                                            boundary |-> b])
          BY <1>12, <3>2, SMTT(30), SMTT(30) DEF Prepare
        <4>2. /\ Len(intents') = Len(intents) + 1 /\ Len(intents) \in Nat
              /\ intents'[Len(intents) + 1].id = Id(Kind[msg["gateway"]], st["gateway"])
          BY <4>1, SMTT(30) DEF FilesType
        <4> QED
          BY <4>2, SMTT(30) DEF Intents
      <3> QED
        BY <3>1, <3>2
    <2> QED
      <3>1. /\ Recorded(tr["gateway"])' /\ tr'["loop"] = tr["loop"] /\ msg' = msg
            /\ pc'["gateway"] \in {"ack", "cancel"} /\ pc'["loop"] = pc["loop"]
        BY <1>12, <2>1, <2>2, SMTT(30), SMTT(30) DEF Prepare, LocalsType, Recorded
      <3>2. Recorded(tr["loop"]) => Recorded(tr["loop"])'
        BY <1>r, <3>1 DEF Recorded
      <3> QED
        BY <3>1, <3>2, SMTT(30), SMTT(30) DEF InHand
  <1>13. ASSUME NEW p \in Procs, Ack(p) PROVE InHand'
    <2>1. OthersKept(p) /\ tr'[p] = tr[p] /\ pc'[p] \notin {"apply", "prepare"}
      BY <1>13 DEF Ack, LocalsType, OthersKept
    <2>2. Recorded(tr[p]) /\ (pc'[p] = "close" => tr[p].command = "new")
      BY <1>13 DEF Ack, LocalsType, InHand
    <2> QED
      BY <1>r, <2>1, <2>2, StayInHand
  <1>14. ASSUME NEW p \in Procs, Cancel(p) PROVE InHand'
    <2>1. OthersKept(p) /\ tr'[p] = tr[p] /\ pc'[p] \notin {"apply", "prepare"}
      BY <1>14 DEF Cancel, LocalsType, OthersKept
    <2>2. Recorded(tr[p]) /\ (pc'[p] = "close" => tr[p].command = "new")
      BY <1>14 DEF Cancel, LocalsType, InHand
    <2> QED
      BY <1>r, <2>1, <2>2, StayInHand
  <1>15. ASSUME NEW p \in Procs, SiblingStops(p) PROVE InHand'
    <2>1. OthersKept(p) /\ tr'[p] = tr[p] /\ pc'[p] \notin {"apply", "prepare"}
      BY <1>15 DEF SiblingStops, LocalsType, OthersKept
    <2>2. Recorded(tr[p]) /\ (pc'[p] = "close" => tr[p].command = "new")
      BY <1>15 DEF SiblingStops, LocalsType, InHand
    <2> QED
      BY <1>r, <2>1, <2>2, StayInHand
  <1>16. ASSUME NEW p \in Procs, Close(p) PROVE InHand'
    <2>1. OthersKept(p) /\ tr'[p] = tr[p] /\ pc'[p] \notin {"apply", "prepare"}
      BY <1>16 DEF Close, LocalsType, OthersKept
    <2>2. Recorded(tr[p]) /\ (pc'[p] = "close" => tr[p].command = "new")
      BY <1>16 DEF Close, LocalsType, InHand
    <2> QED
      BY <1>r, <2>1, <2>2, StayInHand
  <1>17. ASSUME NEW p \in Procs, WriteState(p) PROVE InHand'
    <2>1. OthersKept(p) /\ tr'[p] = tr[p] /\ pc'[p] \in {"commit", "complete"}
      BY <1>17 DEF WriteState, LocalsType, OthersKept
    <2>2. CASE pc'[p] = "complete"
      BY <1>r, <2>1, <2>2, LeaveHand DEF Elsewhere
    <2>3. CASE pc'[p] = "commit"
      <3>1. Recorded(tr[p])
        BY <1>17, <2>3 DEF WriteState, LocalsType, InHand
      <3> QED
        BY <1>r, <2>1, <2>3, <3>1, StayInHand
    <2> QED
      BY <2>1, <2>2, <2>3
  <1>18. ASSUME NEW p \in Procs, Commit(p) PROVE InHand'
    <2>1. OthersKept(p)
      BY <1>18 DEF Commit, LocalsType, OthersKept
    <2>2. pc'[p] \in Elsewhere
      BY <1>18 DEF Commit, LocalsType, Elsewhere
    <2> QED
      BY <1>r, <2>1, <2>2, LeaveHand
  <1>19. CASE Scan
    <2>1. OthersKept("loop")
      BY <1>19 DEF Scan, LocalsType, OthersKept
    <2>2. pc'["loop"] \in Elsewhere
      BY <1>19 DEF Scan, LocalsType, Handling, Elsewhere
    <2> QED
      BY <1>r, <2>1, <2>2, LeaveHand
  <1>20. CASE TakeTransition
    <2>1. PICK n \in todo : TakeTransition!(n)
      BY <1>20 DEF TakeTransition
    <2>2. intents[n] \in Intents
      BY SMTT(30) DEF LocalsType, Intents
    <2> QED
      BY <1>r, <2>1, <2>2, SMTT(30), SMTT(30) DEF LocalsType, InHand, Recorded
  <1>21. CASE Boundary
    <2>1. IntentOf(tr["loop"]).id = tr["loop"]
      BY <1>21, IntentOfRecorded DEF Boundary, InHand
    <2>2. tr' = tr /\ msg' = msg /\ Recorded(tr["loop"])
      BY <1>21 DEF Boundary, InHand
    <2>3. /\ pc'["loop"] \in {"close", "commit", "transitions"}
          /\ pc'["loop"] = "close" => tr["loop"].command = "new"
          /\ pc'["gateway"] = pc["gateway"]
      BY <1>21, <2>1 DEF Boundary, LocalsType
    <2> QED
      BY <1>r, <2>2, <2>3 DEF InHand, Recorded
  <1>22. CASE ScanHeld
    <2>1. OthersKept("loop")
      BY <1>22 DEF ScanHeld, LocalsType, OthersKept
    <2>2. pc'["loop"] \in Elsewhere
      BY <1>22 DEF ScanHeld, LocalsType, Handling, Elsewhere
    <2> QED
      BY <1>r, <2>1, <2>2, LeaveHand
  <1>23. CASE TakeHeld
    <2>1. OthersKept("loop")
      BY <1>23 DEF TakeHeld, LocalsType, OthersKept
    <2>2. pc'["loop"] \in Elsewhere
      BY <1>23 DEF TakeHeld, LocalsType, Handling, Elsewhere
    <2> QED
      BY <1>r, <2>1, <2>2, LeaveHand
  <1>24. CASE Replan
    <2>1. OthersKept("loop")
      BY <1>24 DEF Replan, Plan, LocalsType, OthersKept
    <2>2. pc'["loop"] \in Elsewhere
      BY <1>24 DEF Replan, Plan, LocalsType, Handling, Elsewhere
    <2> QED
      BY <1>r, <2>1, <2>2, LeaveHand
  <1>25. CASE RemoveHeld
    <2>1. OthersKept("loop")
      BY <1>25 DEF RemoveHeld, LocalsType, OthersKept
    <2>2. pc'["loop"] \in Elsewhere
      BY <1>25 DEF RemoveHeld, LocalsType, Handling, Elsewhere
    <2> QED
      BY <1>r, <2>1, <2>2, LeaveHand
  <1>26. CASE Rest
    <2>1. OthersKept("loop")
      BY <1>26 DEF Rest, Forget, LocalsType, OthersKept
    <2>2. pc'["loop"] \in Elsewhere
      BY <1>26 DEF Rest, Forget, LocalsType, Handling, Elsewhere
    <2> QED
      BY <1>r, <2>1, <2>2, LeaveHand
  <1>27. CASE GatewayFails
    <2>1. OthersKept("gateway")
      BY <1>27 DEF GatewayFails, Forget, LocalsType, OthersKept
    <2>2. pc'["gateway"] \in Elsewhere
      BY <1>27 DEF GatewayFails, Forget, LocalsType, Handling, Elsewhere
    <2> QED
      BY <1>r, <2>1, <2>2, LeaveHand
  <1>28. CASE SettleDeferred
    <2>1. OthersKept("gateway")
      BY <1>28 DEF SettleDeferred, Forget, LocalsType, OthersKept
    <2>2. pc'["gateway"] \in Elsewhere
      BY <1>28 DEF SettleDeferred, Forget, LocalsType, Handling, Elsewhere
    <2> QED
      BY <1>r, <2>1, <2>2, LeaveHand
  <1>29. CASE RetrySettle
    <2>1. OthersKept("loop") /\ pc' = pc /\ tr' = tr /\ msg' = msg
      BY <1>29 DEF RetrySettle, locals, OthersKept
    <2>2. \A id : Recorded(id) => \E i \in Intents' : i.id = id
      BY <1>r DEF Recorded
    <2> QED
      BY <2>1, <2>2, SMTT(30) DEF InHand, Recorded
  <1>30. CASE LoopFails
    <2>1. OthersKept("loop")
      BY <1>30 DEF LoopFails, LocalsType, OthersKept
    <2>2. pc'["loop"] \in Elsewhere
      BY <1>30 DEF LoopFails, LocalsType, Handling, Elsewhere
    <2> QED
      BY <1>r, <2>1, <2>2, LeaveHand
  <1>31. CASE GatewayCrashes
    <2>1. OthersKept("gateway")
      BY <1>31 DEF GatewayCrashes, Forget, LocalsType, OthersKept
    <2>2. pc'["gateway"] \in Elsewhere
      BY <1>31 DEF GatewayCrashes, Forget, LocalsType, Handling, Elsewhere
    <2> QED
      BY <1>r, <2>1, <2>2, LeaveHand
  <1>32. CASE LoopCrashes
    <2>1. OthersKept("loop")
      BY <1>32 DEF LoopCrashes, Forget, LocalsType, OthersKept
    <2>2. pc'["loop"] \in Elsewhere
      BY <1>32 DEF LoopCrashes, Forget, LocalsType, Handling, Elsewhere
    <2> QED
      BY <1>r, <2>1, <2>2, LeaveHand
  <1> QED
    BY <1>1, <1>2, <1>3, <1>4, <1>5, <1>6, <1>7, <1>8, <1>9, <1>10, <1>11, <1>12, <1>13, <1>14, <1>15, <1>16, <1>17, <1>18, <1>19, <1>20, <1>21, <1>22, <1>23, <1>24, <1>25, <1>26, <1>27, <1>28, <1>29, <1>30, <1>31, <1>32, SMTT(30), SMTT(30) DEF Next, Gateway, Loop, Receive, Transition

LEMMA InitTyped == ASSUME Init PROVE Typed
  <1>1. FilesType
    BY SMTT(30) DEF Init, FilesType
  <1>2. ClaimsType
    BY SMTT(30) DEF Init, ClaimsType
  <1>3. LocalsType
    <2>1. tr \in [Procs -> Ids \cup {NoTransition}]
      BY DEF Init
    <2>2. msg \in [Procs -> Msgs \cup {0}] /\ plan \in [Procs -> Sessions] /\ st \in [Procs -> Sessions]
      BY SMTT(30) DEF Init
    <2>3. todo = {} /\ replay = {} /\ ready \in BOOLEAN
      BY DEF Init
    <2> QED
      BY <2>1, <2>2, <2>3 DEF Init, LocalsType
  <1>4. Handling /\ OnlyTexts /\ Targets /\ InHand
    BY SMTT(30) DEF Init, Handling, OnlyTexts, Targets, InHand, Intents
  <1> QED
    BY <1>1, <1>2, <1>3, <1>4 DEF Typed, TypeOK

LEMMA TypedStep ==
    ASSUME Typed, [Next]_vars
    PROVE  Typed'
  <1>1. CASE Next
    BY <1>1, TypeStep, HandlingStep, TargetsStep, InHandStep DEF Typed
  <1>2. CASE UNCHANGED vars
    <2>1. FilesType /\ ClaimsType /\ LocalsType => FilesType' /\ ClaimsType' /\ LocalsType'
      BY <1>2, KeepFilesType, KeepClaimsType, SMTT(30), SMTT(30) DEF vars, files, locals, LocalsType
    <2>2. Handling /\ OnlyTexts => Handling' /\ OnlyTexts'
      BY <1>2, SMTT(30), SMTT(30) DEF vars, locals, Handling, OnlyTexts
    <2>3. Targets /\ InHand => Targets' /\ InHand'
      BY <1>2, SMTT(30), SMTT(30) DEF vars, files, locals, Targets, InHand, Recorded, Intents
    <2> QED
      BY <2>1, <2>2, <2>3 DEF Typed, TypeOK
  <1> QED
    BY <1>1, <1>2

\* From the initial state on, the files, the claims and the locals keep their
\* types in every handler.
THEOREM TypeCorrect == Spec => []TypeOK
  <1>1. Init => Typed
    BY InitTyped
  <1>2. Typed /\ [Next]_vars => Typed'
    BY TypedStep
  <1> QED
    BY <1>1, <1>2, PTL DEF Spec, Typed

-----------------------------------------------------------------------------
(* Turns and acknowledgements *)

\* the locals are functions on the processes; what their values are matters to
\* few of the steps
Points == Failing \cup {"idle", "admit", "hold", "claim", "offset", "transitions", "boundary", "held",
                        "replan", "remove"}
Hands == Msgs \cup {0}
Changes == Ids \cup {NoTransition}

Shape == pc \in [Procs -> Points] /\ msg \in [Procs -> Hands] /\ tr \in [Procs -> Changes]

LEMMA LocalsShape == ASSUME LocalsType PROVE Shape
  BY DEF LocalsType, Shape, Points, Hands, Changes

\* The claim file of an update is there before its turn is queued, and only one
\* handling of the update is between the two.
Claimed ==
    /\ \A n \in 1 .. Len(queue) : claim[queue[n].msg] # "none"
    /\ \A p \in Procs : pc[p] = "enqueue" =>
          /\ claim[msg[p]] # "none"
          /\ \A n \in 1 .. Len(queue) : queue[n].msg # msg[p]
    /\ ~(pc["gateway"] = "enqueue" /\ pc["loop"] = "enqueue" /\ msg["gateway"] = msg["loop"])

QueueInv == Claimed /\ QueuedOnce

\* Past its first step a /new in hand has its acknowledgement.
Acked ==
    \A p \in Procs :
        \/ pc[p] \in {"cancel", "stops", "close", "commit", "boundary"}
        \/ pc[p] = "write" /\ (p = "loop" \/ Kind[msg[p]] # "note")
        => (tr[p].command = "new" => tr[p].old \in acks)

\* the queue holds turns of updates
LEMMA QueuedUpdates ==
    ASSUME FilesType
    PROVE  \A n \in 1 .. Len(queue) : queue[n].msg \in Msgs
  <1> DEFINE Turn == [msg : Msgs, session : Sessions]
  <1>1. queue \in Seq(Turn)
    BY DEF FilesType
  <1>2. \A t \in Turn : t.msg \in Msgs
    OBVIOUS
  <1> HIDE DEF Turn
  <1>3. \A n \in 1 .. Len(queue) : queue[n] \in Turn
    BY <1>1, SMTT(30)
  <1> QED
    BY <1>2, <1>3

\* a step that queues nothing, removes no claim file and lets nobody on to the
\* queue keeps the invariant
LEMMA KeepQueueInv ==
    ASSUME Typed, QueueInv, queue' = queue,
           \A m \in Msgs : claim[m] # "none" => claim'[m] # "none",
           \A p \in Procs : pc'[p] = "enqueue" => pc[p] = "enqueue" /\ msg'[p] = msg[p]
    PROVE  QueueInv'
  <1> FilesType /\ LocalsType /\ Handling
    BY DEF Typed, TypeOK
  <1>1. \A n \in 1 .. Len(queue) : queue[n].msg \in Msgs
    BY QueuedUpdates
  <1>2. \A p \in Procs : pc[p] = "enqueue" => msg[p] \in Msgs
    BY DEF LocalsType, Handling, Failing
  <1> QED
    BY <1>1, <1>2 DEF QueueInv, Claimed, QueuedOnce

LEMMA QueueStep ==
    ASSUME Typed, QueueInv, Next
    PROVE  QueueInv'
  <1> FilesType /\ ClaimsType /\ LocalsType /\ Handling /\ OnlyTexts
    BY DEF Typed, TypeOK
  <1>s. Shape
    BY LocalsShape
  <1>1. ASSUME Poll \/ StoreOffset \/ ReadState \/ Prepare \/ Scan \/ TakeTransition PROVE QueueInv'
    <2>1. queue' = queue /\ claim' = claim
      BY <1>1 DEF Poll, StoreOffset, ReadState, Prepare, Scan, TakeTransition, files, claims
    <2>2. \A q \in Procs : pc'[q] = "enqueue" => pc[q] = "enqueue" /\ msg'[q] = msg[q]
      BY <1>1, <1>s DEF Poll, Plan, StoreOffset, ReadState, Prepare, Scan, TakeTransition, Forget, Shape, locals
    <2> QED
      BY <2>1, <2>2, KeepQueueInv
  <1>2. ASSUME NEW p \in Procs, Transition(p) PROVE QueueInv'
    <2>1. queue' = queue /\ claim' = claim
      BY <1>2 DEF Transition, Ack, Cancel, SiblingStops, Close, WriteState, Commit, files, claims
    <2>2. \A q \in Procs : pc'[q] = "enqueue" => pc[q] = "enqueue" /\ msg'[q] = msg[q]
      BY <1>2, <1>s DEF Transition, Ack, Cancel, SiblingStops, Close, WriteState, Commit, Shape, locals
    <2> QED
      BY <2>1, <2>2, KeepQueueInv
  <1>3. ASSUME NEW p \in Procs, Admit(p) \/ Hold(p) PROVE QueueInv'
    <2>1. queue' = queue /\ claim' = claim
      BY <1>3 DEF Admit, Hold, files, claims
    <2>2. \A q \in Procs : pc'[q] = "enqueue" => pc[q] = "enqueue" /\ msg'[q] = msg[q]
      BY <1>3, <1>s DEF Admit, Hold, Errored, Shape, locals
    <2> QED
      BY <2>1, <2>2, KeepQueueInv
  <1>4. ASSUME NEW p \in Procs, CreateClaim(p) PROVE QueueInv'
    <2>1. queue' = queue /\ msg' = msg /\ claim[msg[p]] = "none"
      BY <1>4 DEF CreateClaim, files
    <2>2. msg[p] \in Msgs
      BY <1>4 DEF CreateClaim, LocalsType, Handling
    <2>3. \A m \in Msgs : claim'[m] = IF m = msg[p] THEN "open" ELSE claim[m]
      BY <1>4, <2>2 DEF CreateClaim, ClaimsType
    <2>4. \A q \in Procs : pc'[q] = "enqueue" => q = p \/ pc[q] = "enqueue"
      BY <1>4 DEF CreateClaim, LocalsType
    <2>5. \A n \in 1 .. Len(queue) : queue[n].msg \in Msgs /\ queue[n].msg # msg[p]
      BY <2>1, QueuedUpdates DEF QueueInv, Claimed
    <2>6. \A q \in Procs : pc[q] = "enqueue" => msg[q] \in Msgs /\ msg[q] # msg[p]
      BY <2>1 DEF QueueInv, Claimed, LocalsType, Handling, Failing
    <2> QED
      BY <2>1, <2>2, <2>3, <2>4, <2>5, <2>6, SMTT(30), SMTT(30) DEF QueueInv, Claimed, QueuedOnce
  <1>5. ASSUME NEW p \in Procs, RecoverClaim(p) PROVE QueueInv'
    <2>1. queue' = queue
      BY <1>5 DEF RecoverClaim, files
    <2>2. \A m \in Msgs : claim[m] # "none" => claim'[m] # "none"
      BY <1>5 DEF RecoverClaim, Recoverable, OnlyTexts, ClaimsType, LocalsType, Handling, claims
    <2>3. \A q \in Procs : pc'[q] = "enqueue" => pc[q] = "enqueue" /\ msg'[q] = msg[q]
      BY <1>5, <1>s, SMTT(30), SMTT(30) DEF RecoverClaim, Recoverable, OnlyTexts, Shape, locals
    <2> QED
      BY <2>1, <2>2, <2>3, KeepQueueInv
  <1>6. ASSUME NEW p \in Procs, Duplicate(p) PROVE QueueInv'
    <2>1. queue' = queue
      BY <1>6 DEF Duplicate, files
    <2>2. \A m \in Msgs : claim[m] # "none" => claim'[m] # "none"
      BY <1>6 DEF Duplicate, Returned, Errored, ClaimsType, LocalsType, Handling, claims
    <2>3. \A q \in Procs : pc'[q] = "enqueue" => pc[q] = "enqueue" /\ msg'[q] = msg[q]
      BY <1>6, <1>s DEF Duplicate, Returned, Errored, Shape, locals
    <2> QED
      BY <2>1, <2>2, <2>3, KeepQueueInv, SMTT(30), SMTT(30)
  <1>7. ASSUME NEW p \in Procs, Enqueue(p) PROVE QueueInv'
    <2> DEFINE turn == [msg |-> msg[p], session |-> plan[p]]
    <2>1. queue' = Append(queue, turn) /\ msg' = msg /\ claim' = claim
      BY <1>7 DEF Enqueue, claims
    <2>2. Len(queue') = Len(queue) + 1 /\ Len(queue) \in Nat
      BY <2>1, SMTT(30) DEF FilesType
    <2>3. \A n \in 1 .. Len(queue) : queue'[n] = queue[n]
      BY <2>1, SMTT(30), SMTT(30) DEF FilesType
    <2>4. queue'[Len(queue) + 1].msg = msg[p]
      BY <2>1, <2>2, SMTT(30) DEF FilesType
    <2> HIDE DEF turn
    <2>5. pc[p] = "enqueue" /\ \A q \in Procs : pc'[q] = "enqueue" => q # p /\ pc[q] = "enqueue"
      BY <1>7 DEF Enqueue, LocalsType
    <2>6. \A n \in 1 .. Len(queue') : n \in 1 .. Len(queue) \/ n = Len(queue) + 1
      BY <2>2, SMTT(30)
    <2>7. \A q \in Procs : pc'[q] = "enqueue" => msg[q] # msg[p]
      BY <2>5 DEF QueueInv, Claimed
    <2>8. QueuedOnce'
      BY <2>2, <2>3, <2>4, <2>5, <2>6, SMTT(30), SMTT(30) DEF QueueInv, Claimed, QueuedOnce
    <2>9. Claimed'
      BY <2>1, <2>3, <2>4, <2>5, <2>6, <2>7, SMTT(30), SMTT(30) DEF QueueInv, Claimed
    <2> QED
      BY <2>8, <2>9 DEF QueueInv
  <1>8. ASSUME NEW p \in Procs, Link(p) PROVE QueueInv'
    <2>1. queue' = queue
      BY <1>8 DEF Link, files
    <2>2. \A m \in Msgs : claim[m] # "none" => claim'[m] # "none"
      BY <1>8 DEF Link, ClaimsType, LocalsType, Handling, claims
    <2>3. \A q \in Procs : pc'[q] = "enqueue" => pc[q] = "enqueue" /\ msg'[q] = msg[q]
      BY <1>8, <1>s DEF Link, Shape, locals
    <2> QED
      BY <2>1, <2>2, <2>3, KeepQueueInv
  <1>9. ASSUME NEW p \in Procs, Complete(p) PROVE QueueInv'
    <2>1. queue' = queue
      BY <1>9 DEF Complete, files
    <2>2. \A m \in Msgs : claim[m] # "none" => claim'[m] # "none"
      BY <1>9 DEF Complete, Returned, ClaimsType, LocalsType, Handling, claims
    <2>3. \A q \in Procs : pc'[q] = "enqueue" => pc[q] = "enqueue" /\ msg'[q] = msg[q]
      BY <1>9, <1>s DEF Complete, Returned, Shape, locals
    <2> QED
      BY <2>1, <2>2, <2>3, KeepQueueInv
  <1>10. CASE Boundary
    <2>1. queue' = queue
      BY <1>10 DEF Boundary, files
    <2>2. \A m \in Msgs : claim[m] # "none" => claim'[m] # "none"
      BY <1>10, SMTT(30), SMTT(30) DEF Boundary, ClaimsType, LocalsType, Handling, claims
    <2>3. \A q \in Procs : pc'[q] = "enqueue" => pc[q] = "enqueue" /\ msg'[q] = msg[q]
      BY <1>10, <1>s, SMTT(30), SMTT(30) DEF Boundary, Shape, locals
    <2> QED
      BY <2>1, <2>2, <2>3, KeepQueueInv
  <1>11. CASE TakeHeld
    <2>1. queue' = queue
      BY <1>11 DEF TakeHeld, files
    <2>2. \A m \in Msgs : claim[m] # "none" => claim'[m] # "none"
      BY <1>11 DEF TakeHeld, ClaimsType, LocalsType, Handling, claims
    <2>3. \A q \in Procs : pc'[q] = "enqueue" => pc[q] = "enqueue" /\ msg'[q] = msg[q]
      BY <1>11, <1>s, SMTT(30), SMTT(30) DEF TakeHeld, Shape, locals
    <2> QED
      BY <2>1, <2>2, <2>3, KeepQueueInv
  <1>12. CASE GatewayFails
    <2>1. queue' = queue
      BY <1>12 DEF GatewayFails, files
    <2>2. \A m \in Msgs : claim[m] # "none" => claim'[m] # "none"
      BY <1>12 DEF GatewayFails, Forget, SettleClaim, ClaimsType, LocalsType, Handling, claims
    <2>3. \A q \in Procs : pc'[q] = "enqueue" => pc[q] = "enqueue" /\ msg'[q] = msg[q]
      BY <1>12, <1>s DEF GatewayFails, Forget, Shape, locals
    <2> QED
      BY <2>1, <2>2, <2>3, KeepQueueInv
  <1>13. CASE SettleDeferred
    BY <1>13, <1>s, KeepQueueInv, SMTT(30), SMTT(30) DEF SettleDeferred, Forget, Shape, files, claims, locals
  <1>14. CASE RetrySettle
    <2>1. queue' = queue
      BY <1>14 DEF RetrySettle, files
    <2>2. \A m \in Msgs : claim[m] # "none" => claim'[m] # "none"
      BY <1>14 DEF RetrySettle, SettleClaim, ClaimsType, LocalsType, Handling, claims
    <2>3. \A q \in Procs : pc'[q] = "enqueue" => pc[q] = "enqueue" /\ msg'[q] = msg[q]
      BY <1>14, <1>s DEF RetrySettle, Shape, locals
    <2> QED
      BY <2>1, <2>2, <2>3, KeepQueueInv
  <1>15. ASSUME ScanHeld \/ Replan \/ RemoveHeld \/ Rest \/ LoopFails \/ GatewayCrashes \/ LoopCrashes PROVE QueueInv'
    <2>1. queue' = queue /\ claim' = claim
      BY <1>15 DEF ScanHeld, Replan, RemoveHeld, Rest, LoopFails, GatewayCrashes, LoopCrashes, files, claims
    <2>2. \A q \in Procs : pc'[q] = "enqueue" => pc[q] = "enqueue" /\ msg'[q] = msg[q]
      BY <1>15, <1>s DEF ScanHeld, Replan, Plan, RemoveHeld, Rest, LoopFails, GatewayCrashes, LoopCrashes, Forget,
                       Shape, locals
    <2> QED
      BY <2>1, <2>2, KeepQueueInv
  <1> QED
    BY <1>1, <1>2, <1>3, <1>4, <1>5, <1>6, <1>7, <1>8, <1>9, <1>10, <1>11, <1>12, <1>13, <1>14, <1>15
       DEF Next, Gateway, Loop, Receive

Before == {"idle", "admit", "hold", "claim", "enqueue", "link", "complete", "apply", "prepare", "ack", "offset",
           "transitions", "held", "replan", "remove"}

\* a step that touches neither the outbox nor the receipts and takes nobody past
\* the acknowledgement keeps the invariant
LEMMA KeepAcked ==
    ASSUME Acked, CommitIsAcknowledged, acks' = acks, committed' = committed,
           \A q \in Procs : \/ pc'[q] = pc[q] /\ msg'[q] = msg[q] /\ tr'[q] = tr[q]
                            \/ pc'[q] \in Before
    PROVE  Acked' /\ CommitIsAcknowledged'
  BY DEF Acked, CommitIsAcknowledged, Before

LEMMA AckedStep ==
    ASSUME Typed, Acked, CommitIsAcknowledged, Next
    PROVE  Acked' /\ CommitIsAcknowledged'
  <1>s. Shape
    BY LocalsShape DEF Typed, TypeOK
  <1>h. InHand
    BY DEF Typed
  <1>1. ASSUME NEW p \in Procs, Receive(p) PROVE Acked' /\ CommitIsAcknowledged'
    <2>1. acks' = acks /\ committed' = committed
      BY <1>1 DEF Receive, Admit, Hold, CreateClaim, RecoverClaim, Duplicate, Enqueue, Link, Complete, files
    <2>2. \A q \in Procs : \/ pc'[q] = pc[q] /\ msg'[q] = msg[q] /\ tr'[q] = tr[q]
                           \/ pc'[q] \in Before
      BY <1>1, <1>s DEF Receive, Admit, Hold, CreateClaim, RecoverClaim, Duplicate, Enqueue, Link, Complete, Returned, Errored, Before, Shape, locals
    <2> QED
      BY <2>1, <2>2, KeepAcked
  <1>2. CASE Poll \/ ReadState \/ StoreOffset
    <2>1. acks' = acks /\ committed' = committed
      BY <1>2 DEF Poll, ReadState, StoreOffset, files
    <2>2. \A q \in Procs : \/ pc'[q] = pc[q] /\ msg'[q] = msg[q] /\ tr'[q] = tr[q]
                           \/ pc'[q] \in {"idle", "admit", "claim", "prepare"}
                           \/ q = "gateway" /\ pc'[q] = "write" /\ Kind[msg'[q]] = "note"
      BY <1>2, <1>s DEF Poll, Plan, ReadState, StoreOffset, Forget, Shape
    <2> QED
      BY <2>1, <2>2 DEF Acked, CommitIsAcknowledged
  <1>3. CASE Prepare
    <2>1. Kind[msg["gateway"]] \in {"new", "stop"}
      BY <1>3, <1>h, SMTT(30), SMTT(30) DEF Prepare, InHand
    <2>2. /\ tr' = [tr EXCEPT !["gateway"] = Id(Kind[msg["gateway"]], st["gateway"])]
          /\ pc' = [pc EXCEPT !["gateway"] = IF Kind[msg["gateway"]] = "new" THEN "ack" ELSE "cancel"]
          /\ msg' = msg /\ acks' = acks /\ committed' = committed
      BY <1>3 DEF Prepare
    <2> QED
      BY <1>s, <2>1, <2>2, SMTT(30), SMTT(30) DEF Shape, Acked, CommitIsAcknowledged, Id
  <1>4. ASSUME NEW p \in Procs, Ack(p) PROVE Acked' /\ CommitIsAcknowledged'
    BY <1>4, <1>s DEF Ack, Shape, Acked, CommitIsAcknowledged, files
  <1>5. ASSUME NEW p \in Procs, Cancel(p) PROVE Acked' /\ CommitIsAcknowledged'
    BY <1>5, <1>s DEF Cancel, Shape, Acked, CommitIsAcknowledged, files
  <1>6. ASSUME NEW p \in Procs, SiblingStops(p) PROVE Acked' /\ CommitIsAcknowledged'
    BY <1>6, <1>s DEF SiblingStops, Shape, Acked, CommitIsAcknowledged, files
  <1>7. ASSUME NEW p \in Procs, Close(p) PROVE Acked' /\ CommitIsAcknowledged'
    BY <1>7, <1>s DEF Close, Shape, Acked, CommitIsAcknowledged, files
  <1>8. ASSUME NEW p \in Procs, WriteState(p) PROVE Acked' /\ CommitIsAcknowledged'
    BY <1>8, <1>s DEF WriteState, Shape, Acked, CommitIsAcknowledged, files
  <1>9. ASSUME NEW p \in Procs, Commit(p) PROVE Acked' /\ CommitIsAcknowledged'
    BY <1>9, <1>s DEF Commit, Shape, Acked, CommitIsAcknowledged, files
  <1>10. CASE TakeTransition
    BY <1>10, <1>s, SMTT(30) DEF TakeTransition, Shape, Acked, CommitIsAcknowledged, files
  <1>11. CASE Boundary
    BY <1>11, <1>s DEF Boundary, Shape, Acked, CommitIsAcknowledged
  <1>12. ASSUME Scan \/ ScanHeld \/ TakeHeld \/ Replan \/ RemoveHeld \/ Rest PROVE Acked' /\ CommitIsAcknowledged'
    <2>1. acks' = acks /\ committed' = committed
      BY <1>12 DEF Scan, ScanHeld, TakeHeld, Replan, RemoveHeld, Rest, files
    <2>2. \A q \in Procs : \/ pc'[q] = pc[q] /\ msg'[q] = msg[q] /\ tr'[q] = tr[q]
                           \/ pc'[q] \in Before
      BY <1>12, <1>s DEF Scan, ScanHeld, TakeHeld, Replan, RemoveHeld, Rest, Plan, Forget, Before, Shape, locals
    <2> QED
      BY <2>1, <2>2, KeepAcked
  <1>13. ASSUME RetrySettle \/ GatewayFails \/ SettleDeferred PROVE Acked' /\ CommitIsAcknowledged'
    <2>1. acks' = acks /\ committed' = committed
      BY <1>13 DEF RetrySettle, GatewayFails, SettleDeferred, files
    <2>2. \A q \in Procs : \/ pc'[q] = pc[q] /\ msg'[q] = msg[q] /\ tr'[q] = tr[q]
                           \/ pc'[q] \in Before
      BY <1>13, <1>s DEF RetrySettle, GatewayFails, SettleDeferred, Forget, Before, Shape, locals
    <2> QED
      BY <2>1, <2>2, KeepAcked
  <1>14. ASSUME LoopFails \/ GatewayCrashes \/ LoopCrashes PROVE Acked' /\ CommitIsAcknowledged'
    <2>1. acks' = acks /\ committed' = committed
      BY <1>14 DEF LoopFails, GatewayCrashes, LoopCrashes, files
    <2>2. \A q \in Procs : \/ pc'[q] = pc[q] /\ msg'[q] = msg[q] /\ tr'[q] = tr[q]
                           \/ pc'[q] \in Before
      BY <1>14, <1>s DEF LoopFails, GatewayCrashes, LoopCrashes, Forget, Before, Shape, locals
    <2> QED
      BY <2>1, <2>2, KeepAcked
  <1> QED
    BY <1>1, <1>2, <1>3, <1>4, <1>5, <1>6, <1>7, <1>8, <1>9, <1>10, <1>11, <1>12, <1>13, <1>14
    DEF Next, Gateway, Loop, Transition

-----------------------------------------------------------------------------
Inductive == Typed /\ QueueInv /\ Acked /\ CommitIsAcknowledged

LEMMA InductiveHolds == Spec => []Inductive
  <1>1. Init => Inductive
    <2> SUFFICES ASSUME Init PROVE Inductive
      OBVIOUS
    <2>1. Typed
      BY InitTyped
    <2>2. QueueInv /\ Acked /\ CommitIsAcknowledged
      <3>1. queue = <<>> /\ committed = {} /\ \A p \in Procs : pc[p] = "idle"
        BY DEF Init
      <3>2. QueueInv
        BY <3>1, SMTT(30) DEF QueueInv, Claimed, QueuedOnce
      <3>3. Acked /\ CommitIsAcknowledged
        BY <3>1 DEF Acked, CommitIsAcknowledged
      <3> QED
        BY <3>2, <3>3
    <2> QED
      BY <2>1, <2>2 DEF Inductive
  <1>2. Inductive /\ [Next]_vars => Inductive'
    <2> SUFFICES ASSUME Inductive, [Next]_vars PROVE Inductive'
      OBVIOUS
    <2>1. Typed'
      BY TypedStep DEF Inductive
    <2>2. CASE Next
      BY <2>1, <2>2, QueueStep, AckedStep DEF Inductive
    <2>3. CASE UNCHANGED vars
      <3>1. QueueInv' /\ Acked' /\ CommitIsAcknowledged'
        BY <2>3 DEF Inductive, QueueInv, Claimed, QueuedOnce, Acked, CommitIsAcknowledged, vars, files, claims, locals
      <3> QED
        BY <2>1, <3>1 DEF Inductive
    <2> QED
      BY <2>2, <2>3
  <1> QED
    BY <1>1, <1>2, PTL DEF Spec

\* However often the provider delivers an update, and wherever the gateway and
\* the replay stop, receive_channel_message makes at most one turn of it.
THEOREM NoUpdateQueuedTwice == Spec => []QueuedOnce
  <1>1. Inductive => QueuedOnce
    BY DEF Inductive, QueueInv
  <1> QED
    BY <1>1, InductiveHolds, PTL

\* A boundary-committed receipt of a /new is never without its acknowledgement,
\* whether apply_channel_command_step or the reconciler wrote it.
THEOREM NoSilentCommit == Spec => []CommitIsAcknowledged
  <1>1. Inductive => CommitIsAcknowledged
    BY DEF Inductive
  <1> QED
    BY <1>1, InductiveHolds, PTL
=============================================================================
