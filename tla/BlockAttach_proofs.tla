------------------------- MODULE BlockAttach_proofs -------------------------
(***************************************************************************)
(* Proofs about attaching and detaching, for any number of handlers,       *)
(* volumes, nodes, polls, faults and moves.                                *)
(***************************************************************************)
EXTENDS BlockAttach, TLAPS

(* What a handler is, by where it is. *)
ShapeOf(h) ==
  /\ call[h].pc = "idle" => ~ call[h].live
  /\ call[h].pc # "idle" =>
       call[h].v \in Volumes /\ call[h].n \in Nodes /\ call[h].op \in {"publish", "unpublish"}
  /\ call[h].pc \in {"getVolume", "attach", "waitAttached", "getPath"} => call[h].op = "publish"
  /\ call[h].pc \in {"detach", "waitDetached"} => call[h].op = "unpublish"
Shape == \A h \in Handlers : ShapeOf(h)

LEMMA IdleType == Idle \in Calls
  BY DEF Idle, Calls, Pcs

LEMMA TypeInit == Init => TypeOK /\ Shape
<1> SUFFICES ASSUME Init PROVE TypeOK /\ Shape
  OBVIOUS
<1>1. [status |-> "available", on |-> None, shown |-> FALSE] \in VolumeStates
  BY DEF VolumeStates
<1>2. TypeOK
  BY <1>1, IdleType, BoundsAssumption DEF Init, TypeOK, Idle, Records
<1>3. Shape
  BY DEF Init, Shape, ShapeOf, Idle
<1> QED
  BY <1>2, <1>3

(* The types of the parts that the helpers change. *)
CloudOK == /\ volume \in [Volumes -> VolumeStates]
           /\ listed \in [Nodes -> SUBSET Volumes]
           /\ up \in [Nodes -> BOOLEAN]
CallOK == /\ call \in [Handlers -> Calls] /\ Shape
          /\ \A h \in Handlers :
               call[h].pc \notin {"waitAttached", "waitDetached"} \/ call[h].polls > 0
OverdueOK == /\ late \subseteq {"attach", "detach"} \X Volumes \X Nodes
             /\ strayed \subseteq Volumes /\ taken \subseteq Volumes \X Nodes
VaOK == va \in [Volumes -> [Nodes -> Records]]

LEMMA CallType ==
  ASSUME TypeOK, Shape, NEW h \in Handlers, call[h].pc # "idle"
  PROVE  /\ Return(h) => CallOK'
         /\ \A pc \in {"getServer", "reply"} : Goto(h, pc) => CallOK'
         /\ call[h].op = "publish" =>
              \A pc \in {"attach", "getPath"} : Goto(h, pc) => CallOK'
         /\ call[h].op = "unpublish" => (Goto(h, "detach") => CallOK')
         /\ call[h].op = "publish" => (WaitFor(h, "waitAttached", AttachPolls) => CallOK')
         /\ call[h].op = "unpublish" => (WaitFor(h, "waitDetached", DetachPolls) => CallOK')
         /\ KeepsWaiting(h) => CallOK'
<1>1. call[h] \in Calls /\ ShapeOf(h)
  BY DEF TypeOK, Shape
<1>2. ASSUME NEW c \in Calls, call' = [call EXCEPT ![h] = c], c.v = call[h].v, c.n = call[h].n,
             c.op = call[h].op, c.pc # "idle", ShapeOf(h)',
             c.pc \notin {"waitAttached", "waitDetached"} \/ c.polls > 0
      PROVE  CallOK'
  <2>1. \A g \in Handlers \ {h} : ShapeOf(g)'
    BY <1>2 DEF TypeOK, Shape, ShapeOf
  <2> QED
    BY <1>2, <2>1 DEF TypeOK, CallOK, Shape
<1>3. Return(h) => CallOK'
  BY IdleType DEF Return, CallOK, TypeOK, Shape, ShapeOf, Idle
<1>4. ASSUME NEW pc \in {"getServer", "reply", "attach", "getPath", "detach"}, Goto(h, pc),
             pc \in {"attach", "getPath"} => call[h].op = "publish",
             pc = "detach" => call[h].op = "unpublish"
      PROVE  CallOK'
  <2>1. [call[h] EXCEPT !.pc = pc] \in Calls
    BY <1>1 DEF Calls, Pcs
  <2> QED
    BY <1>1, <1>2, <1>4, <2>1 DEF Goto, TypeOK, ShapeOf, Calls
<1>5. ASSUME NEW pc \in {"waitAttached", "waitDetached"}, NEW k \in Nat \ {0}, WaitFor(h, pc, k),
             pc = "waitAttached" => call[h].op = "publish",
             pc = "waitDetached" => call[h].op = "unpublish"
      PROVE  CallOK'
  <2> DEFINE c == [call[h] EXCEPT !.pc = pc, !.polls = k]
  <2>1. c \in Calls
    BY <1>1 DEF Calls, Pcs
  <2>2. /\ c.pc = pc /\ c.polls = k /\ k > 0
        /\ c.v = call[h].v /\ c.n = call[h].n /\ c.op = call[h].op
    BY <1>1 DEF Calls
  <2>3. call' = [call EXCEPT ![h] = c]
    BY <1>5 DEF WaitFor
  <2>4. ShapeOf(h)'
    <3>1. call'[h] = c
      BY <2>3 DEF TypeOK
    <3> QED
      BY <1>1, <1>5, <2>2, <3>1 DEF ShapeOf
  <2> HIDE DEF c
  <2> QED
    BY <1>2, <1>5, <2>1, <2>2, <2>3, <2>4
<1>6. ASSUME KeepsWaiting(h) PROVE CallOK'
  <2>1. CASE call[h].polls > 1 /\ call' = [call EXCEPT ![h].polls = @ - 1]
    <3>1. call[h].polls - 1 \in Nat /\ call[h].polls - 1 > 0
      BY <1>1, <2>1 DEF Calls
    <3>2. [call[h] EXCEPT !.polls = @ - 1] \in Calls
      BY <1>1, <3>1 DEF Calls
    <3> QED
      BY <1>1, <1>2, <2>1, <3>1, <3>2 DEF TypeOK, ShapeOf, Calls
  <2> QED
    BY <1>3, <1>6, <2>1 DEF KeepsWaiting
<1> QED
  BY <1>3, <1>4, <1>5, <1>6, PollsAssumption

LEMMA BeginTypes ==
  ASSUME TypeOK, NEW v \in Volumes, NEW n \in Nodes, BeginAttach(v, n) \/ BeginDetach(v, n)
  PROVE  CloudOK'
<1>1. [status |-> "attaching", on |-> n, shown |-> FALSE] \in VolumeStates
  BY DEF VolumeStates
<1>2. [volume[v] EXCEPT !.status = "detaching"] \in VolumeStates
  BY DEF TypeOK, VolumeStates
<1>3. CASE BeginAttach(v, n)
  BY <1>1, <1>3 DEF BeginAttach, TypeOK, CloudOK
<1>4. CASE BeginDetach(v, n)
  BY <1>2, <1>4 DEF BeginDetach, TypeOK, CloudOK
<1> QED
  BY <1>3, <1>4

(* Every action keeps the types and the shape of the handlers. *)
LEMMA TypeStep == TypeOK /\ Shape /\ [Next]_vars => TypeOK' /\ Shape'
<1> SUFFICES ASSUME TypeOK, Shape, [Next]_vars PROVE TypeOK' /\ Shape'
  OBVIOUS
<1> USE DEF cloud, attacher, overdue
<1>a. ASSUME CloudOK', CallOK', OverdueOK', VaOK', want' \in [Volumes -> Nodes \union {None}],
             moves' \in 0..MaxMoves, faults' \in 0..MaxFaults
      PROVE  TypeOK' /\ Shape'
  BY <1>a DEF TypeOK, CloudOK, CallOK, OverdueOK, VaOK
<1>b. /\ UNCHANGED cloud => CloudOK'
      /\ UNCHANGED call => CallOK'
      /\ UNCHANGED overdue => OverdueOK'
      /\ UNCHANGED va => VaOK'
      /\ UNCHANGED want => want' \in [Volumes -> Nodes \union {None}]
      /\ UNCHANGED moves => moves' \in 0..MaxMoves
      /\ (UNCHANGED faults \/ Fault) => faults' \in 0..MaxFaults
  BY BoundsAssumption DEF TypeOK, CloudOK, CallOK, OverdueOK, VaOK, Shape, ShapeOf, Fault
<1>1. ASSUME NEW h \in Handlers, HandlerStep(h) PROVE TypeOK' /\ Shape'
  <2>0. call[h].pc # "idle" /\ ShapeOf(h)
    BY <1>1 DEF HandlerStep, GetVolume, GetServer, Attach, WaitAttached, GetPath, Detach,
                WaitDetached, Reply, Expire, ReachesAPI, Shape
  <2>1. call[h].v \in Volumes /\ call[h].n \in Nodes /\ call[h].op \in {"publish", "unpublish"}
    BY <2>0 DEF ShapeOf
  <2>2. CASE GetVolume(h)
    BY <1>a, <1>b, <2>0, <2>2, CallType DEF GetVolume
  <2>3. CASE GetServer(h)
    <3>1. OverdueOK'
      BY <2>1, <2>3 DEF GetServer, UnpublishOnServer, TypeOK, OverdueOK
    <3> QED
      BY <1>a, <1>b, <2>0, <2>1, <2>3, <3>1, CallType DEF GetServer, PublishOnServer, UnpublishOnServer
  <2>4. CASE Attach(h)
    BY <1>a, <1>b, <2>0, <2>1, <2>4, CallType, BeginTypes DEF Attach, ReachesAPI, ShapeOf
  <2>5. CASE WaitAttached(h)
    BY <1>a, <1>b, <2>0, <2>5, CallType DEF WaitAttached, ReachesAPI, ShapeOf
  <2>6. CASE GetPath(h)
    BY <1>a, <1>b, <2>0, <2>6, CallType DEF GetPath
  <2>7. CASE Detach(h)
    BY <1>a, <1>b, <2>0, <2>1, <2>7, CallType, BeginTypes DEF Detach, ReachesAPI, ShapeOf
  <2>8. CASE WaitDetached(h)
    BY <1>a, <1>b, <2>0, <2>8, CallType DEF WaitDetached
  <2>9. CASE Reply(h)
    <3>1. VaOK'
      BY <2>1, <2>9 DEF Reply, TypeOK, VaOK, Records
    <3> QED
      BY <1>a, <1>b, <2>0, <2>9, <3>1, CallType DEF Reply
  <2>10. CASE Expire(h)
    BY <1>a, <1>b, <2>0, <2>10, CallType DEF Expire
  <2> QED
    BY <1>1, <2>2, <2>3, <2>4, <2>5, <2>6, <2>7, <2>8, <2>9, <2>10 DEF HandlerStep
<1>2. ASSUME NEW h \in Handlers, ApiFails(h) PROVE TypeOK' /\ Shape'
  <2>1. call[h].pc # "idle" /\ call[h].v \in Volumes /\ call[h].n \in Nodes
    BY <1>2 DEF ApiFails, Shape, ShapeOf
  <2>2. CloudOK'
    BY <1>2, <1>b, <2>1, BeginTypes DEF ApiFails
  <2> QED
    BY <1>2, <1>a, <1>b, <2>1, <2>2, CallType DEF ApiFails
<1>3. ASSUME NEW h \in Handlers, Cancel(h) PROVE TypeOK' /\ Shape'
  <2>1. [call[h] EXCEPT !.live = FALSE] \in Calls
    BY DEF TypeOK, Calls
  <2>2. CallOK'
    BY <1>3, <2>1 DEF Cancel, CallOK, TypeOK, Shape, ShapeOf, Calls
  <2> QED
    BY <1>3, <1>a, <1>b, <2>2 DEF Cancel
<1>4. CASE CloudStep
  <2>1. UNCHANGED <<call, attacher>> /\ (UNCHANGED faults \/ Fault) /\ OverdueOK'
    BY <1>4 DEF CloudStep, AttachProgress, DetachProgress, CloudFails, VolumeDeleted, Enlist, Unlist,
                NodeDeleted, Moored, TypeOK, OverdueOK
  <2>2. CloudOK'
    <3>0. [status |-> "available", on |-> None, shown |-> FALSE] \in VolumeStates
      BY DEF VolumeStates
    <3>1. ASSUME NEW v \in Volumes, AttachProgress(v) PROVE CloudOK'
      <4>1. /\ [volume[v] EXCEPT !.shown = TRUE] \in VolumeStates
            /\ [volume[v] EXCEPT !.shown = TRUE, !.status = "in-use"] \in VolumeStates
        BY DEF TypeOK, VolumeStates
      <4> QED
        BY <3>1, <4>1 DEF AttachProgress, TypeOK, CloudOK
    <3>2. ASSUME NEW v \in Volumes, DetachProgress(v) PROVE CloudOK'
      BY <3>2 DEF DetachProgress, TypeOK, CloudOK, VolumeStates
    <3>3. ASSUME NEW v \in Volumes, CloudFails(v) PROVE CloudOK'
      <4>1. [volume[v] EXCEPT !.status = "in-use"] \in VolumeStates
        BY DEF TypeOK, VolumeStates
      <4> QED
        BY <3>0, <3>3, <4>1 DEF CloudFails, TypeOK, CloudOK
    <3>4. ASSUME NEW v \in Volumes, VolumeDeleted(v) PROVE CloudOK'
      BY <3>4 DEF VolumeDeleted, TypeOK, CloudOK, VolumeStates
    <3>5. ASSUME NEW v \in Volumes, NEW n \in Nodes, Unlist(v, n) PROVE CloudOK'
      BY <3>5 DEF Unlist, TypeOK, CloudOK
    <3>6. ASSUME NEW n \in Nodes, NodeDeleted(n) PROVE CloudOK'
      BY <3>0, <3>6 DEF NodeDeleted, TypeOK, CloudOK
    <3>7. ASSUME NEW v \in Volumes, NEW n \in Nodes, Enlist(v, n) PROVE CloudOK'
      BY <3>7 DEF Enlist, TypeOK, CloudOK
    <3> QED
      BY <1>4, <3>1, <3>2, <3>3, <3>4, <3>5, <3>6, <3>7 DEF CloudStep
  <2> QED
    BY <1>a, <1>b, <2>1, <2>2
<1>5. CASE AttacherStep
  <2>1. ASSUME NEW v \in Volumes, NEW n \in Nodes \union {None}, Move(v, n) PROVE TypeOK' /\ Shape'
    <3>1. want' \in [Volumes -> Nodes \union {None}] /\ moves' \in 0..MaxMoves
      BY <2>1, BoundsAssumption DEF Move, TypeOK
    <3> QED
      BY <1>a, <1>b, <2>1, <3>1 DEF Move
  <2>2. ASSUME NEW h \in Handlers, NEW v \in Volumes, NEW n \in Nodes, NEW op, NEW pc, NEW r,
               Start(h, op, pc, v, n, r),
               \/ op = "publish" /\ pc = "getVolume" /\ r = "attaching"
               \/ op = "unpublish" /\ pc = "getServer" /\ r = "detaching"
        PROVE  TypeOK' /\ Shape'
    <3>1. [op |-> op, pc |-> pc, v |-> v, n |-> n, polls |-> 0, live |-> TRUE] \in Calls
      BY <2>2 DEF Calls, Pcs
    <3>2. CallOK'
      BY <2>2, <3>1 DEF Start, CallOK, TypeOK, Shape, ShapeOf
    <3>3. VaOK'
      BY <2>2 DEF Start, TypeOK, VaOK, Records
    <3>4. OverdueOK'
      BY <2>2 DEF Start, TypeOK, OverdueOK
    <3> QED
      BY <1>a, <1>b, <2>2, <3>2, <3>3, <3>4 DEF Start
  <2> QED
    BY <1>5, <2>1, <2>2 DEF AttacherStep, StartPublish, StartUnpublish
<1>6. CASE Restart
  <2>1. CallOK'
    BY <1>6, IdleType DEF Restart, CallOK, Shape, ShapeOf, Idle
  <2> QED
    BY <1>6, <1>a, <1>b, <2>1 DEF Restart
<1>7. ASSUME NEW h \in Handlers, NEW request \in {"attach", "detach"}, Overdue(h, request)
      PROVE  TypeOK' /\ Shape'
  <2>1. call[h].pc # "idle" /\ call[h].v \in Volumes /\ call[h].n \in Nodes
    BY <1>7 DEF Overdue, ReachesAPI, Shape, ShapeOf
  <2>2. OverdueOK'
    BY <1>7, <2>1 DEF Overdue, TypeOK, OverdueOK
  <2> QED
    BY <1>7, <1>a, <1>b, <2>1, <2>2, CallType DEF Overdue
<1>8. ASSUME NEW v \in Volumes, NEW n \in Nodes, LateAttach(v, n) \/ LateDetach(v, n)
      PROVE  TypeOK' /\ Shape'
  <2>1. CloudOK'
    BY <1>8, <1>b, BeginTypes DEF LateAttach, LateDetach
  <2>2. OverdueOK'
    BY <1>8 DEF LateAttach, LateDetach, TypeOK, OverdueOK
  <2> QED
    BY <1>8, <1>a, <1>b, <2>1, <2>2 DEF LateAttach, LateDetach
<1>9. CASE UNCHANGED vars
  BY <1>9, <1>a, <1>b DEF vars
<1> QED
  BY <1>1, <1>2, <1>3, <1>4, <1>5, <1>6, <1>7, <1>8, <1>9
     DEF Next, HandlerFault, AttachOverdue, DetachOverdue

LEMMA TypeAlways == Spec => [](TypeOK /\ Shape)
  BY TypeInit, TypeStep, PTL DEF Spec

(* The variables keep their types in every behaviour. *)
THEOREM TypeCorrect == Spec => []TypeOK
  BY TypeAlways, PTL
-----------------------------------------------------------------------------
(***************************************************************************)
(* Safety.  What the attacher has recorded, and what a handler it still    *)
(* listens to has established, holds in the cloud; only a handler it       *)
(* listens to changes an attachment, and there is one per volume and node. *)
(* A volume has strayed when a request executed late attaches it, or when  *)
(* the server's list lags behind; it is taken when a detach request that   *)
(* is executed late sends it away.                                         *)
(***************************************************************************)

CloudFacts(v) ==
  /\ volume[v].on # None => up[volume[v].on]
  /\ v \in strayed => volume[v].on # None
  /\ volume[v].status \in {"available", "gone"} => volume[v].on = None
  /\ volume[v].status \in {"attaching", "in-use"} => volume[v].on # None
  /\ volume[v].status \in {"detaching", "in-use"} /\ volume[v].on # None => volume[v].shown

(* The records of the attacher. *)
RecordFacts(v, n) ==
  /\ va[v][n] = "attached" /\ up[n] => Attached(v, n) \/ <<v, n>> \in taken
  /\ va[v][n] = "detached" => volume[v].on # n \/ v \in strayed

(* What a handler knows.  It is asked of live handlers only. *)
Knows(op, pc, v, n) ==
  /\ op = "publish" => va[v][n] = "attaching"
  /\ op = "unpublish" => va[v][n] = "detaching"
  /\ op = "publish" /\ pc = "reply" /\ up[n] => Attached(v, n) \/ <<v, n>> \in taken
  /\ op = "unpublish" /\ pc = "reply" => volume[v].on # n \/ v \in strayed
  /\ op = "unpublish" /\ pc = "waitDetached" =>
       (volume[v].on = n => volume[v].shown) \/ v \in strayed

HandlerFacts(h) == call[h].live => Knows(call[h].op, call[h].pc, call[h].v, call[h].n)

Serial ==
  \A g, h \in Handlers :
    call[g].live /\ call[h].live /\ call[g].v = call[h].v /\ call[g].n = call[h].n => g = h

AttachInv ==
  /\ TypeOK /\ Shape /\ Serial
  /\ \A v \in Volumes : CloudFacts(v)
  /\ \A v \in Volumes, n \in Nodes : RecordFacts(v, n)
  /\ \A h \in Handlers : HandlerFacts(h)

LEMMA AttachInit == Init => AttachInv
  BY TypeInit, NoneAssumption
     DEF Init, AttachInv, Serial, CloudFacts, RecordFacts, HandlerFacts, Attached, Idle

(* Who moves, and how the cloud changes: the shapes of a step. *)

(* No live handler comes to know anything new. *)
HandlersKept ==
  \A h \in Handlers :
    call'[h].live =>
      /\ call[h].live
      /\ call'[h].op = call[h].op /\ call'[h].v = call[h].v /\ call'[h].n = call[h].n
      /\ call'[h].pc = call[h].pc \/ call'[h].pc \notin {"reply", "waitDetached"}

(* The cloud on its own: nothing attached is lost unless the node is, nothing
   comes to a node, and what shows goes on showing. *)
CloudKept ==
  /\ \A n \in Nodes : up'[n] => up[n]
  /\ \A v \in Volumes :
       /\ CloudFacts(v)'
       /\ volume'[v].on \in {volume[v].on, None}
       /\ volume'[v].on # None /\ volume[v].shown => volume'[v].shown
       /\ volume'[v].on # None /\ v \in strayed => v \in strayed'
       /\ \A n \in Nodes : Attached(v, n) /\ up'[n] => Attached(v, n)'

LEMMA KeptStep ==
  ASSUME AttachInv, (TypeOK /\ Shape)', HandlersKept, CloudKept, UNCHANGED <<va, taken>>
  PROVE  AttachInv'
<1>1. \A v \in Volumes : CloudFacts(v)'
  BY DEF CloudKept
<1>2. ASSUME NEW v \in Volumes, NEW n \in Nodes PROVE RecordFacts(v, n)'
  <2>1. RecordFacts(v, n) /\ n # None
    BY NoneAssumption DEF AttachInv
  <2> QED
    BY <2>1 DEF RecordFacts, CloudKept
<1>3. ASSUME NEW h \in Handlers PROVE HandlerFacts(h)'
  <2> SUFFICES ASSUME call'[h].live PROVE HandlerFacts(h)'
    BY DEF HandlerFacts
  <2>1. /\ call[h].live /\ HandlerFacts(h)
        /\ call'[h].op = call[h].op /\ call'[h].v = call[h].v /\ call'[h].n = call[h].n
        /\ call'[h].pc = call[h].pc \/ call'[h].pc \notin {"reply", "waitDetached"}
        /\ call[h].v \in Volumes /\ call[h].n \in Nodes /\ call[h].n # None
    BY NoneAssumption DEF AttachInv, HandlersKept, Shape, ShapeOf
  <2>2. ASSUME NEW v \in Volumes, NEW n \in Nodes, n # None, NEW op, NEW pc, Knows(op, pc, v, n)
        PROVE  Knows(op, pc, v, n)'
    BY <2>2 DEF Knows, CloudKept
  <2>3. Knows(call[h].op, call'[h].pc, call[h].v, call[h].n)
    BY <2>1 DEF HandlerFacts, Knows
  <2> QED
    BY <2>1, <2>2, <2>3 DEF HandlerFacts, Knows, Attached, InUseOn, CloudKept
<1>4. Serial'
  BY DEF HandlersKept, AttachInv, Serial
<1> QED
  BY <1>1, <1>2, <1>3, <1>4 DEF AttachInv

(* One handler moves on, with what it has just read. *)
LEMMA LearnStep ==
  ASSUME AttachInv, (TypeOK /\ Shape)', UNCHANGED <<cloud, va, taken>>,
         strayed \subseteq strayed', \A v \in strayed' : volume[v].on # None,
         NEW h \in Handlers, \A g \in Handlers \ {h} : call'[g] = call[g], HandlerFacts(h)',
         call'[h].live => /\ call[h].live /\ call'[h].v = call[h].v /\ call'[h].n = call[h].n
  PROVE  AttachInv'
<1>1. \A v \in Volumes : CloudFacts(v)'
  BY DEF AttachInv, CloudFacts, cloud
<1>2. \A v \in Volumes, n \in Nodes : RecordFacts(v, n)'
  BY DEF AttachInv, RecordFacts, Attached, InUseOn, cloud
<1>3. \A g \in Handlers \ {h} : HandlerFacts(g)'
  BY DEF AttachInv, HandlerFacts, Knows, Attached, InUseOn, cloud
<1>4. Serial'
  BY DEF AttachInv, Serial
<1> QED
  BY <1>1, <1>2, <1>3, <1>4 DEF AttachInv

(* An attach request is accepted: one the attacher waits for, or a late one.
   Nobody else loses what he knows, unless the volume has strayed. *)
LEMMA BeginAttachFacts ==
  ASSUME AttachInv, TypeOK', UNCHANGED <<va, taken>>, NEW w \in Volumes, NEW k \in Nodes,
         AcceptsAttach(w, k), BeginAttach(w, k), strayed \subseteq strayed',
         strayed' \subseteq strayed \union {w}, va[w][k] = "attaching" \/ w \in strayed'
  PROVE  /\ \A v \in Volumes : CloudFacts(v)'
         /\ \A v \in Volumes, n \in Nodes : RecordFacts(v, n)'
         /\ \A g \in Handlers : call'[g] = call[g] => HandlerFacts(g)'
<1>1. /\ volume[w].on = None /\ volume[w].status = "available" /\ up[k]
      /\ \A v \in Volumes : CloudFacts(v)
      /\ \A v \in Volumes, n \in Nodes : RecordFacts(v, n)
      /\ TypeOK
  BY DEF AttachInv, CloudFacts, AcceptsAttach
<1>2. /\ volume' = [volume EXCEPT ![w] = [status |-> "attaching", on |-> k, shown |-> FALSE]]
      /\ up' = up
  BY DEF BeginAttach
<1>3. /\ volume'[w] = [status |-> "attaching", on |-> k, shown |-> FALSE]
      /\ \A v \in Volumes \ {w} : volume'[v] = volume[v]
  BY <1>1, <1>2 DEF TypeOK
<1>4. ASSUME NEW v \in Volumes PROVE CloudFacts(v)'
  <2>1. CASE v = w
    BY <1>1, <1>2, <1>3, <2>1, NoneAssumption DEF CloudFacts
  <2>2. CASE v # w
    <3>1. CloudFacts(v) /\ volume'[v] = volume[v] /\ volume[v] \in VolumeStates
      BY <1>1, <1>3, <2>2 DEF TypeOK
    <3> QED
      BY <1>2, <1>3, <3>1 DEF CloudFacts, VolumeStates
  <2> QED
    BY <2>1, <2>2
<1>5. ASSUME NEW v \in Volumes, NEW n \in Nodes PROVE RecordFacts(v, n)'
  BY <1>1, <1>2, <1>3 DEF RecordFacts, Attached, InUseOn
<1>6. ASSUME NEW g \in Handlers, call'[g] = call[g], call[g].live PROVE HandlerFacts(g)'
  <2>1. /\ call[g].v \in Volumes /\ call[g].n \in Nodes
        /\ Knows(call[g].op, call[g].pc, call[g].v, call[g].n)
    BY <1>6 DEF AttachInv, Shape, ShapeOf, HandlerFacts
  <2>2. CASE call[g].v # w
    BY <1>2, <1>3, <1>6, <2>1, <2>2 DEF HandlerFacts, Knows, Attached, InUseOn
  <2>3. CASE call[g].v = w
    <3>1. call[g].op = "publish" /\ call[g].pc = "reply" /\ up'[call[g].n] =>
            <<call[g].v, call[g].n>> \in taken
      BY <1>1, <1>2, <2>1, <2>3 DEF Knows, Attached, InUseOn
    <3>2. call[g].op = "unpublish" => call[g].n # k \/ w \in strayed'
      BY <2>1, <2>3 DEF Knows
    <3> QED
      BY <1>3, <1>6, <2>1, <2>3, <3>1, <3>2 DEF HandlerFacts, Knows
  <2> QED
    BY <2>2, <2>3
<1>7. ASSUME NEW g \in Handlers, call'[g] = call[g], ~ call[g].live PROVE HandlerFacts(g)'
  BY <1>7 DEF HandlerFacts
<1> QED
  BY <1>4, <1>5, <1>6, <1>7

(* The request of a live handler. *)
LEMMA BeginAttachStep ==
  ASSUME AttachInv, (TypeOK /\ Shape)', UNCHANGED <<va, strayed, taken>>, NEW h \in Handlers,
         call[h].live, call[h].pc = "attach",
         AcceptsAttach(call[h].v, call[h].n), BeginAttach(call[h].v, call[h].n),
         \A g \in Handlers \ {h} : call'[g] = call[g],
         call'[h].live =>
           /\ call'[h].op = call[h].op /\ call'[h].v = call[h].v /\ call'[h].n = call[h].n
           /\ call'[h].pc = "waitAttached"
  PROVE  AttachInv'
<1>1. /\ call[h].v \in Volumes /\ call[h].n \in Nodes /\ call[h].op = "publish"
      /\ va[call[h].v][call[h].n] = "attaching"
  BY DEF AttachInv, Shape, ShapeOf, HandlerFacts, Knows
<1>2. /\ \A v \in Volumes : CloudFacts(v)'
      /\ \A v \in Volumes, n \in Nodes : RecordFacts(v, n)'
      /\ \A g \in Handlers : call'[g] = call[g] => HandlerFacts(g)'
  BY <1>1, BeginAttachFacts
<1>3. ASSUME NEW g \in Handlers PROVE HandlerFacts(g)'
  <2>1. CASE g = h
    BY <1>1, <2>1 DEF HandlerFacts, Knows
  <2>2. CASE g # h
    BY <1>2, <2>2
  <2> QED
    BY <2>1, <2>2
<1>4. Serial'
  BY DEF AttachInv, Serial
<1> QED
  BY <1>2, <1>3, <1>4 DEF AttachInv

(* A late request. *)
LEMMA LateAttachStep ==
  ASSUME AttachInv, (TypeOK /\ Shape)', NEW w \in Volumes, NEW k \in Nodes,
         AcceptsAttach(w, k), BeginAttach(w, k), UNCHANGED <<va, call, taken>>,
         strayed' = IF va[w][k] = "attaching" THEN strayed ELSE strayed \union {w}
  PROVE  AttachInv'
<1>1. /\ \A v \in Volumes : CloudFacts(v)'
      /\ \A v \in Volumes, n \in Nodes : RecordFacts(v, n)'
      /\ \A g \in Handlers : call'[g] = call[g] => HandlerFacts(g)'
  BY BeginAttachFacts
<1>2. Serial'
  BY DEF AttachInv, Serial
<1> QED
  BY <1>1, <1>2 DEF AttachInv

(* A detach request is accepted: one the attacher waits for, or a late one.
   Whoever takes the volume to be attached is wrong from now on. *)
LEMMA BeginDetachFacts ==
  ASSUME AttachInv, TypeOK', UNCHANGED <<va, strayed>>, NEW w \in Volumes, NEW k \in Nodes,
         AcceptsDetach(w, k), BeginDetach(w, k),
         taken \subseteq taken', va[w][k] = "detaching" \/ <<w, k>> \in taken'
  PROVE  /\ volume'[w].shown
         /\ \A v \in Volumes : CloudFacts(v)'
         /\ \A v \in Volumes, n \in Nodes : RecordFacts(v, n)'
         /\ \A g \in Handlers : call'[g] = call[g] => HandlerFacts(g)'
<1>1. /\ volume[w].on = k /\ volume[w].status = "in-use" /\ volume[w].shown
      /\ \A v \in Volumes : CloudFacts(v)
      /\ \A v \in Volumes, n \in Nodes : RecordFacts(v, n)
      /\ TypeOK
  BY NoneAssumption DEF AttachInv, CloudFacts, AcceptsDetach, InUseOn
<1>2. volume' = [volume EXCEPT ![w].status = "detaching"] /\ up' = up
  BY DEF BeginDetach
<1>3. /\ volume'[w].status = "detaching" /\ volume'[w].on = k /\ volume'[w].shown
      /\ \A v \in Volumes \ {w} : volume'[v] = volume[v]
  BY <1>1, <1>2 DEF TypeOK, VolumeStates
<1>4. \A v \in Volumes : CloudFacts(v)'
  BY <1>1, <1>2, <1>3 DEF CloudFacts
<1>5. ASSUME NEW v \in Volumes, NEW n \in Nodes
      PROVE  Attached(v, n) => Attached(v, n)' \/ (v = w /\ n = k)
  BY <1>1, <1>3 DEF Attached, InUseOn
<1>6. ASSUME NEW v \in Volumes, NEW n \in Nodes PROVE RecordFacts(v, n)'
  BY <1>1, <1>2, <1>3, <1>5 DEF RecordFacts
<1>7. ASSUME NEW g \in Handlers, call'[g] = call[g], call[g].live PROVE HandlerFacts(g)'
  <2>1. /\ call[g].v \in Volumes /\ call[g].n \in Nodes
        /\ Knows(call[g].op, call[g].pc, call[g].v, call[g].n)
    BY <1>7 DEF AttachInv, Shape, ShapeOf, HandlerFacts
  <2>2. /\ volume'[call[g].v].on = volume[call[g].v].on
        /\ volume[call[g].v].shown => volume'[call[g].v].shown
    BY <1>1, <1>3, <2>1
  <2> QED
    BY <1>2, <1>5, <1>7, <2>1, <2>2 DEF HandlerFacts, Knows
<1>8. ASSUME NEW g \in Handlers, call'[g] = call[g], ~ call[g].live PROVE HandlerFacts(g)'
  BY <1>8 DEF HandlerFacts
<1> QED
  BY <1>3, <1>4, <1>6, <1>7, <1>8

(* The request of a live handler. *)
LEMMA BeginDetachStep ==
  ASSUME AttachInv, (TypeOK /\ Shape)', UNCHANGED <<va, strayed, taken>>, NEW h \in Handlers,
         call[h].live, call[h].pc = "detach",
         AcceptsDetach(call[h].v, call[h].n), BeginDetach(call[h].v, call[h].n),
         \A g \in Handlers \ {h} : call'[g] = call[g],
         call'[h].live =>
           /\ call'[h].op = call[h].op /\ call'[h].v = call[h].v /\ call'[h].n = call[h].n
           /\ call'[h].pc = "waitDetached"
  PROVE  AttachInv'
<1>1. /\ call[h].v \in Volumes /\ call[h].n \in Nodes /\ call[h].op = "unpublish"
      /\ va[call[h].v][call[h].n] = "detaching"
  BY DEF AttachInv, Shape, ShapeOf, HandlerFacts, Knows
<1>2. /\ volume'[call[h].v].shown
      /\ \A v \in Volumes : CloudFacts(v)'
      /\ \A v \in Volumes, n \in Nodes : RecordFacts(v, n)'
      /\ \A g \in Handlers : call'[g] = call[g] => HandlerFacts(g)'
  BY <1>1, BeginDetachFacts
<1>3. HandlerFacts(h)'
  BY <1>1, <1>2 DEF HandlerFacts, Knows
<1>4. Serial'
  BY DEF AttachInv, Serial
<1> QED
  BY <1>2, <1>3, <1>4 DEF AttachInv

(* A late request. *)
LEMMA LateDetachStep ==
  ASSUME AttachInv, (TypeOK /\ Shape)', NEW w \in Volumes, NEW k \in Nodes,
         AcceptsDetach(w, k), BeginDetach(w, k), UNCHANGED <<va, call, strayed>>,
         taken' = IF va[w][k] = "detaching" THEN taken ELSE taken \union {<<w, k>>}
  PROVE  AttachInv'
<1>1. /\ \A v \in Volumes : CloudFacts(v)'
      /\ \A v \in Volumes, n \in Nodes : RecordFacts(v, n)'
      /\ \A g \in Handlers : call'[g] = call[g] => HandlerFacts(g)'
  BY BeginDetachFacts
<1>2. Serial'
  BY DEF AttachInv, Serial
<1> QED
  BY <1>1, <1>2 DEF AttachInv

(* Every action of a handler. *)
LEMMA HandlerAttachStep ==
  ASSUME AttachInv, (TypeOK /\ Shape)', NEW h \in Handlers,
         HandlerStep(h) \/ HandlerFault(h)
  PROVE  AttachInv'
<1> USE DEF cloud, attacher, overdue
<1>0. /\ TypeOK /\ ShapeOf(h) /\ HandlerFacts(h) /\ call[h] \in Calls /\ call[h].pc # "idle"
      /\ call[h].v \in Volumes /\ call[h].n \in Nodes /\ call[h].n # None
      /\ CloudFacts(call[h].v)
  BY NoneAssumption
     DEF HandlerStep, GetVolume, GetServer, Attach, WaitAttached, GetPath, Detach, WaitDetached,
         Reply, Expire, ReachesAPI, HandlerFault, ApiFails, AttachOverdue,
         DetachOverdue, Overdue, Cancel, AttachInv, Shape, ShapeOf, TypeOK
<1> DEFINE v == call[h].v
           n == call[h].n
           Others == \A g \in Handlers \ {h} : call'[g] = call[g]
           Same == call'[h].op = call[h].op /\ call'[h].v = v /\ call'[h].n = n
                   /\ call'[h].live = call[h].live
<1>1. Return(h) => Others /\ ~ call'[h].live
  BY <1>0 DEF Return, TypeOK, Idle
<1>2. \A pc \in Pcs : Goto(h, pc) => Others /\ Same /\ call'[h].pc = pc
  BY <1>0 DEF Goto, TypeOK, Calls
<1>3. \A pc \in Pcs, p \in Nat : WaitFor(h, pc, p) => Others /\ Same /\ call'[h].pc = pc
  BY <1>0 DEF WaitFor, TypeOK, Calls
<1>4. KeepsWaiting(h) => Others /\ (call'[h].live => Same /\ call'[h].pc = call[h].pc)
  <2>1. ASSUME call' = [call EXCEPT ![h].polls = @ - 1] PROVE Others /\ Same /\ call'[h].pc = call[h].pc
    BY <1>0, <2>1 DEF TypeOK, Calls
  <2> QED
    BY <1>1, <2>1 DEF KeepsWaiting
<1>5. ASSUME UNCHANGED <<cloud, va, strayed, taken>>, Others,
             call'[h].live => call[h].live /\ Same /\ Knows(call[h].op, call'[h].pc, v, n)
      PROVE  AttachInv'
  <2>1. HandlerFacts(h)'
    BY <1>5 DEF HandlerFacts, Knows, Attached, InUseOn
  <2>2. \A w \in strayed : volume[w].on # None
    BY <1>0 DEF AttachInv, CloudFacts, TypeOK
  <2> QED
    BY <1>5, <2>1, <2>2, LearnStep
<1>6. ASSUME call[h].live, NEW pc,
             pc \in {"getServer", "attach", "detach", "getPath", "waitAttached"}
      PROVE  Knows(call[h].op, pc, v, n)
  BY <1>0, <1>6 DEF HandlerFacts, Knows
<1>7. CASE GetVolume(h)
  BY <1>1, <1>2, <1>5, <1>6, <1>7 DEF GetVolume, ReachesAPI, Pcs
<1>8. CASE GetServer(h)
  <2>1. CASE call[h].op = "publish"
    BY <1>1, <1>2, <1>5, <1>6, <1>8, <2>1 DEF GetServer, PublishOnServer, ReachesAPI, Pcs
  <2>2. CASE call[h].op = "unpublish" /\ up[n] /\ v \in listed[n]
    BY <1>2, <1>5, <1>6, <1>8, <2>2 DEF GetServer, UnpublishOnServer, ReachesAPI, Pcs
  <2>3. CASE call[h].op = "unpublish" /\ ~ (up[n] /\ v \in listed[n])
    <3>1. /\ Goto(h, "reply") /\ call[h].live /\ UNCHANGED <<cloud, va, taken>>
          /\ strayed' = IF volume[v].on = n THEN strayed \union {v} ELSE strayed
      BY <1>8, <2>3 DEF GetServer, UnpublishOnServer, ReachesAPI
    <3>2. \A w \in strayed' : volume[w].on # None
      BY <1>0, <3>1 DEF AttachInv, CloudFacts, TypeOK
    <3>3. Others /\ Same /\ call'[h].pc = "reply"
      BY <1>2, <3>1 DEF Pcs
    <3>4. HandlerFacts(h)'
      BY <1>0, <2>3, <3>1, <3>3 DEF HandlerFacts, Knows
    <3> QED
      BY <3>1, <3>2, <3>3, <3>4, LearnStep
  <2> QED
    BY <1>0, <2>1, <2>2, <2>3 DEF ShapeOf
<1>9. CASE Attach(h)
  <2>1. CASE AcceptsAttach(v, n)
    <3>1. call[h].live /\ call[h].pc = "attach" /\ BeginAttach(v, n) /\ UNCHANGED <<va, strayed, taken>>
          /\ WaitFor(h, "waitAttached", AttachPolls)
      BY <1>9, <2>1 DEF Attach, ReachesAPI
    <3> QED
      BY <1>3, <2>1, <3>1, BeginAttachStep, PollsAssumption DEF Pcs
  <2>2. CASE ~ AcceptsAttach(v, n)
    BY <1>1, <1>5, <1>9, <2>2 DEF Attach
  <2> QED
    BY <2>1, <2>2
<1>10. CASE WaitAttached(h)
  BY <1>1, <1>2, <1>4, <1>5, <1>6, <1>10 DEF WaitAttached, ReachesAPI, Pcs
<1>11. CASE GetPath(h)
  <2>1. CASE HasPath(h)
    <3>1. call[h].live => Knows(call[h].op, "reply", v, n)
      BY <1>0, <1>11, <2>1 DEF HandlerFacts, Knows, HasPath, Attached, InUseOn, ShownOn, GetPath,
                               ReachesAPI, ShapeOf
    <3> QED
      BY <1>2, <1>5, <1>11, <2>1, <3>1 DEF GetPath, ReachesAPI, Pcs
  <2>2. CASE ~ HasPath(h)
    BY <1>1, <1>5, <1>11, <2>2 DEF GetPath
  <2> QED
    BY <2>1, <2>2
<1>12. ASSUME call[h].op = "unpublish", call[h].live, volume[v].on # n \/ v \in strayed,
              Goto(h, "reply"), UNCHANGED <<cloud, va, strayed, taken>>
       PROVE  AttachInv'
  <2>1. Knows(call[h].op, "reply", v, n)
    BY <1>0, <1>12 DEF HandlerFacts, Knows
  <2> QED
    BY <1>2, <1>5, <1>12, <2>1 DEF Pcs
<1>13. CASE Detach(h)
  <2>1. CASE AcceptsDetach(v, n)
    <3>1. call[h].live /\ call[h].pc = "detach" /\ BeginDetach(v, n) /\ UNCHANGED <<va, strayed, taken>>
          /\ WaitFor(h, "waitDetached", DetachPolls)
      BY <1>13, <2>1 DEF Detach, ReachesAPI
    <3> QED
      BY <1>3, <2>1, <3>1, BeginDetachStep, PollsAssumption DEF Pcs
  <2>2. CASE ~ AcceptsDetach(v, n)
    <3>1. CASE Exists(v)
      BY <1>1, <1>5, <1>13, <2>2, <3>1 DEF Detach
    <3>2. CASE ~ Exists(v)
      <4>1. call[h].pc = "detach" /\ call[h].live /\ UNCHANGED <<cloud, va, strayed, taken>> /\ Goto(h, "reply")
        BY <1>13, <2>2, <3>2 DEF Detach, ReachesAPI
      <4>2. call[h].op = "unpublish" /\ volume[v].on # n
        BY <1>0, <3>2, <4>1 DEF CloudFacts, Exists, ShapeOf
      <4> QED
        BY <1>12, <4>1, <4>2
    <3> QED
      BY <3>1, <3>2
  <2> QED
    BY <2>1, <2>2
<1>14. CASE WaitDetached(h)
  <2>1. CASE Exists(v) /\ ShownOn(v, n)
    <3>1. call[h].live => Knows(call[h].op, "waitDetached", v, n)
      BY <1>0, <1>14, <2>1 DEF HandlerFacts, WaitDetached, ReachesAPI
    <3> QED
      BY <1>4, <1>5, <1>14, <2>1, <3>1 DEF WaitDetached, ReachesAPI
  <2>2. CASE ~ (Exists(v) /\ ShownOn(v, n))
    <3>1. /\ call[h].pc = "waitDetached" /\ call[h].live /\ UNCHANGED <<cloud, va, strayed, taken>>
          /\ Goto(h, "reply")
      BY <1>14, <2>2 DEF WaitDetached, ReachesAPI
    <3>2. call[h].op = "unpublish" /\ (volume[v].on # n \/ v \in strayed)
      BY <1>0, <2>2, <3>1 DEF CloudFacts, Exists, ShownOn, HandlerFacts, Knows, ShapeOf
    <3> QED
      BY <1>12, <3>1, <3>2
  <2> QED
    BY <2>1, <2>2
<1>15. CASE Reply(h) /\ call[h].live
  <2>1. /\ Others /\ ~ call'[h].live /\ UNCHANGED <<cloud, strayed, taken>>
        /\ va' = [va EXCEPT ![v][n] = IF call[h].op = "publish" THEN "attached" ELSE "detached"]
    BY <1>1, <1>15 DEF Reply
  <2>2. Knows(call[h].op, "reply", v, n)
    BY <1>0, <1>15 DEF Reply, HandlerFacts
  <2>3. \A w \in Volumes : CloudFacts(w)'
    BY <2>1 DEF AttachInv, CloudFacts
  <2>4. ASSUME NEW w \in Volumes, NEW m \in Nodes PROVE RecordFacts(w, m)'
    <3>1. RecordFacts(w, m)
      BY DEF AttachInv
    <3>2. CASE w = v /\ m = n
      <4>1. va'[w][m] = IF call[h].op = "publish" THEN "attached" ELSE "detached"
        BY <1>0, <2>1, <3>2 DEF TypeOK
      <4> QED
        BY <1>0, <2>1, <2>2, <3>2, <4>1 DEF RecordFacts, Knows, Attached, InUseOn, ShapeOf
    <3>3. CASE ~ (w = v /\ m = n)
      <4>1. va'[w][m] = va[w][m]
        BY <1>0, <2>1, <3>3 DEF TypeOK
      <4> QED
        BY <2>1, <3>1, <4>1 DEF RecordFacts, Attached, InUseOn
    <3> QED
      BY <3>2, <3>3
  <2>5. ASSUME NEW g \in Handlers PROVE HandlerFacts(g)'
    <3>1. CASE g = h
      BY <2>1, <3>1 DEF HandlerFacts
    <3>2. CASE g # h /\ call[g].live
      <4>1. /\ call'[g] = call[g] /\ call[g].v \in Volumes /\ call[g].n \in Nodes
            /\ ~ (call[g].v = v /\ call[g].n = n)
            /\ Knows(call[g].op, call[g].pc, call[g].v, call[g].n)
        BY <1>15, <2>1, <3>2 DEF AttachInv, Shape, ShapeOf, Serial, HandlerFacts
      <4>2. va'[call[g].v][call[g].n] = va[call[g].v][call[g].n]
        BY <1>0, <2>1, <4>1 DEF TypeOK
      <4> QED
        BY <2>1, <4>1, <4>2 DEF HandlerFacts, Knows, Attached, InUseOn
    <3>3. CASE g # h /\ ~ call[g].live
      BY <2>1, <3>3 DEF HandlerFacts
    <3> QED
      BY <3>1, <3>2, <3>3
  <2>6. Serial'
    BY <2>1 DEF AttachInv, Serial
  <2> QED
    BY <2>3, <2>4, <2>5, <2>6 DEF AttachInv
<1>16. CASE Expire(h) \/ (Reply(h) /\ ~ call[h].live)
  BY <1>1, <1>5, <1>16 DEF Expire, Reply
<1>17. CASE ApiFails(h)
  <2>1. Others /\ ~ call'[h].live /\ call[h].live /\ UNCHANGED <<va, strayed, taken>>
    BY <1>1, <1>17 DEF ApiFails
  <2>2. CASE UNCHANGED cloud
    BY <1>5, <2>1, <2>2
  <2>3. CASE call[h].pc = "attach" /\ AcceptsAttach(v, n) /\ BeginAttach(v, n)
    BY <2>1, <2>3, BeginAttachStep
  <2>4. CASE call[h].pc = "detach" /\ AcceptsDetach(v, n) /\ BeginDetach(v, n)
    BY <2>1, <2>4, BeginDetachStep
  <2> QED
    BY <1>17, <2>2, <2>3, <2>4 DEF ApiFails
<1>18. CASE Cancel(h)
  <2>1. Others /\ ~ call'[h].live
    BY <1>0, <1>18 DEF Cancel, TypeOK, Calls
  <2> QED
    BY <1>5, <1>18, <2>1 DEF Cancel
<1>19. CASE AttachOverdue(h) \/ DetachOverdue(h)
  <2>1. Others /\ ~ call'[h].live /\ UNCHANGED <<cloud, va, strayed, taken>>
    BY <1>1, <1>19 DEF AttachOverdue, DetachOverdue, Overdue
  <2> QED
    BY <1>5, <2>1
<1> QED
  BY <1>7, <1>8, <1>9, <1>10, <1>11, <1>13, <1>14, <1>15, <1>16, <1>17, <1>18, <1>19
     DEF HandlerStep, HandlerFault

(* The cloud on its own does what CloudKept says. *)
LEMMA CloudAttachStep ==
  ASSUME AttachInv, TypeOK', CloudStep
  PROVE  CloudKept /\ UNCHANGED <<call, va, taken>>
<1> USE DEF attacher, overdue
<1>0. /\ TypeOK /\ \A v \in Volumes : CloudFacts(v) /\ volume[v] \in VolumeStates
      /\ \A v \in Volumes : volume[v].on \in Nodes \union {None}
  BY DEF AttachInv, TypeOK, VolumeStates
<1>a. ASSUME NEW v \in Volumes, volume' = [volume EXCEPT ![v] = volume'[v]],
             UNCHANGED up, Moored \/ UNCHANGED strayed, CloudFacts(v)',
             volume'[v].on \in {volume[v].on, None},
             volume'[v].on # None /\ volume[v].shown => volume'[v].shown,
             \A n \in Nodes : Attached(v, n) /\ up'[n] => Attached(v, n)'
      PROVE  CloudKept
  <2>1. ASSUME NEW w \in Volumes \ {v} PROVE volume'[w] = volume[w] /\ CloudFacts(w)'
    BY <1>0, <1>a DEF TypeOK, CloudFacts, Moored
  <2>2. ASSUME NEW w \in Volumes, volume'[w].on # None, w \in strayed PROVE w \in strayed'
    BY <1>a, <2>2 DEF Moored
  <2> QED
    BY <1>a, <2>1, <2>2 DEF CloudKept, Attached, InUseOn
<1>1. ASSUME NEW v \in Volumes, AttachProgress(v) PROVE CloudKept /\ UNCHANGED <<call, va, taken>>
  <2>1. \E s \in {"attaching", "in-use"} :
          volume' = [volume EXCEPT ![v].shown = TRUE, ![v].status = s]
    <3>1. volume[v].status = "attaching"
      BY <1>1 DEF AttachProgress
    <3>2. [volume[v] EXCEPT !.shown = TRUE] = [volume[v] EXCEPT !.shown = TRUE, !.status = "attaching"]
      BY <1>0, <3>1 DEF VolumeStates
    <3> QED
      BY <1>0, <1>1, <3>2 DEF AttachProgress, TypeOK
  <2>2. PICK s \in {"attaching", "in-use"} :
          volume' = [volume EXCEPT ![v].shown = TRUE, ![v].status = s]
    BY <2>1
  <2>3. /\ volume'[v].shown /\ volume'[v].on = volume[v].on /\ volume'[v].status = s
        /\ volume' = [volume EXCEPT ![v] = volume'[v]]
    BY <1>0, <2>2 DEF TypeOK, VolumeStates
  <2>4. CloudFacts(v)'
    BY <1>0, <1>1, <2>3 DEF CloudFacts, AttachProgress
  <2> QED
    BY <1>1, <1>a, <2>3, <2>4 DEF AttachProgress, Attached, InUseOn
<1>2. ASSUME NEW v \in Volumes, DetachProgress(v) PROVE CloudKept /\ UNCHANGED <<call, va, taken>>
  <2>1. /\ volume'[v].on = None /\ volume'[v].status \in {"available", "detaching"}
        /\ volume' = [volume EXCEPT ![v] = volume'[v]]
    BY <1>0, <1>2 DEF DetachProgress, TypeOK, VolumeStates
  <2>2. CloudFacts(v)'
    BY <1>2, <2>1 DEF CloudFacts, DetachProgress, Moored
  <2> QED
    BY <1>2, <1>a, <2>1, <2>2 DEF DetachProgress, Attached, InUseOn
<1>3. ASSUME NEW v \in Volumes, CloudFails(v) PROVE CloudKept /\ UNCHANGED <<call, va, taken>>
  <2>0. volume[v].status \in {"attaching", "detaching"}
    BY <1>3 DEF CloudFails
  <2>1. /\ volume' = [volume EXCEPT ![v] = volume'[v]]
        /\ \/ volume'[v].on = None /\ volume'[v].status = "available"
           \/ /\ volume[v].status = "detaching" /\ volume[v].on # None
              /\ volume'[v].on = volume[v].on /\ volume'[v].status = "in-use"
              /\ volume'[v].shown = volume[v].shown
    BY <1>0, <1>3 DEF CloudFails, TypeOK, VolumeStates
  <2>2. CloudFacts(v)'
    BY <1>0, <1>3, <2>1 DEF CloudFacts, CloudFails, Moored
  <2> QED
    BY <1>3, <1>a, <2>0, <2>1, <2>2 DEF CloudFails, Attached, InUseOn
<1>4. ASSUME NEW v \in Volumes, VolumeDeleted(v) PROVE CloudKept /\ UNCHANGED <<call, va, taken>>
  <2>1. /\ volume'[v].on = volume[v].on /\ volume'[v].status = "gone"
        /\ volume'[v].shown = volume[v].shown /\ volume[v].status = "available"
        /\ volume' = [volume EXCEPT ![v] = volume'[v]]
    BY <1>0, <1>4 DEF VolumeDeleted, TypeOK, VolumeStates
  <2>2. CloudFacts(v)'
    BY <1>0, <1>4, <2>1 DEF CloudFacts, VolumeDeleted
  <2> QED
    BY <1>4, <1>a, <2>1, <2>2 DEF VolumeDeleted, Attached, InUseOn
<1>5. ASSUME NEW v \in Volumes, NEW n \in Nodes, Enlist(v, n) \/ Unlist(v, n)
      PROVE  CloudKept /\ UNCHANGED <<call, va, taken>>
  <2>1. UNCHANGED <<volume, up, call, va, strayed, taken>>
    BY <1>5 DEF Enlist, Unlist
  <2> QED
    BY <1>0, <2>1 DEF CloudKept, CloudFacts, Attached, InUseOn
<1>6. ASSUME NEW m \in Nodes, NodeDeleted(m) PROVE CloudKept /\ UNCHANGED <<call, va, taken>>
  <2>1. /\ up' = [up EXCEPT ![m] = FALSE] /\ m # None
        /\ strayed' = {v \in strayed : volume'[v].on # None}
        /\ UNCHANGED <<call, va, taken>>
    BY <1>6, NoneAssumption DEF NodeDeleted, Moored
  <2>2. ASSUME NEW v \in Volumes
        PROVE  \/ volume[v].on # m /\ volume'[v] = volume[v]
               \/ /\ volume[v].on = m /\ volume'[v].on = None
                  /\ volume'[v].status = "available"
    BY <1>6 DEF NodeDeleted
  <2>3. ASSUME NEW v \in Volumes PROVE CloudFacts(v)'
    <3>1. CASE volume[v].on # m /\ volume'[v] = volume[v]
      BY <1>0, <2>1, <3>1 DEF CloudFacts, TypeOK
    <3>2. CASE volume'[v].on = None /\ volume'[v].status = "available"
      BY <2>1, <3>2 DEF CloudFacts
    <3> QED
      BY <2>2, <3>1, <3>2
  <2>4. ~ up'[m] /\ \A n \in Nodes \ {m} : up'[n] = up[n]
    BY <1>0, <2>1 DEF TypeOK
  <2>5. ASSUME NEW v \in Volumes, NEW n \in Nodes, Attached(v, n), up'[n] PROVE Attached(v, n)'
    <3>1. volume[v].on = n /\ n # m
      BY <2>4, <2>5 DEF Attached, InUseOn
    <3> QED
      BY <2>2, <2>5, <3>1 DEF Attached, InUseOn
  <2>6. \A n \in Nodes : up'[n] => up[n]
    BY <2>4
  <2>7. ASSUME NEW v \in Volumes
        PROVE  /\ volume'[v].on \in {volume[v].on, None}
               /\ volume'[v].on # None /\ volume[v].shown => volume'[v].shown
               /\ volume'[v].on # None /\ v \in strayed => v \in strayed'
    BY <2>1, <2>2
  <2> QED
    BY <2>1, <2>3, <2>5, <2>6, <2>7 DEF CloudKept
<1> QED
  BY <1>1, <1>2, <1>3, <1>4, <1>5, <1>6 DEF CloudStep

(* The attacher begins a call: nobody else has one on that volume and node. *)
LEMMA StartStep ==
  ASSUME AttachInv, (TypeOK /\ Shape)', NEW h \in Handlers, NEW v \in Volumes, NEW n \in Nodes,
         NEW op, NEW pc, NEW r, Start(h, op, pc, v, n, r),
         \/ op = "publish" /\ pc = "getVolume" /\ r = "attaching"
         \/ op = "unpublish" /\ pc = "getServer" /\ r = "detaching"
  PROVE  AttachInv'
<1>1. /\ TypeOK /\ UNCHANGED <<volume, listed, up, strayed>> /\ ~ Waiting(v, n)
      /\ taken' = taken \ {<<v, n>>}
      /\ call' = [call EXCEPT ![h] = [op |-> op, pc |-> pc, v |-> v, n |-> n,
                                      polls |-> 0, live |-> TRUE]]
      /\ va' = [va EXCEPT ![v][n] = r]
  BY DEF Start, cloud, overdue, AttachInv
<1>2. /\ call'[h].op = op /\ call'[h].pc = pc /\ call'[h].v = v /\ call'[h].n = n
      /\ \A g \in Handlers \ {h} : call'[g] = call[g]
      /\ va'[v][n] = r
      /\ \A w \in Volumes, m \in Nodes : ~ (w = v /\ m = n) =>
           va'[w][m] = va[w][m] /\ (<<w, m>> \in taken => <<w, m>> \in taken')
  BY <1>1 DEF TypeOK
<1>3. \A w \in Volumes : CloudFacts(w)'
  BY <1>1 DEF AttachInv, CloudFacts
<1>4. ASSUME NEW w \in Volumes, NEW m \in Nodes PROVE RecordFacts(w, m)'
  BY <1>1, <1>2 DEF AttachInv, RecordFacts, Attached, InUseOn
<1>5. ASSUME NEW g \in Handlers PROVE HandlerFacts(g)'
  <2>1. CASE g = h
    BY <1>2, <2>1 DEF HandlerFacts, Knows
  <2>2. CASE g # h /\ call[g].live
    <3>1. /\ call'[g] = call[g] /\ call[g].v \in Volumes /\ call[g].n \in Nodes
          /\ ~ (call[g].v = v /\ call[g].n = n)
          /\ Knows(call[g].op, call[g].pc, call[g].v, call[g].n)
      BY <1>1, <1>2, <2>2 DEF AttachInv, Shape, ShapeOf, HandlerFacts, Waiting
    <3>2. /\ va'[call[g].v][call[g].n] = va[call[g].v][call[g].n]
          /\ <<call[g].v, call[g].n>> \in taken => <<call[g].v, call[g].n>> \in taken'
      BY <1>2, <3>1
    <3> QED
      BY <1>1, <3>1, <3>2 DEF HandlerFacts, Knows, Attached, InUseOn
  <2>3. CASE g # h /\ ~ call[g].live
    BY <1>2, <2>3 DEF HandlerFacts
  <2> QED
    BY <2>1, <2>2, <2>3
<1>6. Serial'
  BY <1>1, <1>2 DEF AttachInv, Serial, Waiting
<1> QED
  BY <1>3, <1>4, <1>5, <1>6 DEF AttachInv

LEMMA AttachStep == AttachInv /\ [Next]_vars => AttachInv'
<1> SUFFICES ASSUME AttachInv, [Next]_vars PROVE AttachInv'
  OBVIOUS
<1>0. (TypeOK /\ Shape)'
  BY TypeStep DEF AttachInv
<1>a. ASSUME UNCHANGED <<cloud, va, strayed, taken>>, HandlersKept PROVE AttachInv'
  <2>1. CloudKept
    BY <1>a DEF CloudKept, AttachInv, CloudFacts, Attached, InUseOn, cloud
  <2> QED
    BY <1>0, <1>a, <2>1, KeptStep
<1>1. ASSUME NEW h \in Handlers, HandlerStep(h) \/ HandlerFault(h) PROVE AttachInv'
  BY <1>0, <1>1, HandlerAttachStep
<1>2. CASE CloudStep
  <2>1. CloudKept /\ UNCHANGED <<call, va, taken>>
    BY <1>0, <1>2, CloudAttachStep
  <2>2. HandlersKept
    BY <2>1 DEF HandlersKept
  <2> QED
    BY <1>0, <2>1, <2>2, KeptStep
<1>3. CASE AttacherStep
  <2>1. ASSUME NEW v \in Volumes, NEW n \in Nodes \union {None}, Move(v, n) PROVE AttachInv'
    BY <1>a, <2>1 DEF Move, HandlersKept, overdue
  <2>2. ASSUME NEW h \in Handlers, NEW v \in Volumes, NEW n \in Nodes,
               StartPublish(h, v, n) \/ StartUnpublish(h, v, n)
        PROVE  AttachInv'
    BY <1>0, <2>2, StartStep DEF StartPublish, StartUnpublish
  <2> QED
    BY <1>3, <2>1, <2>2 DEF AttacherStep
<1>4. CASE Restart
  BY <1>a, <1>4 DEF Restart, HandlersKept, Idle, attacher, overdue
<1>5. CASE UNCHANGED vars
  BY <1>a, <1>5 DEF vars, attacher, overdue, HandlersKept
<1>6. ASSUME NEW v \in Volumes, NEW n \in Nodes, LateAttach(v, n) PROVE AttachInv'
  <2>1. UNCHANGED <<call, va>>
    BY <1>6 DEF LateAttach, attacher
  <2>2. CASE ~ AcceptsAttach(v, n)
    BY <1>6, <1>a, <2>1, <2>2 DEF LateAttach, HandlersKept
  <2>3. CASE AcceptsAttach(v, n)
    BY <1>0, <1>6, <2>1, <2>3, LateAttachStep DEF LateAttach
  <2> QED
    BY <2>2, <2>3
<1>7. ASSUME NEW v \in Volumes, NEW n \in Nodes, LateDetach(v, n) PROVE AttachInv'
  <2>1. UNCHANGED <<call, va, strayed>>
    BY <1>7 DEF LateDetach, attacher
  <2>2. CASE ~ AcceptsDetach(v, n)
    BY <1>7, <1>a, <2>1, <2>2 DEF LateDetach, HandlersKept
  <2>3. CASE AcceptsDetach(v, n)
    BY <1>0, <1>7, <2>1, <2>3, LateDetachStep DEF LateDetach
  <2> QED
    BY <2>2, <2>3
<1> QED
  BY <1>1, <1>2, <1>3, <1>4, <1>5, <1>6, <1>7 DEF Next

LEMMA AttachAlways == Spec => []AttachInv
  BY AttachInit, AttachStep, PTL DEF Spec

(* A volume recorded as attached is in use on its node, however many handlers
   of cancelled calls are still running, unless a detach request executed late
   has sent it away since the attacher's last request (controller.go:155-216,
   240). *)
THEOREM AttachedIsAttached == Spec => []AttachedWhenRecorded
<1>1. AttachInv => AttachedWhenRecorded
  BY DEF AttachInv, RecordFacts, AttachedWhenRecorded
<1> QED
  BY <1>1, AttachAlways, PTL

(* A volume recorded as detached is not on the node, nor coming to it, unless an
   attach request executed late has attached it, or the server did not list it
   yet when it was to be detached (controller.go:189, 218-263). *)
THEOREM DetachedIsDetached == Spec => []DetachedWhenRecorded
<1>1. AttachInv => DetachedWhenRecorded
  BY DEF AttachInv, RecordFacts, DetachedWhenRecorded
<1> QED
  BY <1>1, AttachAlways, PTL

(* Only the unpublish call the attacher waits for sends a disk away from its
   server, or a detach request of an earlier one that is executed late
   (controller.go:238-247). *)
THEOREM DisksLeaveOnRequest == Spec => LeavesOnRequest
<1> DEFINE Leaves == \A v \in Volumes, n \in Nodes :
                       Attached(v, n) /\ volume'[v].status = "detaching" =>
                         va[v][n] = "detaching" \/ <<"detach", v, n>> \in late \ late'
<1>1. ASSUME AttachInv, [Next]_vars, NEW v \in Volumes, NEW n \in Nodes, Attached(v, n),
             volume'[v].status = "detaching"
      PROVE  va[v][n] = "detaching" \/ <<"detach", v, n>> \in late \ late'
  <2>1. /\ volume[v].status = "in-use" /\ volume[v].on = n /\ TypeOK
        /\ volume' # volume
    BY <1>1 DEF Attached, InUseOn, AttachInv
  <2>2. \/ \E h \in Handlers : HandlerStep(h) \/ ApiFails(h)
        \/ CloudStep
        \/ \E w \in Volumes, m \in Nodes : LateAttach(w, m) \/ LateDetach(w, m)
    BY <1>1, <2>1 DEF Next, vars, cloud, AttacherStep, StartPublish, StartUnpublish, Start, Move,
                      Restart, HandlerFault, AttachOverdue, DetachOverdue, Overdue, Cancel
  <2>3. ASSUME CloudStep PROVE FALSE
    <3>1. CloudKept
      BY <1>1, <2>3, TypeStep, CloudAttachStep DEF AttachInv
    <3>2. ~ up'[n]
      BY <1>1, <3>1 DEF CloudKept, Attached, InUseOn
    <3>3. CloudFacts(v) /\ n # None
      BY <1>1, NoneAssumption DEF AttachInv
    <3>4. ~ UNCHANGED up
      BY <2>1, <3>2, <3>3 DEF CloudFacts
    <3>5. PICK m \in Nodes : NodeDeleted(m)
      BY <2>3, <3>4 DEF CloudStep, AttachProgress, DetachProgress, CloudFails, VolumeDeleted,
                        Enlist, Unlist
    <3> QED
      BY <1>1, <2>1, <3>5 DEF NodeDeleted
  <2>4. ASSUME NEW h \in Handlers, HandlerStep(h) \/ ApiFails(h) PROVE va[v][n] = "detaching"
    <3>1. \/ /\ call[h].pc = "attach" /\ call[h].live
             /\ BeginAttach(call[h].v, call[h].n)
          \/ /\ call[h].pc = "detach" /\ call[h].live
             /\ AcceptsDetach(call[h].v, call[h].n) /\ BeginDetach(call[h].v, call[h].n)
      BY <2>1, <2>4 DEF HandlerStep, ApiFails, GetVolume, GetServer, Attach, WaitAttached, GetPath,
                        Detach, WaitDetached, Reply, Expire, cloud, ReachesAPI
    <3>2. call[h].v \in Volumes /\ call[h].n \in Nodes /\ HandlerFacts(h) /\ ShapeOf(h)
      BY <1>1, <3>1 DEF AttachInv, Shape, ShapeOf
    <3>3. CASE call[h].pc = "attach" /\ BeginAttach(call[h].v, call[h].n)
      BY <1>1, <2>1, <3>2, <3>3 DEF BeginAttach, TypeOK
    <3>4. CASE /\ call[h].pc = "detach" /\ call[h].live
               /\ AcceptsDetach(call[h].v, call[h].n) /\ BeginDetach(call[h].v, call[h].n)
      <4>1. call[h].v = v /\ call[h].n = n
        BY <1>1, <2>1, <3>2, <3>4 DEF BeginDetach, AcceptsDetach, InUseOn, TypeOK
      <4>2. call[h].op = "unpublish"
        BY <3>2, <3>4 DEF ShapeOf
      <4> QED
        BY <3>2, <3>4, <4>1, <4>2 DEF HandlerFacts, Knows
    <3> QED
      BY <3>1, <3>3, <3>4
  <2>5. ASSUME NEW w \in Volumes, NEW m \in Nodes, LateAttach(w, m) PROVE FALSE
    <3>1. BeginAttach(w, m)
      BY <2>1, <2>5 DEF LateAttach, cloud
    <3> QED
      BY <1>1, <2>1, <3>1 DEF BeginAttach, TypeOK
  <2>6. ASSUME NEW w \in Volumes, NEW m \in Nodes, LateDetach(w, m)
        PROVE  <<"detach", v, n>> \in late \ late'
    <3>1. /\ AcceptsDetach(w, m) /\ BeginDetach(w, m)
          /\ <<"detach", w, m>> \in late /\ late' = late \ {<<"detach", w, m>>}
      BY <2>1, <2>6 DEF LateDetach, cloud
    <3>2. w = v /\ m = n
      BY <1>1, <2>1, <3>1 DEF BeginDetach, AcceptsDetach, InUseOn, TypeOK
    <3> QED
      BY <3>1, <3>2
  <2> QED
    BY <2>2, <2>3, <2>4, <2>5, <2>6
<1>2. AttachInv /\ [Next]_vars => [Leaves]_vars
  BY <1>1
<1> QED
  BY <1>2, AttachAlways, PTL DEF Spec, LeavesOnRequest
-----------------------------------------------------------------------------
(***************************************************************************)
(* The refinement of Attachments.  A step of the cloud moves one disk or   *)
(* loses one node, a step of a handler moves a disk or writes a record,    *)
(* and AttachInv says that the abstract step allows it.                    *)
(***************************************************************************)

LEMMA PromiseInit == Init => Promise!Init
<1> SUFFICES ASSUME Init PROVE Promise!Init
  OBVIOUS
<1>1. ASSUME NEW v \in Volumes PROVE Placed(volume[v]) = [node |-> None, usable |-> FALSE]
  BY DEF Init, Placed
<1> QED
  BY <1>1 DEF Init, Promise!Init, Promise!Away

(* Only what Placed tells of a disk matters. *)
LEMMA PlaceChange ==
  ASSUME TypeOK, NEW v \in Volumes, NEW s, volume' = [volume EXCEPT ![v] = s]
  PROVE  [w \in Volumes |-> Placed(volume'[w])] =
           [[w \in Volumes |-> Placed(volume[w])] EXCEPT ![v] = Placed(s)]
<1>1. volume'[v] = s /\ \A w \in Volumes \ {v} : volume'[w] = volume[w]
  BY DEF TypeOK
<1>2. ASSUME NEW w \in Volumes
      PROVE  Placed(volume'[w]) =
               [[u \in Volumes |-> Placed(volume[u])] EXCEPT ![v] = Placed(s)][w]
  BY <1>1
<1> QED
  BY <1>2

LEMMA PromiseStutter ==
  ASSUME UNCHANGED <<volume, up, va, strayed, taken>>
  PROVE  UNCHANGED Promise!vars
  BY DEF Promise!vars

(* A disk that moves stays where it was, can be used, or is taken away. *)
LEMMA PromiseMove ==
  ASSUME AttachInv, NEW v \in Volumes, NEW s \in VolumeStates,
         volume' = [volume EXCEPT ![v] = s], UNCHANGED <<up, va, taken>>,
         strayed' = IF s.on = None THEN strayed \ {v} ELSE strayed,
         \/ Placed(s) = Placed(volume[v])
         \/ /\ Placed(s) = [node |-> volume[v].on, usable |-> TRUE]
            /\ volume[v].on # None /\ volume[v].status # "in-use"
         \/ /\ Placed(s) = [node |-> None, usable |-> FALSE]
            /\ volume[v].on # None /\ volume[v].status # "in-use"
  PROVE  [Promise!Next]_(Promise!vars)
<1> DEFINE place == [w \in Volumes |-> Placed(volume[w])]
           after == [w \in Volumes |-> Placed(volume'[w])]
<1>1. after = [place EXCEPT ![v] = Placed(s)] /\ place[v] = Placed(volume[v])
  BY PlaceChange DEF AttachInv
<1>0. /\ Placed(s).node = s.on /\ Placed(volume[v]).node = volume[v].on
      /\ v \in strayed => volume[v].on # None
  BY DEF Placed, AttachInv, CloudFacts
<1>2. CASE Placed(s) = Placed(volume[v])
  <2>1. after = place
    BY <1>1, <1>2
  <2>2. strayed' = strayed
    BY <1>0, <1>2
  <2> QED
    BY <2>1, <2>2 DEF Promise!vars
<1>3. CASE /\ Placed(s) = [node |-> volume[v].on, usable |-> TRUE]
           /\ volume[v].on # None /\ volume[v].status # "in-use"
  <2>1. place[v].node # None /\ ~ place[v].usable
    BY <1>1, <1>3 DEF Placed
  <2>2. [node |-> place[v].node, usable |-> TRUE] = Placed(s)
    BY <1>1, <1>3 DEF Placed
  <2>3. strayed' = strayed
    BY <1>0, <1>3
  <2> HIDE DEF place, after
  <2>4. Promise!Connect(v)
    BY <1>1, <2>1, <2>2, <2>3 DEF Promise!Connect, Promise!Put, place, after
  <2> QED
    BY <2>4 DEF Promise!Next
<1>4. CASE /\ Placed(s) = [node |-> None, usable |-> FALSE]
           /\ volume[v].on # None /\ volume[v].status # "in-use"
  <2>1. place[v].node # None /\ ~ place[v].usable
    BY <1>1, <1>4 DEF Placed
  <2>2. strayed' = strayed \ {v}
    BY <1>0, <1>4
  <2>3. Promise!TakeAway(v)
    BY <1>1, <1>4, <2>1, <2>2 DEF Promise!TakeAway, Promise!Put, Promise!Away
  <2> QED
    BY <2>3 DEF Promise!Next
<1> QED
  BY <1>2, <1>3, <1>4

LEMMA PromiseBring ==
  ASSUME AttachInv, NEW v \in Volumes, NEW n \in Nodes, AcceptsAttach(v, n), BeginAttach(v, n),
         UNCHANGED <<va, taken>>,
         strayed' = IF va[v][n] = "attaching" THEN strayed ELSE strayed \union {v}
  PROVE  [Promise!Next]_(Promise!vars)
<1> DEFINE s == [status |-> "attaching", on |-> n, shown |-> FALSE]
           place == [w \in Volumes |-> Placed(volume[w])]
           after == [w \in Volumes |-> Placed(volume'[w])]
<1>1. after = [place EXCEPT ![v] = Placed(s)]
  BY PlaceChange DEF AttachInv, BeginAttach
<1>2. Placed(s) = [node |-> n, usable |-> FALSE]
  BY DEF Placed
<1>3. place[v] = [node |-> None, usable |-> FALSE]
  <2>1. volume[v].on = None /\ volume[v].status = "available"
    BY DEF AttachInv, CloudFacts, AcceptsAttach
  <2> QED
    BY <2>1 DEF Placed
<1>4. up[n] /\ UNCHANGED up
  BY DEF AcceptsAttach, BeginAttach
<1>5. Promise!Bring(v, n)
  BY <1>1, <1>2, <1>3, <1>4 DEF Promise!Bring, Promise!Put, Promise!Away
<1> QED
  BY <1>5 DEF Promise!Next

LEMMA PromiseDisconnect ==
  ASSUME AttachInv, NEW v \in Volumes, NEW n \in Nodes, AcceptsDetach(v, n), BeginDetach(v, n),
         UNCHANGED <<va, strayed>>,
         taken' = IF va[v][n] = "detaching" THEN taken ELSE taken \union {<<v, n>>}
  PROVE  [Promise!Next]_(Promise!vars)
<1> DEFINE s == [volume[v] EXCEPT !.status = "detaching"]
           place == [w \in Volumes |-> Placed(volume[w])]
           after == [w \in Volumes |-> Placed(volume'[w])]
<1>0. /\ volume[v] \in VolumeStates /\ volume[v].status = "in-use"
      /\ volume[v].on = n /\ volume[v].shown
  BY NoneAssumption DEF AttachInv, TypeOK, CloudFacts, AcceptsDetach, InUseOn
<1>1. after = [place EXCEPT ![v] = Placed(s)]
  BY PlaceChange DEF AttachInv, BeginDetach
<1>2. Placed(s) = [node |-> n, usable |-> FALSE] /\ place[v] = [node |-> n, usable |-> TRUE]
  BY <1>0 DEF Placed, VolumeStates
<1>3. UNCHANGED up
  BY DEF BeginDetach
<1>4. Promise!Disconnect(v)
  <2> HIDE DEF place, after, s
  <2>1. Placed(s) = [node |-> place[v].node, usable |-> FALSE]
    BY <1>2
  <2>2. place[v].usable /\ place[v].node = n
    BY <1>2
  <2> QED
    BY <1>1, <1>3, <2>1, <2>2 DEF Promise!Disconnect, Promise!Put, place, after
<1> QED
  BY <1>4 DEF Promise!Next

LEMMA PromiseCloud ==
  ASSUME AttachInv, TypeOK', CloudStep
  PROVE  [Promise!Next]_(Promise!vars)
<1> USE DEF attacher, overdue
<1>0. \A v \in Volumes : CloudFacts(v) /\ volume[v] \in VolumeStates /\ volume'[v] \in VolumeStates
  BY DEF AttachInv, TypeOK
<1>a. ASSUME NEW v \in Volumes, NEW s, volume' = [volume EXCEPT ![v] = s], Moored
      PROVE  strayed' = IF s.on = None THEN strayed \ {v} ELSE strayed
  <2>1. volume'[v] = s /\ \A w \in Volumes \ {v} : volume'[w] = volume[w]
    BY <1>a DEF AttachInv, TypeOK
  <2>2. \A w \in strayed : w \in Volumes /\ volume[w].on # None
    BY <1>0 DEF CloudFacts, AttachInv, TypeOK
  <2> QED
    BY <1>a, <2>1, <2>2 DEF Moored
<1>1. ASSUME NEW v \in Volumes, AttachProgress(v) PROVE [Promise!Next]_(Promise!vars)
  <2>1. CASE volume' = [volume EXCEPT ![v].shown = TRUE]
    <3>1. [volume[v] EXCEPT !.shown = TRUE] \in VolumeStates
      BY <1>0 DEF VolumeStates
    <3>2. Placed([volume[v] EXCEPT !.shown = TRUE]) = Placed(volume[v])
      BY <1>0, <1>1 DEF AttachProgress, Placed, VolumeStates
    <3> QED
      BY <1>0, <1>1, <2>1, <3>1, <3>2, PromiseMove DEF AttachProgress, CloudFacts, VolumeStates
  <2>2. CASE volume' = [volume EXCEPT ![v].shown = TRUE, ![v].status = "in-use"]
    <3> DEFINE s == [volume[v] EXCEPT !.shown = TRUE, !.status = "in-use"]
    <3>1. s \in VolumeStates
      BY <1>0 DEF VolumeStates
    <3>2. Placed(s) = [node |-> volume[v].on, usable |-> TRUE]
      BY <1>0 DEF Placed, VolumeStates
    <3>3. volume' = [volume EXCEPT ![v] = s]
      BY <1>0, <2>2 DEF AttachInv, TypeOK
    <3>4. volume[v].on # None /\ volume[v].status # "in-use"
      BY <1>0, <1>1 DEF AttachProgress, CloudFacts
    <3>5. s.on # None
      BY <1>0, <3>4 DEF VolumeStates
    <3> HIDE DEF s
    <3> QED
      BY <1>1, <3>1, <3>2, <3>3, <3>4, <3>5, PromiseMove DEF AttachProgress
  <2> QED
    BY <1>1, <2>1, <2>2 DEF AttachProgress
<1>2. ASSUME NEW v \in Volumes, DetachProgress(v) PROVE [Promise!Next]_(Promise!vars)
  <2> DEFINE t == IF volume[v].on = None THEN "available" ELSE "detaching"
             s == [volume[v] EXCEPT !.shown = FALSE, !.on = None, !.status = t]
  <2>1. volume' = [volume EXCEPT ![v] = s]
    BY <1>2 DEF DetachProgress, AttachInv, TypeOK
  <2>2. s \in VolumeStates /\ Placed(s) = [node |-> None, usable |-> FALSE]
    <3>1. t \in {"available", "detaching"}
      OBVIOUS
    <3> HIDE DEF t
    <3> QED
      BY <1>0, <3>1 DEF VolumeStates, Placed
  <2>3. volume[v].status # "in-use"
    BY <1>2 DEF DetachProgress
  <2>4. volume[v].on = None => Placed(s) = Placed(volume[v])
    BY <2>2, <2>3 DEF Placed
  <2> HIDE DEF s
  <2> QED
    BY <1>2, <1>a, <2>1, <2>2, <2>3, <2>4, PromiseMove DEF DetachProgress
<1>3. ASSUME NEW v \in Volumes, CloudFails(v) PROVE [Promise!Next]_(Promise!vars)
  <2>0. UNCHANGED <<up, va, taken>> /\ volume[v].on # None /\ volume[v].status # "in-use"
    BY <1>0, <1>3 DEF CloudFails, CloudFacts
  <2>1. CASE volume' = [volume EXCEPT ![v] = [status |-> "available", on |-> None, shown |-> FALSE]]
    <3> DEFINE s == [status |-> "available", on |-> None, shown |-> FALSE]
    <3>1. s \in VolumeStates /\ Placed(s) = [node |-> None, usable |-> FALSE]
      BY DEF VolumeStates, Placed
    <3> QED
      BY <1>3, <1>a, <2>0, <2>1, <3>1, PromiseMove DEF CloudFails
  <2>2. CASE volume[v].status = "detaching" /\ volume' = [volume EXCEPT ![v].status = "in-use"]
    <3> DEFINE s == [volume[v] EXCEPT !.status = "in-use"]
    <3>1. volume[v].shown
      BY <1>0, <2>0, <2>2 DEF CloudFacts
    <3>2. s \in VolumeStates /\ Placed(s) = [node |-> volume[v].on, usable |-> TRUE]
      BY <1>0, <3>1 DEF VolumeStates, Placed
    <3>3. volume' = [volume EXCEPT ![v] = s]
      BY <2>2
    <3> HIDE DEF s
    <3> QED
      BY <1>3, <1>a, <2>0, <3>2, <3>3, PromiseMove DEF CloudFails
  <2> QED
    BY <1>3, <2>1, <2>2 DEF CloudFails
<1>4. ASSUME NEW v \in Volumes, VolumeDeleted(v) PROVE [Promise!Next]_(Promise!vars)
  <2> DEFINE s == [volume[v] EXCEPT !.status = "gone"]
  <2>1. s \in VolumeStates /\ Placed(s) = Placed(volume[v])
    BY <1>0, <1>4 DEF VolumeDeleted, VolumeStates, Placed
  <2>2. volume' = [volume EXCEPT ![v] = s]
    BY <1>4 DEF VolumeDeleted
  <2>3. v \notin strayed
    BY <1>0, <1>4 DEF VolumeDeleted, CloudFacts
  <2>4. strayed' = strayed /\ strayed = strayed \ {v} /\ UNCHANGED <<up, va, taken>>
    BY <1>4, <2>3 DEF VolumeDeleted
  <2> HIDE DEF s
  <2> QED
    BY <2>1, <2>2, <2>4, PromiseMove
<1>5. ASSUME NEW v \in Volumes, NEW n \in Nodes, Enlist(v, n) \/ Unlist(v, n)
      PROVE  [Promise!Next]_(Promise!vars)
  BY <1>5, PromiseStutter DEF Enlist, Unlist
<1>6. ASSUME NEW n \in Nodes, NodeDeleted(n) PROVE [Promise!Next]_(Promise!vars)
  <2>1. ASSUME NEW v \in Volumes
        PROVE  Placed(volume'[v]) =
                 IF Placed(volume[v]).node = n THEN [node |-> None, usable |-> FALSE]
                                               ELSE Placed(volume[v])
    BY <1>6 DEF NodeDeleted, Placed
  <2>2. strayed' = {v \in strayed : Placed(volume[v]).node # n}
    <3>1. n # None /\ strayed \subseteq Volumes
      BY NoneAssumption DEF AttachInv, TypeOK
    <3>2. ASSUME NEW v \in strayed PROVE volume'[v].on # None <=> Placed(volume[v]).node # n
      BY <1>0, <1>6, <3>1, <3>2 DEF NodeDeleted, Placed, CloudFacts
    <3> QED
      BY <1>6, <3>2 DEF NodeDeleted, Moored
  <2>3. ASSUME NEW v \in strayed
        PROVE  [w \in Volumes |-> Placed(volume[w])][v].node = Placed(volume[v]).node
    BY DEF AttachInv, TypeOK
  <2>4. Promise!LoseNode(n)
    BY <1>6, <2>1, <2>2, <2>3 DEF NodeDeleted, Promise!LoseNode, Promise!Away
  <2> QED
    BY <2>4 DEF Promise!Next
<1> QED
  BY <1>1, <1>2, <1>3, <1>4, <1>5, <1>6 DEF CloudStep

(* A record that a call writes, when it begins or has succeeded. *)
LEMMA PromiseRecord ==
  ASSUME AttachInv, NEW v \in Volumes, NEW n \in Nodes, NEW r,
         va' = [va EXCEPT ![v][n] = r], UNCHANGED <<volume, up, strayed>>,
         \/ /\ taken' = taken \ {<<v, n>>} /\ r = "attaching"
            /\ va[v][n] = "attaching" \/ \A m \in Nodes : va[v][m] = "detached"
         \/ taken' = taken \ {<<v, n>>} /\ r = "detaching" /\ va[v][n] # "detached"
         \/ /\ UNCHANGED taken /\ r = "attached" /\ va[v][n] = "attaching"
            /\ up[n] => Attached(v, n) \/ <<v, n>> \in taken
         \/ /\ UNCHANGED taken /\ r = "detached" /\ va[v][n] = "detaching"
            /\ volume[v].on # n \/ v \in strayed
  PROVE  [Promise!Next]_(Promise!vars)
<1> DEFINE place == [w \in Volumes |-> Placed(volume[w])]
<1>0. UNCHANGED place /\ place[v] = Placed(volume[v])
  OBVIOUS
<1>1. CASE /\ taken' = taken \ {<<v, n>>} /\ r = "attaching"
           /\ va[v][n] = "attaching" \/ \A m \in Nodes : va[v][m] = "detached"
  <2>1. Promise!Ask(v, n)
    BY <1>0, <1>1 DEF Promise!Ask, Promise!Write
  <2> QED
    BY <2>1 DEF Promise!Next
<1>2. CASE taken' = taken \ {<<v, n>>} /\ r = "detaching" /\ va[v][n] # "detached"
  <2>1. Promise!Release(v, n)
    BY <1>0, <1>2 DEF Promise!Release, Promise!Write
  <2> QED
    BY <2>1 DEF Promise!Next
<1>3. CASE /\ UNCHANGED taken /\ r = "attached" /\ va[v][n] = "attaching"
           /\ up[n] => Attached(v, n) \/ <<v, n>> \in taken
  <2>1. up[n] => place[v] = [node |-> n, usable |-> TRUE] \/ <<v, n>> \in taken
    BY <1>0, <1>3 DEF Attached, InUseOn, Placed
  <2>2. Promise!Confirm(v, n)
    BY <1>0, <1>3, <2>1 DEF Promise!Confirm, Promise!Write
  <2> QED
    BY <2>2 DEF Promise!Next
<1>4. CASE /\ UNCHANGED taken /\ r = "detached" /\ va[v][n] = "detaching"
           /\ volume[v].on # n \/ v \in strayed
  <2>1. place[v].node # n \/ v \in strayed
    BY <1>0, <1>4 DEF Placed
  <2>2. Promise!Free(v, n)
    BY <1>0, <1>4, <2>1 DEF Promise!Free, Promise!Write
  <2> QED
    BY <2>2 DEF Promise!Next
<1> QED
  BY <1>1, <1>2, <1>3, <1>4

(* An unpublish that does not find the volume on the server's list. *)
LEMMA PromiseOverlook ==
  ASSUME AttachInv, NEW v \in Volumes, NEW n \in Nodes, va[v][n] = "detaching",
         UNCHANGED <<volume, up, va, taken>>,
         strayed' = IF volume[v].on = n THEN strayed \union {v} ELSE strayed
  PROVE  [Promise!Next]_(Promise!vars)
<1>1. CASE volume[v].on # n
  BY <1>1, PromiseStutter
<1>2. CASE volume[v].on = n
  <2>1. [w \in Volumes |-> Placed(volume[w])][v].node = n
    BY <1>2 DEF Placed
  <2>2. Promise!Overlook(v, n)
    BY <1>2, <2>1 DEF Promise!Overlook
  <2> QED
    BY <2>2 DEF Promise!Next
<1> QED
  BY <1>1, <1>2

(* A handler begins an attachment or a detachment that is waited for, writes a
   record, or changes nothing that shows. *)
LEMMA PromiseHandler ==
  ASSUME AttachInv, NEW h \in Handlers, HandlerStep(h) \/ HandlerFault(h)
  PROVE  [Promise!Next]_(Promise!vars)
<1> USE DEF cloud, attacher, overdue
<1>1. \/ UNCHANGED <<volume, up, va, strayed, taken>>
      \/ /\ call[h].pc = "getServer" /\ call[h].op # "publish" /\ call[h].live
         /\ UNCHANGED <<volume, up, va, taken>>
         /\ strayed' = IF volume[call[h].v].on = call[h].n
                        THEN strayed \union {call[h].v} ELSE strayed
      \/ /\ call[h].pc = "attach" /\ call[h].live /\ UNCHANGED <<va, strayed, taken>>
         /\ AcceptsAttach(call[h].v, call[h].n) /\ BeginAttach(call[h].v, call[h].n)
      \/ /\ call[h].pc = "detach" /\ call[h].live /\ UNCHANGED <<va, strayed, taken>>
         /\ AcceptsDetach(call[h].v, call[h].n) /\ BeginDetach(call[h].v, call[h].n)
      \/ /\ call[h].pc = "reply" /\ call[h].live /\ UNCHANGED <<volume, up, strayed, taken>>
         /\ va' = [va EXCEPT ![call[h].v][call[h].n] =
                     IF call[h].op = "publish" THEN "attached" ELSE "detached"]
  BY DEF HandlerStep, HandlerFault, GetVolume, GetServer, UnpublishOnServer, Attach, WaitAttached,
         GetPath, Detach, WaitDetached, Reply, Expire, ApiFails, AttachOverdue, DetachOverdue,
         Overdue, Cancel, ReachesAPI
<1>2. CASE UNCHANGED <<volume, up, va, strayed, taken>>
  BY <1>2, PromiseStutter
<1>3. ASSUME call[h].pc # "idle", call[h].live
      PROVE  /\ call[h].v \in Volumes /\ call[h].n \in Nodes
             /\ call[h].op \in {"publish", "unpublish"} /\ ShapeOf(h)
             /\ Knows(call[h].op, call[h].pc, call[h].v, call[h].n)
  BY <1>3 DEF AttachInv, Shape, ShapeOf, HandlerFacts
<1>4. ASSUME NEW op, NEW pc, NEW v \in Volumes, NEW n \in Nodes, Knows(op, pc, v, n),
             op \in {"publish", "unpublish"}
      PROVE  /\ /\ op = "publish" /\ UNCHANGED <<va, strayed, taken>>
                /\ AcceptsAttach(v, n) /\ BeginAttach(v, n)
                => [Promise!Next]_(Promise!vars)
             /\ /\ op = "unpublish" /\ UNCHANGED <<va, strayed, taken>>
                /\ AcceptsDetach(v, n) /\ BeginDetach(v, n)
                => [Promise!Next]_(Promise!vars)
             /\ /\ pc = "reply" /\ UNCHANGED <<volume, up, strayed, taken>>
                /\ va' = [va EXCEPT ![v][n] = IF op = "publish" THEN "attached" ELSE "detached"]
                => [Promise!Next]_(Promise!vars)
             /\ /\ op = "unpublish" /\ UNCHANGED <<volume, up, va, taken>>
                /\ strayed' = IF volume[v].on = n THEN strayed \union {v} ELSE strayed
                => [Promise!Next]_(Promise!vars)
  <2>1. CASE op = "publish"
    BY <1>4, <2>1, PromiseBring, PromiseRecord DEF Knows
  <2>2. CASE op = "unpublish"
    BY <1>4, <2>2, PromiseDisconnect, PromiseRecord, PromiseOverlook DEF Knows
  <2> QED
    BY <1>4, <2>1, <2>2
<1>5. CASE call[h].pc = "attach" /\ call[h].live
  BY <1>1, <1>2, <1>3, <1>4, <1>5 DEF ShapeOf
<1>6. CASE call[h].pc = "detach" /\ call[h].live
  BY <1>1, <1>2, <1>3, <1>4, <1>6 DEF ShapeOf
<1>7. CASE call[h].pc = "reply" /\ call[h].live
  BY <1>1, <1>2, <1>3, <1>4, <1>7
<1>8. CASE call[h].pc = "getServer" /\ call[h].live
  BY <1>1, <1>2, <1>3, <1>4, <1>8
<1> QED
  BY <1>1, <1>2, <1>5, <1>6, <1>7, <1>8

LEMMA PromiseStep == AttachInv /\ [Next]_vars => [Promise!Next]_(Promise!vars)
<1> SUFFICES ASSUME AttachInv, [Next]_vars PROVE [Promise!Next]_(Promise!vars)
  OBVIOUS
<1> USE DEF cloud, attacher, overdue
<1>1. TypeOK'
  BY TypeStep DEF AttachInv
<1>2. ASSUME NEW h \in Handlers, HandlerStep(h) \/ HandlerFault(h)
      PROVE  [Promise!Next]_(Promise!vars)
  BY <1>2, PromiseHandler
<1>3. CASE CloudStep
  BY <1>1, <1>3, PromiseCloud
<1>4. ASSUME NEW v \in Volumes, NEW n \in Nodes, LateAttach(v, n)
      PROVE  [Promise!Next]_(Promise!vars)
  BY <1>4, PromiseBring, PromiseStutter DEF LateAttach
<1>7. ASSUME NEW v \in Volumes, NEW n \in Nodes, LateDetach(v, n)
      PROVE  [Promise!Next]_(Promise!vars)
  BY <1>7, PromiseDisconnect, PromiseStutter DEF LateDetach
<1>5. CASE AttacherStep
  <2>1. ASSUME NEW v \in Volumes, NEW n \in Nodes \union {None}, Move(v, n)
        PROVE  [Promise!Next]_(Promise!vars)
    BY <2>1, PromiseStutter DEF Move
  <2>2. ASSUME NEW h \in Handlers, NEW v \in Volumes, NEW n \in Nodes, StartPublish(h, v, n)
        PROVE  [Promise!Next]_(Promise!vars)
    <3>1. "attaching" = va[v][n] \/ \A m \in Nodes : va[v][m] = "detached"
      BY <2>2 DEF StartPublish
    <3> QED
      BY <2>2, <3>1, PromiseRecord DEF StartPublish, Start
  <2>3. ASSUME NEW h \in Handlers, NEW v \in Volumes, NEW n \in Nodes, StartUnpublish(h, v, n)
        PROVE  [Promise!Next]_(Promise!vars)
    <3>1. va[v][n] # "detached"
      BY <2>3 DEF StartUnpublish
    <3> QED
      BY <2>3, <3>1, PromiseRecord DEF StartUnpublish, Start
  <2> QED
    BY <1>5, <2>1, <2>2, <2>3 DEF AttacherStep
<1>6. CASE Restart \/ UNCHANGED vars
  BY <1>6, PromiseStutter DEF Restart, vars
<1> QED
  BY <1>2, <1>3, <1>4, <1>5, <1>6, <1>7 DEF Next

(* ControllerPublishVolume and ControllerUnpublishVolume, with the cloud and
   with handlers and requests whose callers have gone, keep the promises of
   Attachments (controller.go:155-263). *)
THEOREM ImplementsAttachments == Spec => RefinesAttachments
  BY AttachAlways, PromiseInit, PromiseStep, PTL DEF Spec, RefinesAttachments, Promise!Spec
=============================================================================
