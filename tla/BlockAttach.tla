---------------------------- MODULE BlockAttach ----------------------------
(***************************************************************************)
(* ControllerPublishVolume and ControllerUnpublishVolume of the block      *)
(* storage driver (src/driver/blockstorage/controller.go:155-263 and the   *)
(* waits of client.go), between the external attacher that calls them and  *)
(* the cloud that attaches disks in its own time.  A call the attacher has *)
(* given up leaves a handler behind, asleep in its backoff; the context it *)
(* passes to every API call has then expired.                              *)
(***************************************************************************)
EXTENDS Naturals, FiniteSets

CONSTANTS
  Handlers,      \* gRPC handler goroutines that may run at once
  Volumes, Nodes,
  None,          \* no volume, no node
  AttachPolls,   \* diskAttachSteps
  DetachPolls,   \* diskDetachSteps
  MaxFaults,     \* bound on failing calls, timeouts, losses and restarts
  MaxMoves       \* bound on how often a pod moves to another node

ASSUME NoneAssumption == None \notin Volumes \union Nodes
ASSUME PollsAssumption == AttachPolls \in Nat \ {0} /\ DetachPolls \in Nat \ {0}
ASSUME BoundsAssumption == MaxFaults \in Nat /\ MaxMoves \in Nat

VARIABLES
  volume,   \* the volume as the API shows it: [status, on, shown]
  listed,   \* node -> the AttachedVolumes of its server
  up,       \* node -> does the server exist?
  late,     \* requests given up by their caller and not yet executed
  call,     \* handler -> its local variables
  va,       \* volume -> node -> what the attacher has recorded
  want,     \* volume -> the node it is wanted on, or None
  strayed,  \* volumes on a node that no call knows them to be on (history)
  taken,    \* <<v, n>> where a late request sent v away from n unasked (history)
  moves, faults

cloud == <<volume, listed, up>>
attacher == <<va, want, moves>>
overdue == <<late, strayed, taken>>
vars == <<cloud, overdue, call, attacher, faults>>
-----------------------------------------------------------------------------
(* on is the node of the attachment, shown whether it is in Attachments yet. *)
VolumeStates == [status : {"available", "attaching", "in-use", "detaching", "gone"},
                 on : Nodes \union {None}, shown : BOOLEAN]

Idle == [op |-> "none", pc |-> "idle", v |-> None, n |-> None, polls |-> 0, live |-> FALSE]
Pcs == {"idle", "getVolume", "getServer", "attach", "waitAttached", "getPath",
        "detach", "waitDetached", "reply"}
Calls == [op : {"none", "publish", "unpublish"}, pc : Pcs,
          v : Volumes \union {None}, n : Nodes \union {None}, polls : Nat, live : BOOLEAN]

Records == {"detached", "attaching", "attached", "detaching"}

TypeOK ==
  /\ volume \in [Volumes -> VolumeStates]
  /\ listed \in [Nodes -> SUBSET Volumes]
  /\ up \in [Nodes -> BOOLEAN]
  /\ call \in [Handlers -> Calls]
  /\ \A h \in Handlers : call[h].pc \notin {"waitAttached", "waitDetached"} \/ call[h].polls > 0
  /\ va \in [Volumes -> [Nodes -> Records]]
  /\ want \in [Volumes -> Nodes \union {None}]
  /\ late \subseteq {"attach", "detach"} \X Volumes \X Nodes
  /\ strayed \subseteq Volumes /\ taken \subseteq Volumes \X Nodes
  /\ moves \in 0..MaxMoves /\ faults \in 0..MaxFaults

Init ==
  /\ volume = [v \in Volumes |-> [status |-> "available", on |-> None, shown |-> FALSE]]
  /\ listed = [n \in Nodes |-> {}]
  /\ up = [n \in Nodes |-> TRUE]
  /\ call = [h \in Handlers |-> Idle]
  /\ va = [v \in Volumes |-> [n \in Nodes |-> "detached"]]
  /\ want = [v \in Volumes |-> None]
  /\ late = {} /\ strayed = {} /\ taken = {}
  /\ moves = 0 /\ faults = 0
-----------------------------------------------------------------------------
(* The cloud *)

Exists(v) == volume[v].status # "gone"
InUseOn(v, n) == volume[v].status = "in-use" /\ volume[v].on = n
ShownOn(v, n) == volume[v].shown /\ volume[v].on = n
Fault == faults < MaxFaults /\ faults' = faults + 1

(* An attachment begins; the server lists the volume some time later. *)
AcceptsAttach(v, n) == up[n] /\ volume[v].status = "available"
BeginAttach(v, n) ==
  /\ volume' = [volume EXCEPT ![v] = [status |-> "attaching", on |-> n, shown |-> FALSE]]
  /\ UNCHANGED <<listed, up>>

AcceptsDetach(v, n) == up[n] /\ InUseOn(v, n)
BeginDetach(v, n) ==
  /\ volume' = [volume EXCEPT ![v].status = "detaching"]
  /\ UNCHANGED <<listed, up>>

(* A volume that has left is nowhere unknown. *)
Moored == strayed' = {v \in strayed : volume'[v].on # None}

(* The attachment may show before the status says so, and its end may show
   before the status, and before the server's list. *)
AttachProgress(v) ==
  /\ volume[v].status = "attaching"
  /\ \/ volume' = [volume EXCEPT ![v].shown = TRUE]
     \/ volume' = [volume EXCEPT ![v].shown = TRUE, ![v].status = "in-use"]
  /\ UNCHANGED <<listed, up, call, overdue, attacher, faults>>

DetachProgress(v) ==
  /\ volume[v].status = "detaching"
  /\ volume' = [volume EXCEPT ![v].shown = FALSE, ![v].on = None,
                  ![v].status = IF volume[v].on = None THEN "available" ELSE "detaching"]
  /\ Moored
  /\ UNCHANGED <<listed, up, call, late, taken, attacher, faults>>

Enlist(v, n) ==
  /\ volume[v].on = n /\ v \notin listed[n]
  /\ listed' = [listed EXCEPT ![n] = @ \union {v}]
  /\ UNCHANGED <<volume, up, call, overdue, attacher, faults>>

Unlist(v, n) ==
  /\ v \in listed[n]
  /\ volume[v].on # n
  /\ listed' = [listed EXCEPT ![n] = @ \ {v}]
  /\ UNCHANGED <<volume, up, call, overdue, attacher, faults>>

(* A request that its caller gave up is executed, or refused. *)
LateAttach(v, n) ==
  /\ <<"attach", v, n>> \in late
  /\ late' = late \ {<<"attach", v, n>>}
  /\ \/ /\ AcceptsAttach(v, n) /\ BeginAttach(v, n)
        /\ strayed' = IF va[v][n] = "attaching" THEN strayed ELSE strayed \union {v}
     \/ ~ AcceptsAttach(v, n) /\ UNCHANGED <<cloud, strayed>>
  /\ UNCHANGED <<taken, call, attacher, faults>>

LateDetach(v, n) ==
  /\ <<"detach", v, n>> \in late
  /\ late' = late \ {<<"detach", v, n>>}
  /\ \/ /\ AcceptsDetach(v, n) /\ BeginDetach(v, n)
        /\ taken' = IF va[v][n] = "detaching" THEN taken ELSE taken \union {<<v, n>>}
     \/ ~ AcceptsDetach(v, n) /\ UNCHANGED <<cloud, taken>>
  /\ UNCHANGED <<strayed, call, attacher, faults>>

(* An attachment or a detachment fails in the cloud, after it was accepted. *)
CloudFails(v) ==
  /\ \/ /\ volume[v].status = "attaching"
        /\ volume' = [volume EXCEPT ![v] = [status |-> "available", on |-> None, shown |-> FALSE]]
     \/ /\ volume[v].status = "detaching" /\ volume[v].on # None
        /\ volume' = [volume EXCEPT ![v].status = "in-use"]
  /\ Moored
  /\ Fault
  /\ UNCHANGED <<listed, up, call, late, taken, attacher>>

VolumeDeleted(v) ==
  /\ volume[v].status = "available"
  /\ volume' = [volume EXCEPT ![v].status = "gone"]
  /\ Fault
  /\ UNCHANGED <<listed, up, call, overdue, attacher>>

(* A server is removed, and its attachments with it. *)
NodeDeleted(n) ==
  /\ up[n]
  /\ up' = [up EXCEPT ![n] = FALSE]
  /\ listed' = [listed EXCEPT ![n] = {}]
  /\ volume' = [v \in Volumes |->
       IF volume[v].on = n THEN [status |-> "available", on |-> None, shown |-> FALSE]
                           ELSE volume[v]]
  /\ Moored
  /\ Fault
  /\ UNCHANGED <<call, late, taken, attacher>>
-----------------------------------------------------------------------------
(* The attacher keeps one record per volume and node, has one call at a time
   on it, and attaches a volume only when no other node may have it. *)

Waiting(v, n) == \E h \in Handlers : call[h].live /\ call[h].v = v /\ call[h].n = n

Move(v, n) ==
  /\ moves < MaxMoves
  /\ want' = [want EXCEPT ![v] = n]
  /\ moves' = moves + 1
  /\ UNCHANGED <<cloud, overdue, call, va, faults>>

Start(h, op, pc, v, n, record) ==
  /\ call[h].pc = "idle"
  /\ ~ Waiting(v, n)
  /\ call' = [call EXCEPT ![h] = [op |-> op, pc |-> pc, v |-> v, n |-> n,
                                  polls |-> 0, live |-> TRUE]]
  /\ va' = [va EXCEPT ![v][n] = record]
  /\ taken' = taken \ {<<v, n>>}
  /\ UNCHANGED <<cloud, late, strayed, want, moves, faults>>

StartPublish(h, v, n) ==
  /\ want[v] = n
  /\ va[v][n] \in {"detached", "attaching"}
  /\ \A m \in Nodes \ {n} : va[v][m] = "detached"
  /\ Start(h, "publish", "getVolume", v, n, "attaching")

(* Once begun, a detachment is seen through. *)
StartUnpublish(h, v, n) ==
  /\ va[v][n] = "detaching" \/ (va[v][n] # "detached" /\ want[v] # n)
  /\ Start(h, "unpublish", "getServer", v, n, "detaching")

(* The attacher's deadline passes, or its connection breaks. *)
Cancel(h) ==
  /\ call[h].live
  /\ call' = [call EXCEPT ![h].live = FALSE]
  /\ Fault
  /\ UNCHANGED <<cloud, overdue, attacher>>

(* The plugin restarts. *)
Restart ==
  /\ call' = [h \in Handlers |-> Idle]
  /\ Fault
  /\ UNCHANGED <<cloud, overdue, attacher>>
-----------------------------------------------------------------------------
(* What every step of a handler does to its own variables. *)

Return(h) == call' = [call EXCEPT ![h] = Idle]
Goto(h, pc) == call' = [call EXCEPT ![h].pc = pc]
WaitFor(h, pc, polls) == call' = [call EXCEPT ![h].pc = pc, ![h].polls = polls]

(* Mutant: the API is called without the request's context. *)
ReachesAPIAnyway(h, pc) == call[h].pc = pc

(* The handler is at an API call, and its context has not expired. *)
ReachesAPI(h, pc) == call[h].pc = pc /\ call[h].live

(* One more evaluation of a backoff's condition, or the time is up. *)
KeepsWaiting(h) ==
  IF call[h].polls > 1 THEN call' = [call EXCEPT ![h].polls = @ - 1] ELSE Return(h)

GetVolume(h) ==
  /\ ReachesAPI(h, "getVolume")
  /\ IF Exists(call[h].v) THEN Goto(h, "getServer") ELSE Return(h)
  /\ UNCHANGED <<cloud, overdue, attacher, faults>>

(* Mutant: what the server does not list is sent to be detached too. *)
UnpublishDetachesAll(h) == Goto(h, "detach") /\ UNCHANGED strayed

(* No server, or a server without the volume: nothing to detach.  A list that
   lags behind does not tell of a volume on its way. *)
UnpublishOnServer(h) ==
  LET v == call[h].v
      n == call[h].n
  IN \/ /\ up[n] /\ v \in listed[n]
        /\ Goto(h, "detach") /\ UNCHANGED strayed
     \/ /\ ~ (up[n] /\ v \in listed[n])
        /\ Goto(h, "reply")
        /\ strayed' = IF volume[v].on = n THEN strayed \union {v} ELSE strayed

(* Mutant: a volume the server lists is attached. *)
ListedIsAttached(h) ==
  IF ~ up[call[h].n] THEN Return(h)
  ELSE IF call[h].v \in listed[call[h].n] THEN Goto(h, "reply") ELSE Goto(h, "attach")

(* A volume the server lists needs no attach call, only its device path. *)
PublishOnServer(h) ==
  IF ~ up[call[h].n] THEN Return(h)
  ELSE IF call[h].v \in listed[call[h].n] THEN Goto(h, "getPath") ELSE Goto(h, "attach")

GetServer(h) ==
  /\ ReachesAPI(h, "getServer")
  /\ IF call[h].op = "publish" THEN PublishOnServer(h) /\ UNCHANGED strayed
                               ELSE UnpublishOnServer(h)
  /\ UNCHANGED <<cloud, late, taken, attacher, faults>>

Attach(h) ==
  /\ ReachesAPI(h, "attach")
  /\ IF AcceptsAttach(call[h].v, call[h].n)
       THEN /\ BeginAttach(call[h].v, call[h].n)
            /\ WaitFor(h, "waitAttached", AttachPolls)
       ELSE UNCHANGED cloud /\ Return(h)
  /\ UNCHANGED <<overdue, attacher, faults>>

(* diskIsAttached, polled until it says yes. *)
WaitAttached(h) ==
  /\ ReachesAPI(h, "waitAttached")
  /\ IF ~ Exists(call[h].v) THEN Return(h)
     ELSE IF ShownOn(call[h].v, call[h].n) THEN Goto(h, "getPath")
     ELSE KeepsWaiting(h)
  /\ UNCHANGED <<cloud, overdue, attacher, faults>>

(* Mutant: an attachment that shows is enough. *)
HasPathEarly(h) == ShownOn(call[h].v, call[h].n)

HasPath(h) ==
  volume[call[h].v].status = "in-use" /\ ShownOn(call[h].v, call[h].n)

GetPath(h) ==
  /\ ReachesAPI(h, "getPath")
  /\ IF HasPath(h) THEN Goto(h, "reply") ELSE Return(h)
  /\ UNCHANGED <<cloud, overdue, attacher, faults>>

(* Mutant: the reply does not wait for the detachment. *)
DetachHasty(h) ==
  /\ ReachesAPI(h, "detach")
  /\ IF AcceptsDetach(call[h].v, call[h].n)
       THEN BeginDetach(call[h].v, call[h].n) /\ Goto(h, "reply")
       ELSE UNCHANGED cloud /\ (IF Exists(call[h].v) THEN Return(h) ELSE Goto(h, "reply"))
  /\ UNCHANGED <<overdue, attacher, faults>>

(* A volume that does not exist is detached. *)
Detach(h) ==
  /\ ReachesAPI(h, "detach")
  /\ IF AcceptsDetach(call[h].v, call[h].n)
       THEN /\ BeginDetach(call[h].v, call[h].n)
            /\ WaitFor(h, "waitDetached", DetachPolls)
       ELSE UNCHANGED cloud /\ (IF Exists(call[h].v) THEN Return(h) ELSE Goto(h, "reply"))
  /\ UNCHANGED <<overdue, attacher, faults>>

WaitDetached(h) ==
  /\ ReachesAPI(h, "waitDetached")
  /\ IF Exists(call[h].v) /\ ShownOn(call[h].v, call[h].n) THEN KeepsWaiting(h) ELSE Goto(h, "reply")
  /\ UNCHANGED <<cloud, overdue, attacher, faults>>

(* The answer of a successful call, if the attacher still listens. *)
Reply(h) ==
  /\ call[h].pc = "reply"
  /\ va' = IF call[h].live
             THEN [va EXCEPT ![call[h].v][call[h].n] =
                     IF call[h].op = "publish" THEN "attached" ELSE "detached"]
             ELSE va
  /\ Return(h)
  /\ UNCHANGED <<cloud, overdue, want, moves, faults>>

(* The context has expired: the next API call fails. *)
Expire(h) ==
  /\ call[h].pc \notin {"idle", "reply"} /\ ~ call[h].live
  /\ Return(h)
  /\ UNCHANGED <<cloud, overdue, attacher, faults>>

(* An API call fails without effect, or the answer to it is lost. *)
ApiFails(h) ==
  /\ call[h].pc \notin {"idle", "reply"} /\ call[h].live
  /\ \/ UNCHANGED cloud
     \/ call[h].pc = "attach" /\ AcceptsAttach(call[h].v, call[h].n)
        /\ BeginAttach(call[h].v, call[h].n)
     \/ call[h].pc = "detach" /\ AcceptsDetach(call[h].v, call[h].n)
        /\ BeginDetach(call[h].v, call[h].n)
  /\ Return(h)
  /\ Fault
  /\ UNCHANGED <<overdue, attacher>>

(* The context expires while the request is on its way: the call fails, and the
   API takes the request up later. *)
Overdue(h, request) ==
  /\ ReachesAPI(h, request)
  /\ late' = late \union {<<request, call[h].v, call[h].n>>}
  /\ Return(h)
  /\ Fault
  /\ UNCHANGED <<cloud, strayed, taken, attacher>>

AttachOverdue(h) == Overdue(h, "attach")
DetachOverdue(h) == Overdue(h, "detach")

HandlerStep(h) ==
  \/ GetVolume(h) \/ GetServer(h) \/ Attach(h) \/ WaitAttached(h) \/ GetPath(h)
  \/ Detach(h) \/ WaitDetached(h) \/ Reply(h) \/ Expire(h)

HandlerFault(h) == ApiFails(h) \/ AttachOverdue(h) \/ DetachOverdue(h) \/ Cancel(h)

CloudStep ==
  \/ \E v \in Volumes : AttachProgress(v) \/ DetachProgress(v) \/ CloudFails(v) \/ VolumeDeleted(v)
  \/ \E v \in Volumes, n \in Nodes : Enlist(v, n) \/ Unlist(v, n)
  \/ \E n \in Nodes : NodeDeleted(n)

AttacherStep ==
  \/ \E v \in Volumes, n \in Nodes \union {None} : Move(v, n)
  \/ \E h \in Handlers, v \in Volumes, n \in Nodes :
       StartPublish(h, v, n) \/ StartUnpublish(h, v, n)

Next ==
  \/ \E h \in Handlers : HandlerStep(h) \/ HandlerFault(h)
  \/ CloudStep
  \/ \E v \in Volumes, n \in Nodes : LateAttach(v, n) \/ LateDetach(v, n)
  \/ AttacherStep
  \/ Restart

Spec == Init /\ [][Next]_vars
-----------------------------------------------------------------------------
(* Properties *)

(* The disk is there: the node can open the device path it was given. *)
Attached(v, n) == InUseOn(v, n) /\ volume[v].shown

(* Once ControllerPublishVolume has succeeded, and until the attacher asks for
   a detachment, the volume is in use on that node, unless the node is gone.
   No handler left over from an earlier call takes it away; only a detach
   request that the API takes up after its caller has gone can
   (controller.go:155-216, 240). *)
AttachedWhenRecorded ==
  \A v \in Volumes, n \in Nodes :
    va[v][n] = "attached" /\ up[n] => Attached(v, n) \/ <<v, n>> \in taken

(* Once ControllerUnpublishVolume has succeeded the volume is neither on the
   node nor on its way there: another node may have it (controller.go:218-263).
   No handler left over from an earlier call attaches it again.  Two things can:
   an attach request that the API takes up after its caller has gone
   (controller.go:189), and an unpublish that reads the server's list before the
   volume is on it (controller.go:226). *)
DetachedWhenRecorded ==
  \A v \in Volumes \ strayed, n \in Nodes : va[v][n] = "detached" => volume[v].on # n

(* A disk leaves a server that stays up only while the attacher has asked for
   its detachment, or by a request of an earlier call that the API takes up late
   (controller.go:240). *)
LeavesOnRequest ==
  [][\A v \in Volumes, n \in Nodes :
       Attached(v, n) /\ volume'[v].status = "detaching" =>
         va[v][n] = "detaching" \/ <<"detach", v, n>> \in late \ late']_vars

(* Where a volume is, and whether its node can open it. *)
Placed(s) == [node |-> s.on, usable |-> s.status = "in-use" /\ s.shown]

Promise == INSTANCE Attachments WITH
  place <- [v \in Volumes |-> Placed(volume[v])],
  record <- va,
  adrift <- strayed,
  seized <- taken

(* The two calls with the cloud keep the promises of Attachments, over retries,
   calls given up, requests executed late, and nodes and volumes that
   disappear (controller.go:155-263). *)
RefinesAttachments == Promise!Spec
-----------------------------------------------------------------------------
(* Handlers run, the attacher retries with backoff and without end, and the
   cloud finishes what it has accepted. *)
Fairness ==
  /\ \A h \in Handlers : WF_vars(HandlerStep(h))
  /\ \A v \in Volumes, n \in Nodes :
       /\ WF_vars(\E h \in Handlers : StartPublish(h, v, n))
       /\ WF_vars(\E h \in Handlers : StartUnpublish(h, v, n))
       /\ WF_vars(Enlist(v, n)) /\ WF_vars(Unlist(v, n))
  /\ \A v \in Volumes : WF_vars(AttachProgress(v)) /\ WF_vars(DetachProgress(v))

FairSpec == Spec /\ Fairness

Settled(v, n) ==
  IF want[v] = n THEN va[v][n] = "attached" \/ ~ up[n] \/ ~ Exists(v)
                 ELSE va[v][n] = "detached"

(* Whatever was cancelled, lost or refused, in the end the attacher has recorded
   the volume where it is wanted and nowhere else: no retry runs into an error
   for ever (controller.go:185, 228-238, 242-255).  But a volume that stays on a
   node of which no call of the driver knows is refused to every other node. *)
Converges == <>[](\A v \in Volumes, n \in Nodes : v \in strayed \/ Settled(v, n))
=============================================================================
