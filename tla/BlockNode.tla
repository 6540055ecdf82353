------------------------------ MODULE BlockNode ------------------------------
(***************************************************************************)
(* The node service of the block storage driver                            *)
(* (src/driver/blockstorage/nodeserver.go:45-241): the mounts it makes of  *)
(* an attached volume's device at the staging path of the node and at the  *)
(* path of a pod.  Its handlers hold no lock and never look at the         *)
(* request's context: a call the kubelet has given up runs to its end.     *)
(***************************************************************************)
EXTENDS Naturals, Sequences

CONSTANTS
  Handlers,    \* gRPC handler goroutines that may run at once
  Volumes,     \* volume ids
  None,        \* no volume
  MaxFaults,   \* bound on failing calls, timeouts, losses and restarts
  MaxMoves,    \* bound on pods that come and go
  MaxMounts    \* bound on mounts stacked on one path

ASSUME NoneAssumption == None \notin Volumes
ASSUME BoundsAssumption == MaxFaults \in Nat /\ MaxMoves \in Nat /\ MaxMounts \in Nat \ {0}

VARIABLES
  raw,        \* volumes used as block devices, without a file system
  device,     \* volumes whose device is on the node: they are attached
  staging,    \* volume -> the staging path: "absent", a "dir", or "mounted"
  target,     \* volume -> the pod's path: [there, mounts]
  call,       \* handler -> its local variables
  kube,       \* volume -> [pod, dev, tgt]: what the kubelet knows of it
  overtaken,  \* volumes whose mounts a call given up has changed (history)
  faults, moves

vars == <<raw, device, staging, target, call, kube, overtaken, faults, moves>>
-----------------------------------------------------------------------------
Idle == [op |-> "none", pc |-> "idle", v |-> None, live |-> FALSE]
Calls == [op : {"none", "stage", "publish", "unpublish", "unstage"},
          pc : {"idle", "check", "mount", "unmount", "reply"},
          v : Volumes \union {None}, live : BOOLEAN]
Records == [pod : BOOLEAN, dev : {"no", "uncertain", "yes"}, tgt : {"no", "uncertain", "yes"}]

(* What the mounts on a pod's path show, the uppermost first. *)
Stacks == UNION {[1..n -> {"volume", "empty dir"}] : n \in 0..MaxMounts}

TypeOK ==
  /\ raw \subseteq Volumes /\ device \subseteq Volumes /\ overtaken \subseteq Volumes
  /\ staging \in [Volumes -> {"absent", "dir", "mounted"}]
  /\ target \in [Volumes -> [there : BOOLEAN, mounts : Stacks]]
  /\ \A v \in Volumes : target[v].mounts # <<>> => target[v].there
  /\ call \in [Handlers -> Calls]
  /\ kube \in [Volumes -> Records]
  /\ faults \in 0..MaxFaults /\ moves \in 0..MaxMoves

Init ==
  /\ raw \in SUBSET Volumes
  /\ device = {}
  /\ staging = [v \in Volumes |-> "absent"]
  /\ target = [v \in Volumes |-> [there |-> FALSE, mounts |-> <<>>]]
  /\ call = [h \in Handlers |-> Idle]
  /\ kube = [v \in Volumes |-> [pod |-> TRUE, dev |-> "no", tgt |-> "no"]]
  /\ overtaken = {}
  /\ faults = 0 /\ moves = 0

Fault == faults < MaxFaults /\ faults' = faults + 1
-----------------------------------------------------------------------------
(* Kubernetes: a volume is attached for a pod, and detached when the kubelet
   reports that it is not in use.  The kubelet has one call at a time on a
   volume; what a call is under way for, or has not answered, is uncertain. *)

Busy(v) == \E g \in Handlers : call[g].live /\ call[g].v = v
Unused(v) == ~ kube[v].pod /\ kube[v].dev = "no" /\ kube[v].tgt = "no" /\ ~ Busy(v)

Attach(v) ==
  /\ kube[v].pod /\ v \notin device
  /\ device' = device \union {v}
  /\ UNCHANGED <<raw, staging, target, call, kube, overtaken, faults, moves>>

Detach(v) ==
  /\ Unused(v) /\ v \in device
  /\ device' = device \ {v}
  /\ UNCHANGED <<raw, staging, target, call, kube, overtaken, faults, moves>>

Start(h, op, pc, v, rec) ==
  /\ call[h].pc = "idle" /\ ~ Busy(v)
  /\ call' = [call EXCEPT ![h] = [op |-> op, pc |-> pc, v |-> v, live |-> TRUE]]
  /\ kube' = [kube EXCEPT ![v] = rec]
  /\ UNCHANGED <<raw, device, staging, target, overtaken, faults, moves>>

CallStage(h, v) ==
  /\ kube[v].pod /\ v \in device /\ kube[v].dev # "yes"
  /\ Start(h, "stage", "check", v, [kube[v] EXCEPT !.dev = "uncertain"])

CallPublish(h, v) ==
  /\ kube[v].pod /\ kube[v].dev = "yes" /\ kube[v].tgt # "yes"
  /\ Start(h, "publish", "check", v, [kube[v] EXCEPT !.tgt = "uncertain"])

CallUnpublish(h, v) ==
  /\ ~ kube[v].pod /\ kube[v].tgt # "no"
  /\ Start(h, "unpublish", "unmount", v, [kube[v] EXCEPT !.tgt = "uncertain"])

CallUnstage(h, v) ==
  /\ ~ kube[v].pod /\ kube[v].tgt = "no" /\ kube[v].dev # "no"
  /\ Start(h, "unstage", "unmount", v, [kube[v] EXCEPT !.dev = "uncertain"])

PodComesOrGoes(v) ==
  /\ kube' = [kube EXCEPT ![v].pod = ~ @]
  /\ moves < MaxMoves /\ moves' = moves + 1
  /\ UNCHANGED <<raw, device, staging, target, call, overtaken, faults>>

(* The deadline of a call passes. *)
Cancel(h) ==
  /\ call[h].live
  /\ call' = [call EXCEPT ![h].live = FALSE]
  /\ Fault
  /\ UNCHANGED <<raw, device, staging, target, kube, overtaken, moves>>

(* The program restarts; the mounts stay. *)
DriverRestarts ==
  /\ call' = [h \in Handlers |-> Idle]
  /\ Fault
  /\ UNCHANGED <<raw, device, staging, target, kube, overtaken, moves>>

(* The node restarts: no mount is left, and the kubelet starts anew. *)
NodeRestarts ==
  /\ call' = [h \in Handlers |-> Idle]
  /\ staging' = [v \in Volumes |-> IF staging[v] = "mounted" THEN "dir" ELSE staging[v]]
  /\ target' = [v \in Volumes |-> [target[v] EXCEPT !.mounts = <<>>]]
  /\ kube' = [v \in Volumes |-> [kube[v] EXCEPT !.dev = "no", !.tgt = "no"]]
  /\ overtaken' = {}
  /\ Fault
  /\ UNCHANGED <<raw, device, moves>>
-----------------------------------------------------------------------------
(* The handlers *)

Return(h) == call' = [call EXCEPT ![h] = Idle]
Goto(h, pc) == call' = [call EXCEPT ![h].pc = pc]

(* The kubelet is told how the call of handler h has ended; an error of an
   unmount leaves the mount uncertain. *)
Tell(h, answer) ==
  LET v == call[h].v IN
  kube' = IF ~ call[h].live THEN kube
          ELSE IF call[h].op \in {"stage", "unstage"} THEN [kube EXCEPT ![v].dev = answer]
          ELSE [kube EXCEPT ![v].tgt = answer]

Fail(h) == Return(h) /\ Tell(h, IF call[h].op \in {"stage", "publish"} THEN "no" ELSE "uncertain")

(* The mounts of the volume are changed by handler h. *)
Effect(h) == overtaken' = IF call[h].live THEN overtaken ELSE overtaken \union {call[h].v}

(* IsLikelyNotMountPointAttach makes the directory if there is none. *)
EnsureDir(v) ==
  staging' = [staging EXCEPT ![v] = IF @ = "absent" THEN "dir" ELSE @]
EnsureTarget(v) == target' = [target EXCEPT ![v].there = TRUE]

(* Mutant: a directory that is there is taken for a mount. *)
StageCheckDir(h) ==
  LET v == call[h].v IN
  /\ call[h].op = "stage" /\ call[h].pc = "check" /\ v \in device
  /\ Goto(h, IF v \in raw \/ staging[v] # "absent" THEN "reply" ELSE "mount")
  /\ IF v \in raw THEN UNCHANGED staging ELSE EnsureDir(v)
  /\ UNCHANGED <<raw, device, target, kube, overtaken, faults, moves>>

(* NodeStageVolume, up to "verify whether mounted".  A raw device is not
   staged; a path with a mount is done. *)
StageCheck(h) ==
  LET v == call[h].v IN
  /\ call[h].op = "stage" /\ call[h].pc = "check" /\ v \in device
  /\ Goto(h, IF v \in raw \/ staging[v] = "mounted" THEN "reply" ELSE "mount")
  /\ IF v \in raw THEN UNCHANGED staging ELSE EnsureDir(v)
  /\ UNCHANGED <<raw, device, target, kube, overtaken, faults, moves>>

(* FormatAndMount: the kernel refuses to mount a device where it is mounted. *)
StageMount(h) ==
  LET v == call[h].v IN
  /\ call[h].op = "stage" /\ call[h].pc = "mount"
  /\ IF v \in device /\ staging[v] = "dir"
       THEN /\ staging' = [staging EXCEPT ![v] = "mounted"]
            /\ Goto(h, "reply") /\ Effect(h) /\ UNCHANGED kube
       ELSE Fail(h) /\ UNCHANGED <<staging, overtaken>>
  /\ UNCHANGED <<raw, device, target, faults, moves>>

(* Mutant: NodePublishVolume does not verify whether the path is mounted. *)
NeverMounted(v) == FALSE

(* IsLikelyNotMountPoint compares a path with its parent: it sees a volume that
   is mounted, but no directory of the same file system. *)
Detected(v) == target[v].mounts # <<>> /\ Head(target[v].mounts) = "volume"

(* Of a raw device the driver does not ask whether it is mounted already. *)
AlreadyMounted(v) == v \notin raw /\ Detected(v)

PublishCheck(h) ==
  LET v == call[h].v IN
  /\ call[h].op = "publish" /\ call[h].pc = "check"
  /\ v \in raw => v \in device
  /\ Goto(h, IF AlreadyMounted(v) THEN "reply" ELSE "mount")
  /\ EnsureTarget(v)
  /\ UNCHANGED <<raw, device, staging, kube, overtaken, faults, moves>>

(* getDevicePath finds nothing. *)
NoDevice(h) ==
  LET v == call[h].v IN
  /\ call[h].pc = "check" /\ v \notin device
  /\ call[h].op = "stage" \/ v \in raw
  /\ Fail(h)
  /\ UNCHANGED <<raw, device, staging, target, overtaken, faults, moves>>

(* The bind mount goes on top of what is mounted there.  It shows the device,
   or the staging path with what is mounted on it at that moment. *)
PublishMount(h) ==
  LET v == call[h].v
      shown == IF v \in raw \/ staging[v] = "mounted" THEN "volume" ELSE "empty dir" IN
  /\ call[h].op = "publish" /\ call[h].pc = "mount"
  /\ IF (IF v \in raw THEN v \in device ELSE staging[v] # "absent") /\ target[v].there
       THEN /\ Len(target[v].mounts) < MaxMounts
            /\ target' = [target EXCEPT ![v].mounts = <<shown>> \o @]
            /\ Goto(h, "reply") /\ Effect(h) /\ UNCHANGED kube
       ELSE /\ target' = [target EXCEPT ![v].there = (v \notin raw \/ target[v].mounts # <<>>) /\ @]
            /\ Fail(h) /\ UNCHANGED overtaken
  /\ UNCHANGED <<raw, device, staging, faults, moves>>

(* The mount fails.  The file made for a raw device is removed, which fails
   when there is a mount on it. *)
MountFails(h) ==
  LET v == call[h].v IN
  /\ call[h].pc = "mount"
  /\ target' = IF call[h].op = "publish" /\ v \in raw /\ target[v].mounts = <<>>
               THEN [target EXCEPT ![v].there = FALSE] ELSE target
  /\ Fail(h)
  /\ Fault
  /\ UNCHANGED <<raw, device, staging, overtaken, moves>>

(* Mutant: a path without a mount is an error. *)
UnstageNeedsMount(h) ==
  LET v == call[h].v IN
  /\ call[h].op = "unstage" /\ call[h].pc = "unmount"
  /\ IF staging[v] = "mounted" \/ v \in raw
       THEN staging' = [staging EXCEPT ![v] = "absent"] /\ Effect(h) /\ Goto(h, "reply") /\ UNCHANGED kube
       ELSE Fail(h) /\ UNCHANGED <<staging, overtaken>>
  /\ UNCHANGED <<raw, device, target, faults, moves>>

(* UnmountPath of the staging path: unmounted and removed, if it is there. *)
Unstage(h) ==
  LET v == call[h].v IN
  /\ call[h].op = "unstage" /\ call[h].pc = "unmount"
  /\ staging' = [staging EXCEPT ![v] = "absent"]
  /\ IF staging[v] = "mounted" THEN Effect(h) ELSE UNCHANGED overtaken
  /\ Goto(h, "reply")
  /\ UNCHANGED <<raw, device, target, kube, faults, moves>>

(* UnmountPath of the pod's path: the uppermost mount goes if it is detected,
   and then the path.  The path cannot be removed while a mount is left on it. *)
Unpublish(h) ==
  LET v == call[h].v
      left == IF Detected(v) THEN Tail(target[v].mounts) ELSE target[v].mounts IN
  /\ call[h].op = "unpublish" /\ call[h].pc = "unmount"
  /\ target' = [target EXCEPT ![v] = [there |-> left # <<>>, mounts |-> left]]
  /\ IF Detected(v) THEN Effect(h) ELSE UNCHANGED overtaken
  /\ IF left = <<>> THEN Goto(h, "reply") /\ UNCHANGED kube ELSE Fail(h)
  /\ UNCHANGED <<raw, device, staging, faults, moves>>

(* Mutant: the error of UnmountPath is ignored. *)
UnmountErrorIgnored(h) ==
  /\ call[h].pc = "unmount"
  /\ Goto(h, "reply")
  /\ Fault
  /\ UNCHANGED <<raw, device, staging, target, kube, overtaken, moves>>

(* The path is in use. *)
UnmountFails(h) ==
  /\ call[h].pc = "unmount"
  /\ Fail(h)
  /\ Fault
  /\ UNCHANGED <<raw, device, staging, target, overtaken, moves>>

Reply(h) ==
  /\ call[h].pc = "reply"
  /\ Tell(h, IF call[h].op \in {"stage", "publish"} THEN "yes" ELSE "no")
  /\ Return(h)
  /\ UNCHANGED <<raw, device, staging, target, overtaken, faults, moves>>

HandlerStep(h) ==
  \/ StageCheck(h) \/ StageMount(h) \/ PublishCheck(h) \/ PublishMount(h) \/ NoDevice(h)
  \/ Unstage(h) \/ Unpublish(h) \/ Reply(h)

KubeletCall(h, v) ==
  \/ CallStage(h, v) \/ CallPublish(h, v) \/ CallUnpublish(h, v) \/ CallUnstage(h, v)

Next ==
  \/ \E h \in Handlers : HandlerStep(h) \/ MountFails(h) \/ UnmountFails(h) \/ Cancel(h)
  \/ \E h \in Handlers, v \in Volumes : KubeletCall(h, v)
  \/ \E v \in Volumes : Attach(v) \/ Detach(v) \/ PodComesOrGoes(v)
  \/ DriverRestarts \/ NodeRestarts

Spec == Init /\ [][Next]_vars
-----------------------------------------------------------------------------
(* Properties.  They leave out the volumes of which a call the kubelet had
   given up changed the mounts: nothing keeps such a call from undoing, or
   doing again, the work of a later one. *)

(* A pod that has its volume sees the volume: NodePublishVolume never looks
   whether the staging path it binds is mounted (nodeserver.go:80-102). *)
PodSeesVolume ==
  \A v \in Volumes \ overtaken :
    kube[v].tgt = "yes" => target[v].mounts # <<>> /\ Head(target[v].mounts) = "volume"

(* A file system is mounted once on the node and once for the pod, however
   often the calls are repeated (nodeserver.go:80-98, 194-216). *)
MountedOnce ==
  \A v \in Volumes \ (overtaken \union raw) : Len(target[v].mounts) <= 1

(* A file system is never mounted from a device that is not there: a volume
   leaves the node unmounted (nodeserver.go:144-162, 222-241).  Of a raw
   device this is not so: when its mount is repeated and fails, the error
   covers the mount that is there (nodeserver.go:134-139). *)
MountedWhileAttached ==
  \A v \in Volumes \ (overtaken \union raw) :
    staging[v] = "mounted" \/ target[v].mounts # <<>> => v \in device

(* Of a volume's mounts, what the pods and the kubelet get to see. *)
Seen(v, p) ==
  IF p = "staging" THEN IF staging[v] = "mounted" THEN v ELSE None
  ELSE IF target[v].mounts = <<>> THEN None
  ELSE IF Head(target[v].mounts) = "volume" THEN v ELSE "empty dir"

Known(v, p) == IF p = "staging" THEN kube[v].dev ELSE kube[v].tgt

Mounts == INSTANCE NodeMounts WITH
  Contents <- Volumes \union {"empty dir"},
  present <- device, stages <- TRUE, own <- [v \in Volumes |-> v],
  mount <- [v \in Volumes |-> [p \in {"staging", "pod"} |-> Seen(v, p)]],
  record <- [v \in Volumes |-> [p \in {"staging", "pod"} |-> Known(v, p)]],
  excused <- overtaken \union raw

(* For a file system the handlers, with the kubelet that retries them, keep to
   the abstract node service: whatever fails, is repeated or restarted, the
   kubelet's records are true, a file system is mounted for the pod only after
   it has been staged and unstaged only after the pod's mount has gone, and the
   device leaves the node with no mount (nodeserver.go:45-241). *)
RefinesMounts == Mounts!Spec
-----------------------------------------------------------------------------
(* The programs run, and Kubernetes retries without end. *)
Fairness ==
  /\ \A h \in Handlers : WF_vars(HandlerStep(h))
  /\ \A v \in Volumes : WF_vars(Attach(v)) /\ WF_vars(Detach(v))
  /\ \A v \in Volumes : SF_vars(\E h \in Handlers : KubeletCall(h, v))

FairSpec == Spec /\ Fairness

(* A directory that was bound for want of a staged volume is on the pod's path. *)
Hidden(v) == \E i \in DOMAIN target[v].mounts : target[v].mounts[i] = "empty dir"

(* A pod that stays gets its volume, and a volume no pod needs leaves the
   node in the end, mounts of a raw device stacked on each other included
   (nodeserver.go:45-241).  But NodeUnpublishVolume does not see the directory
   that a call given up has bound: it cannot remove the pod's path, and fails
   until the node restarts (nodeserver.go:156). *)
PodsSettle ==
  \A v \in Volumes :
    /\ <>[](kube[v].pod /\ v \notin overtaken) => <>[](kube[v].tgt = "yes")
    /\ <>[](~ kube[v].pod /\ ~ Hidden(v)) => <>[](Unused(v) /\ v \notin device)
=============================================================================
